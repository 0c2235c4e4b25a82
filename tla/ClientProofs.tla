---------------------------- MODULE ClientProofs ----------------------------
(* Proofs about the parts of the client that keep or collect what the server  *)
(* told them: the identity's facade (IdentityFacade), the loops of the mail   *)
(* resources (MailReads), the cookie jar (CookieJar) and the load of a        *)
(* conversation (CompanionLoad); and about sends (MessageSend).               *)
EXTENDS IdentityFacade, MailReads, CookieJar, CompanionLoad, MessageSend, SelectionTheorems, TLAPS

(***************************************************************************)
(* The facade of an identity.                                              *)
(***************************************************************************)

FacadeInv == FacadeTypeOK /\ GuardsKnowOwnChanges

\* The identity changes to another, and the changes are counted.
LEMMA EditTypes ==
    ASSUME edits \in 0..MaxEdits, NEW i \in Identity, Edit(i)
    PROVE  edits' \in 0..MaxEdits /\ identity' \in Identity
BY FacadeAssumption DEF Edit

\* A change of the number is to one there may be.
LEMMA PhoneChanges ==
    ASSUME FacadeTypeOK, edits < MaxEdits
    PROVE  /\ [identity EXCEPT !.phone = edits + 1] \in Identity
           /\ [identity EXCEPT !.phone = 0] \in Identity
           /\ Updates \subseteq Identity
<1>1. edits + 1 \in 0..MaxEdits /\ 0 \in 0..MaxEdits
  BY FacadeAssumption DEF FacadeTypeOK
<1>2. identity \in Identity
  BY DEF FacadeTypeOK
<1>3. QED
  BY <1>1, <1>2 DEF Updates, Identity

\* The facade is built from the identity.
LEMMA FacadeStart == FacadeInit => FacadeInv
<1> SUFFICES ASSUME FacadeInit PROVE FacadeInv
  OBVIOUS
<1>1. edits \in 0..MaxEdits /\ identity \in Identity /\ identity.phone \in 0..MaxEdits
  BY FacadeAssumption DEF FacadeInit, Identity
<1>2. QED
  BY <1>1 DEF FacadeInit, FacadeInv, FacadeTypeOK, GuardsKnowOwnChanges, Copies

\* Every call, and every change from elsewhere, keeps what the guards know.
LEMMA FacadeStep == FacadeInv /\ [FacadeNext]_facadeVars => FacadeInv'
<1> SUFFICES ASSUME FacadeInv, [FacadeNext]_facadeVars PROVE FacadeInv'
  OBVIOUS
<1> USE DEF facadeVars, cacheVars, FacadeInv
<1>1. ASSUME NEW c \in open, RefreshIdentity(c) PROVE FacadeInv'
  BY <1>1 DEF RefreshIdentity, Received, FacadeTypeOK, Identity, GuardsKnowOwnChanges
<1>2. ASSUME NEW c \in open, UpdateIdentity(c) PROVE FacadeInv'
  <2>1. PICK i \in Updates :
          /\ Edit(i) /\ Received(c, i)
          /\ current' = [d \in Copies |-> d = c \/ (current[d] /\ i = identity)]
    BY <1>2 DEF UpdateIdentity
  <2>2. /\ i \in Identity /\ i.phone \in 0..MaxEdits /\ identity' = i
        /\ edits' \in 0..MaxEdits
    BY <2>1, PhoneChanges, EditTypes DEF Edit, Identity, FacadeTypeOK
  <2>3. FacadeTypeOK'
    BY <1>2, <2>1, <2>2 DEF UpdateIdentity, Received, FacadeTypeOK
  <2>4. GuardsKnowOwnChanges'
    BY <1>2, <2>1, <2>2, ZenonT(30) DEF UpdateIdentity, Received, FacadeTypeOK, GuardsKnowOwnChanges
  <2>5. QED
    BY <2>3, <2>4
<1>3. ASSUME NEW c \in open, Provision(c) PROVE FacadeInv'
  <2>1. identity' \in Identity /\ edits' \in 0..MaxEdits
    BY <1>3, PhoneChanges, EditTypes DEF Provision, Edit, FacadeTypeOK
  <2>2. QED
    BY <1>3, <2>1 DEF Provision, OnlySeenBy, FacadeTypeOK, GuardsKnowOwnChanges
<1>4. ASSUME NEW c \in open, ReleasePhone(c) PROVE FacadeInv'
  <2>1. /\ identity' \in Identity /\ edits' \in 0..MaxEdits /\ 0 \in 0..MaxEdits
        /\ identity'.phone = 0 /\ identity'.imessage = identity.imessage
    BY <1>4, PhoneChanges, EditTypes, FacadeAssumption
    DEF ReleasePhone, Edit, FacadeTypeOK, Identity
  <2>2. FacadeTypeOK'
    BY <1>4, <2>1 DEF ReleasePhone, OnlySeenBy, FacadeTypeOK
  <2>3. GuardsKnowOwnChanges'
    BY <1>4, <2>1 DEF ReleasePhone, OnlySeenBy, FacadeTypeOK, GuardsKnowOwnChanges
  <2>4. QED
    BY <2>2, <2>3
<1>5. ASSUME NEW c \in open, DeleteIdentity(c) PROVE FacadeInv'
  BY <1>5 DEF DeleteIdentity, FacadeTypeOK, GuardsKnowOwnChanges
<1>6. ASSUME NEW c \in open, ReadBackPhone(c) PROVE FacadeInv'
  BY <1>6 DEF ReadBackPhone, FacadeTypeOK, Identity, GuardsKnowOwnChanges
<1>7. ASSUME NEW c \in open, ReadBackPhoneFails(c) PROVE FacadeInv'
  BY <1>7 DEF ReadBackPhoneFails, FacadeTypeOK, GuardsKnowOwnChanges
<1>8. CASE ChangedElsewhere
  <2>1. identity' \in Identity /\ edits' \in 0..MaxEdits
    BY <1>8, PhoneChanges, EditTypes DEF ChangedElsewhere, Edit, FacadeTypeOK
  <2>2. QED
    BY <1>8, <2>1 DEF ChangedElsewhere, OnlySeenBy, FacadeTypeOK, GuardsKnowOwnChanges
<1>9. CASE EnterScope \/ LeaveScope
  BY <1>9 DEF EnterScope, LeaveScope, FacadeTypeOK, GuardsKnowOwnChanges, Copies, Identity
<1>10. CASE UNCHANGED facadeVars
  BY <1>10 DEF FacadeTypeOK, GuardsKnowOwnChanges
<1>11. QED
  BY <1>1, <1>2, <1>3, <1>4, <1>5, <1>6, <1>7, <1>8, <1>9, <1>10 DEF FacadeNext

\* The facade, and a scoped copy of it, know what their own calls changed, for
\* any number of changes from elsewhere (agent_identity.rs).
THEOREM FacadeKnows == FacadeSpec => []GuardsKnowOwnChanges
<1>1. FacadeInv => GuardsKnowOwnChanges
  BY DEF FacadeInv
<1>2. QED
  BY <1>1, FacadeStart, FacadeStep, PTL DEF FacadeSpec

\* The types of the facade.
THEOREM FacadeTypesHold == FacadeSpec => []FacadeTypeOK
<1>1. FacadeInv => FacadeTypeOK
  BY DEF FacadeInv
<1>2. QED
  BY <1>1, FacadeStart, FacadeStep, PTL DEF FacadeSpec

(***************************************************************************)
(* The loops of the mail resources.                                        *)
(***************************************************************************)

\* A wait with a timeout waits for nothing beyond it; the bound on the time is none.
WaitInv ==
    /\ now \in 0..MaxTime /\ until \in Int /\ limit \in Int
    /\ limit = Unlimited \/ limit < MaxTime
    /\ waiting \in {"answer", "sleep"} =>
           now <= limit /\ (limit # Unlimited => until <= limit)

\* The list is collected from the newest down to the cursor: nothing that was there
\* and is not deleted has been left out.
Collecting ==
    /\ \A i \in DOMAIN listed : listed[i] >= listCursor
    /\ listCursor = 0 => listed = <<>>
    /\ \A m \in there \cap mailbox :
          listCursor # 0 /\ m >= listCursor => \E i \in DOMAIN listed : listed[i] = m

Descending(s) == \A i, j \in DOMAIN s : i < j => s[i] > s[j]

ListInv ==
    /\ newest \in Nat /\ mailbox \subseteq 1..newest /\ there \subseteq 1..newest
    /\ listed \in Seq(Nat) /\ listCursor \in Nat
    /\ Descending(listed)
    /\ listing = "idle" => listCursor = 0 /\ listed = <<>>
    /\ listing = "pages" => Collecting
    /\ listing = "returned" =>
          \A m \in there \cap mailbox : \E i \in DOMAIN listed : listed[i] = m

\* wait begins at time 0.
LEMMA WaitStart == MailInit => WaitInv
<1> SUFFICES ASSUME MailInit PROVE WaitInv
  OBVIOUS
<1>1. /\ now = 0 /\ until = 0 /\ waiting = "poll"
      /\ limit \in (0..MaxTime - 1) \cup {Unlimited} /\ MaxTime \in Nat
  BY MailAssumption DEF MailInit
<1>2. limit \in Int /\ (limit = Unlimited \/ limit < MaxTime)
  BY <1>1 DEF Unlimited
<1>3. QED
  BY <1>1, <1>2 DEF WaitInv

\* Every step of the wait stays within the timeout.
LEMMA WaitKeeps == WaitInv /\ WaitStep => WaitInv'
<1> SUFFICES ASSUME WaitInv, WaitStep PROVE WaitInv'
  OBVIOUS
<1> USE MailAssumption DEF WaitInv, Unlimited
<1>1. CASE Tick
  <2>1. /\ waiting \in {"answer", "sleep"} /\ now < until /\ now < MaxTime
        /\ now' = now + 1 /\ UNCHANGED <<waiting, limit, until>>
    BY <1>1 DEF Tick
  <2>2. now' \in 0..MaxTime /\ now' <= until
    BY <2>1
  <2>3. now' <= limit
    BY <2>1, <2>2
  <2>4. QED
    BY <2>1, <2>2, <2>3
<1>2. CASE Poll
  <2>1. /\ now <= limit /\ waiting' = "answer" /\ UNCHANGED <<now, limit>>
        /\ until' = IF limit = Unlimited THEN now + ClientTimeout ELSE limit
    BY <1>2 DEF Poll
  <2>2. until' \in Int /\ (limit # Unlimited => until' = limit)
    BY <2>1
  <2>3. QED
    BY <2>1, <2>2
<1>3. CASE PollAnswered
  <2>1. waiting = "answer" /\ UNCHANGED <<now, limit>>
    BY <1>3 DEF PollAnswered
  <2>2. CASE job = "ended"
    <3>1. waiting' = "returned" /\ until' = until
      BY <1>3, <2>2 DEF PollAnswered
    <3>2. QED
      BY <2>1, <3>1
  <2>3. CASE job # "ended"
    <3>1. waiting' = "sleep" /\ until' = Soonest(now + PollInterval, limit)
      BY <1>3, <2>3 DEF PollAnswered
    <3>2. until' \in Int /\ until' <= limit
      BY <3>1 DEF Soonest
    <3>3. QED
      BY <2>1, <3>1, <3>2
  <2>4. QED
    BY <2>2, <2>3
<1>4. CASE JobEnds \/ PollTooLate \/ PollFails \/ WakeUp
  BY <1>4 DEF JobEnds, PollTooLate, PollFails, WakeUp
<1>5. QED
  BY <1>1, <1>2, <1>3, <1>4 DEF WaitStep

\* Two lists one after the other.
LEMMA Joined ==
    ASSUME NEW s \in Seq(Nat), NEW t \in Seq(Nat)
    PROVE  /\ s \o t \in Seq(Nat)
           /\ \A k \in DOMAIN (s \o t) :
                 \/ k \in DOMAIN s /\ (s \o t)[k] = s[k]
                 \/ /\ k \notin DOMAIN s /\ k - Len(s) \in DOMAIN t
                    /\ (s \o t)[k] = t[k - Len(s)]
           /\ \A k \in DOMAIN s : k \in DOMAIN (s \o t) /\ (s \o t)[k] = s[k]
           /\ \A k \in DOMAIN t : /\ Len(s) + k \in DOMAIN (s \o t)
                                  /\ (s \o t)[Len(s) + k] = t[k]
           /\ DOMAIN s = 1..Len(s) /\ DOMAIN t = 1..Len(t)
           /\ Len(s) \in Nat /\ Len(t) \in Nat /\ DOMAIN (s \o t) \subseteq Nat
<1> DEFINE u == s \o t
<1>1. /\ u \in Seq(Nat) /\ Len(s) \in Nat /\ Len(t) \in Nat /\ Len(u) = Len(s) + Len(t)
      /\ DOMAIN s = 1..Len(s) /\ DOMAIN t = 1..Len(t) /\ DOMAIN u = 1..Len(s) + Len(t)
  <2>1. Len(s) \in Nat /\ Len(t) \in Nat /\ DOMAIN s = 1..Len(s) /\ DOMAIN t = 1..Len(t)
    BY LenProperties
  <2>2. u \in Seq(Nat) /\ Len(u) = Len(s) + Len(t)
    BY ConcatProperties
  <2>3. DOMAIN u = 1..Len(u)
    BY <2>2, LenProperties
  <2>4. QED
    BY <2>1, <2>2, <2>3
<1>2. \A k \in 1..Len(s) + Len(t) : u[k] = IF k <= Len(s) THEN s[k] ELSE t[k - Len(s)]
  BY ConcatProperties
<1> HIDE DEF u
<1>3. \A k \in DOMAIN s : k \in DOMAIN u /\ u[k] = s[k]
  BY <1>1, <1>2
<1>4. \A k \in DOMAIN t : Len(s) + k \in DOMAIN u /\ u[Len(s) + k] = t[k]
  <2> SUFFICES ASSUME NEW k \in 1..Len(t)
               PROVE  Len(s) + k \in 1..Len(s) + Len(t) /\ u[Len(s) + k] = t[k]
    BY <1>1
  <2>1. /\ Len(s) + k \in 1..Len(s) + Len(t) /\ ~(Len(s) + k <= Len(s))
        /\ (Len(s) + k) - Len(s) = k
    BY <1>1
  <2>2. QED
    BY <1>2, <2>1
<1>5. \A k \in DOMAIN u : \/ k \in DOMAIN s /\ u[k] = s[k]
                         \/ /\ k \notin DOMAIN s /\ k - Len(s) \in DOMAIN t
                            /\ u[k] = t[k - Len(s)]
  BY <1>1, <1>2
<1>6. QED
  BY <1>1, <1>3, <1>4, <1>5 DEF u

\* What a page is: some of the newest of what remains, in order.
LEMMA PageFacts ==
    ASSUME ListInv, NEW page \in Pages, IsPage(page)
    PROVE  /\ page \in Seq(Nat) /\ DOMAIN page = 1..Len(page) /\ Len(page) \in Nat
           /\ Descending(page)
           /\ \A i \in DOMAIN page : /\ page[i] \in mailbox /\ page[i] \in Nat \ {0}
                                     /\ listCursor = 0 \/ page[i] < listCursor
           /\ \A i \in DOMAIN page, m \in Remaining :
                  m > page[i] => \E j \in DOMAIN page : page[j] = m
           /\ HasMore(page) => Len(page) \in DOMAIN page
           /\ ~HasMore(page) => \A m \in Remaining : \E j \in DOMAIN page : page[j] = m
<1>1. PICK n \in 0..ListLimit : page \in [1..n -> 1..MaxMail]
  BY DEF Pages
<1>2. n \in Nat /\ 1..MaxMail \subseteq Nat
  BY <1>1, MailAssumption
<1>3. /\ page \in Seq(Nat) /\ DOMAIN page = 1..n /\ Len(page) = n
  BY <1>1, <1>2
<1>4. \A i \in DOMAIN page : page[i] \in Remaining
  BY DEF IsPage
<1>5. \A i \in DOMAIN page :
          {m \in Remaining : m > page[i]} = {page[j] : j \in 1..i - 1}
  BY DEF IsPage
<1>6. \A i \in DOMAIN page, m \in Remaining :
          m > page[i] => \E j \in DOMAIN page : page[j] = m
  <2> SUFFICES ASSUME NEW i \in DOMAIN page, NEW m \in Remaining, m > page[i]
               PROVE  \E j \in DOMAIN page : page[j] = m
    OBVIOUS
  <2>1. m \in {page[j] : j \in 1..i - 1}
    BY <1>5
  <2>2. 1..i - 1 \subseteq DOMAIN page
    BY <1>2, <1>3
  <2>3. QED
    BY <2>1, <2>2
<1>7. Descending(page)
  <2> SUFFICES ASSUME NEW i \in DOMAIN page, NEW j \in DOMAIN page, i < j
               PROVE  page[i] > page[j]
    BY DEF Descending
  <2>1. i \in 1..j - 1
    BY <1>2, <1>3
  <2>2. page[i] \in {m \in Remaining : m > page[j]}
    BY <1>5, <2>1
  <2>3. QED
    BY <2>2
<1>8. \A i \in DOMAIN page : /\ page[i] \in mailbox /\ page[i] \in Nat \ {0}
                             /\ listCursor = 0 \/ page[i] < listCursor
  <2>1. newest \in Nat /\ mailbox \subseteq 1..newest
    BY DEF ListInv
  <2>2. \A m \in mailbox : m \in Nat \ {0}
    BY <2>1
  <2>3. \A m \in Remaining : m \in mailbox /\ (listCursor = 0 \/ m < listCursor)
    BY DEF Remaining
  <2>4. QED
    BY <1>4, <2>2, <2>3
<1>9. HasMore(page) => Len(page) \in DOMAIN page
  <2>1. ASSUME HasMore(page), n = 0 PROVE FALSE
    <3>1. Range(page) = {} /\ page = <<>>
      BY <1>1, <1>3, <2>1 DEF Range
    <3>2. Remaining # {}
      BY <2>1, <3>1 DEF HasMore
    <3>3. QED
      BY <3>1, <3>2 DEF IsPage
  <2>2. QED
    BY <1>2, <1>3, <2>1
<1>10. ~HasMore(page) => \A m \in Remaining : \E j \in DOMAIN page : page[j] = m
  BY DEF HasMore, Range
<1>11. QED
  BY <1>2, <1>3, <1>6, <1>7, <1>8, <1>9, <1>10

\* A page goes on where the list ended.
LEMMA NextPageKeeps ==
    ASSUME ListInv, NEW page \in Pages, NextPage(page) PROVE ListInv'
<1> DEFINE both == listed \o page
<1>1. /\ listing = "pages" /\ IsPage(page) /\ listed' = both
      /\ UNCHANGED <<mailbox, newest, there>>
  BY DEF NextPage
<1>2. /\ newest \in Nat /\ mailbox \subseteq 1..newest /\ there \subseteq 1..newest
      /\ listed \in Seq(Nat) /\ listCursor \in Nat /\ Descending(listed)
      /\ \A i \in DOMAIN listed : listed[i] >= listCursor
      /\ listCursor = 0 => listed = <<>>
      /\ \A m \in there \cap mailbox : listCursor # 0 /\ m >= listCursor =>
            \E i \in DOMAIN listed : listed[i] = m
  BY <1>1 DEF ListInv, Collecting
<1>3. /\ page \in Seq(Nat) /\ Descending(page)
      /\ \A i \in DOMAIN page : /\ page[i] \in mailbox /\ page[i] \in Nat \ {0}
                                /\ listCursor = 0 \/ page[i] < listCursor
      /\ \A i \in DOMAIN page, m \in Remaining :
             m > page[i] => \E j \in DOMAIN page : page[j] = m
      /\ HasMore(page) => Len(page) \in DOMAIN page
      /\ ~HasMore(page) => \A m \in Remaining : \E j \in DOMAIN page : page[j] = m
  BY <1>1, PageFacts
<1>4. /\ both \in Seq(Nat)
      /\ \A k \in DOMAIN both :
            \/ k \in DOMAIN listed /\ both[k] = listed[k]
            \/ /\ k \notin DOMAIN listed /\ k - Len(listed) \in DOMAIN page
               /\ both[k] = page[k - Len(listed)]
      /\ \A k \in DOMAIN listed : k \in DOMAIN both /\ both[k] = listed[k]
      /\ \A k \in DOMAIN page : /\ Len(listed) + k \in DOMAIN both
                                /\ both[Len(listed) + k] = page[k]
      /\ DOMAIN listed = 1..Len(listed) /\ DOMAIN page = 1..Len(page)
      /\ Len(listed) \in Nat /\ Len(page) \in Nat /\ DOMAIN both \subseteq Nat
  <2>1. listed \in Seq(Nat) /\ page \in Seq(Nat)
    BY <1>2, <1>3
  <2>2. QED
    BY <2>1, Joined
<1> HIDE DEF both
<1>5. listCursor = 0 => DOMAIN listed = {}
  BY <1>2
<1>6. Descending(both)
  <2> SUFFICES ASSUME NEW i \in DOMAIN both, NEW j \in DOMAIN both, i < j
               PROVE  both[i] > both[j]
    BY DEF Descending
  <2>1. i \in Nat /\ j \in Nat
    BY <1>4
  <2>2. CASE j \in DOMAIN listed
    <3>1. i \in DOMAIN listed
      BY <1>4, <2>1, <2>2
    <3>2. QED
      BY <1>2, <1>4, <2>2, <3>1 DEF Descending
  <2>3. CASE i \notin DOMAIN listed
    <3>1. j \notin DOMAIN listed
      BY <1>4, <2>1, <2>3
    <3>2. /\ i - Len(listed) \in DOMAIN page /\ both[i] = page[i - Len(listed)]
          /\ j - Len(listed) \in DOMAIN page /\ both[j] = page[j - Len(listed)]
      BY <1>4, <2>3, <3>1
    <3>3. i - Len(listed) < j - Len(listed)
      BY <1>4, <2>1
    <3>4. QED
      BY <1>3, <3>2, <3>3 DEF Descending
  <2>4. CASE i \in DOMAIN listed /\ j \notin DOMAIN listed
    <3>1. both[i] = listed[i] /\ listed[i] >= listCursor /\ listCursor # 0
      BY <1>2, <1>4, <1>5, <2>4
    <3>2. both[j] < listCursor /\ both[j] \in Nat
      BY <1>3, <1>4, <2>4, <3>1
    <3>3. listed[i] \in Nat
      BY <1>2, <2>4
    <3>4. QED
      BY <1>2, <3>1, <3>2, <3>3
  <2>5. QED
    BY <2>2, <2>3, <2>4
<1>7. \A m \in there \cap mailbox :
          \/ m \in Remaining
          \/ \E i \in DOMAIN both : both[i] = m
  <2> SUFFICES ASSUME NEW m \in there \cap mailbox, m \notin Remaining
               PROVE  \E i \in DOMAIN both : both[i] = m
    OBVIOUS
  <2>1. listCursor # 0 /\ m >= listCursor
    BY <1>2 DEF Remaining
  <2>2. QED
    BY <1>2, <1>4, <2>1
<1>8. CASE HasMore(page)
  <2>1. listCursor' = page[Len(page)] /\ listing' = "pages"
    BY <1>1, <1>8 DEF NextPage
  <2>2. Len(page) \in DOMAIN page /\ listCursor' \in Nat \ {0}
    BY <1>3, <1>8, <2>1
  <2>3. \A i \in DOMAIN both : both[i] >= listCursor'
    <3> SUFFICES ASSUME NEW i \in DOMAIN both PROVE both[i] >= listCursor'
      OBVIOUS
    <3>1. \A k \in DOMAIN page : page[k] >= page[Len(page)]
      <4> SUFFICES ASSUME NEW k \in DOMAIN page PROVE page[k] >= page[Len(page)]
        OBVIOUS
      <4>1. k < Len(page) \/ k = Len(page)
        BY <1>4
      <4>2. page[k] \in Nat /\ page[Len(page)] \in Nat
        BY <1>3, <2>2
      <4>3. QED
        BY <1>3, <2>2, <4>1, <4>2 DEF Descending
    <3>2. CASE i \in DOMAIN listed
      <4>1. listed[i] >= listCursor /\ listCursor # 0 /\ listed[i] \in Nat
        BY <1>2, <1>5, <3>2
      <4>2. listCursor' < listCursor
        BY <1>3, <2>1, <2>2, <4>1
      <4>3. QED
        BY <1>2, <1>4, <2>2, <3>2, <4>1, <4>2
    <3>3. CASE i \notin DOMAIN listed
      BY <1>4, <2>1, <3>1, <3>3
    <3>4. QED
      BY <3>2, <3>3
  <2>4. ASSUME NEW m \in there \cap mailbox, m >= listCursor'
        PROVE  \E i \in DOMAIN both : both[i] = m
    <3>1. CASE m \in Remaining
      <4>1. \E j \in DOMAIN page : page[j] = m
        <5>1. m = page[Len(page)] \/ m > page[Len(page)]
          BY <1>2, <2>1, <2>2, <2>4
        <5>2. QED
          BY <1>3, <2>2, <3>1, <5>1
      <4>2. QED
        BY <1>4, <4>1
    <3>2. QED
      BY <1>7, <3>1
  <2>5. Collecting'
    BY <1>1, <2>2, <2>3, <2>4 DEF Collecting
  <2>6. QED
    BY <1>1, <1>2, <1>4, <1>6, <2>1, <2>2, <2>5 DEF ListInv
<1>9. CASE ~HasMore(page)
  <2>1. listCursor' = listCursor /\ listing' = "returned"
    BY <1>1, <1>9 DEF NextPage
  <2>2. \A m \in there \cap mailbox : \E i \in DOMAIN both : both[i] = m
    BY <1>3, <1>4, <1>7, <1>9
  <2>3. QED
    BY <1>1, <1>2, <1>4, <1>6, <2>1, <2>2 DEF ListInv
<1>10. QED
  BY <1>8, <1>9

\* Mail that arrives or is deleted, and the ends of a list, keep what was collected.
LEMMA ListKeeps == ListInv /\ ListStep => ListInv'
<1> SUFFICES ASSUME ListInv, ListStep PROVE ListInv'
  OBVIOUS
<1>1. CASE MailArrives
  <2>1. /\ listing = "pages" /\ newest' = newest + 1
        /\ mailbox' = mailbox \cup {newest + 1}
        /\ UNCHANGED <<listing, listCursor, listed, there>>
    BY <1>1 DEF MailArrives
  <2>2. newest + 1 \notin there /\ newest' \in Nat
    BY <2>1 DEF ListInv
  <2>3. /\ mailbox' \subseteq 1..newest' /\ there' \subseteq 1..newest'
        /\ there' \cap mailbox' = there \cap mailbox
    BY <2>1, <2>2 DEF ListInv
  <2>4. QED
    BY <2>1, <2>2, <2>3 DEF ListInv, Collecting
<1>2. ASSUME NEW m \in mailbox, MailDeleted(m) PROVE ListInv'
  BY <1>2 DEF MailDeleted, ListInv, Collecting
<1>3. CASE StartList
  BY <1>3 DEF StartList, ListInv, Collecting
<1>4. CASE ListFails
  <2>1. Descending(<<>>) /\ <<>> \in Seq(Nat)
    BY DEF Descending
  <2>2. QED
    BY <1>4, <2>1 DEF ListFails, ListInv
<1>5. QED
  BY <1>1, <1>2, <1>3, <1>4, NextPageKeeps DEF ListStep

\* Nothing has been listed and nothing is awaited.
LEMMA MailStart == MailInit => ListInv /\ WaitInv
<1> SUFFICES ASSUME MailInit PROVE ListInv
  BY WaitStart
<1>1. newest \in Nat
  BY MailAssumption DEF MailInit
<1>2. <<>> \in Seq(Nat) /\ Descending(<<>>)
  BY DEF Descending
<1>3. QED
  BY <1>1, <1>2 DEF MailInit, ListInv

\* The loops do not concern each other.
LEMMA MailStep == ListInv /\ WaitInv /\ [MailNext]_mailVars => ListInv' /\ WaitInv'
<1> SUFFICES ASSUME ListInv, WaitInv, [MailNext]_mailVars PROVE ListInv' /\ WaitInv'
  OBVIOUS
<1>1. CASE ListStep
  <2>1. UNCHANGED waitVars
    BY <1>1 DEF ListStep, MailArrives, StartList, ListFails, MailDeleted, NextPage
  <2>2. WaitInv'
    BY <2>1 DEF WaitInv, waitVars, Unlimited
  <2>3. QED
    BY <1>1, <2>2, ListKeeps
<1>2. ASSUME UNCHANGED listingVars PROVE ListInv'
  <2>1. UNCHANGED <<mailbox, newest, listing, listCursor, listed, there>>
    BY <1>2 DEF listingVars
  <2>2. Collecting => Collecting'
    BY <2>1 DEF Collecting
  <2>3. Descending(listed)'
    BY <2>1 DEF ListInv, Descending
  <2>4. QED
    BY <2>1, <2>2, <2>3 DEF ListInv
<1>3. CASE WaitStep
  <2>1. UNCHANGED listingVars
    BY <1>3
    DEF WaitStep, Tick, JobEnds, Poll, PollTooLate, PollAnswered, PollFails, WakeUp
  <2>2. ListInv'
    BY <1>2, <2>1
  <2>3. QED
    BY <1>3, <2>2, WaitKeeps
<1>4. CASE UNCHANGED mailVars
  <2>1. UNCHANGED listingVars /\ UNCHANGED waitVars
    BY <1>4 DEF mailVars
  <2>2. WaitInv'
    BY <2>1 DEF WaitInv, waitVars, Unlimited
  <2>3. QED
    BY <1>2, <2>1, <2>2
<1>5. QED
  BY <1>1, <1>3, <1>4 DEF MailNext

\* For any number of messages and any page size: what list returns has every message
\* that was there when it was called and is there still, once and in order
\* (MessagesResource::list_filtered).
THEOREM ListsAll == MailSpec => []ListedWhole
<1>1. ListInv => ListedWhole
  BY DEF ListInv, ListedWhole, Descending, Range
<1>2. QED
  BY <1>1, MailStart, MailStep, PTL DEF MailSpec

\* For every timeout and interval: wait is not under way beyond its timeout
\* (MailboxImportsResource::wait).
THEOREM WaitEndsInTime == MailSpec => []WaitBounded
<1>1. WaitInv => WaitBounded
  BY DEF WaitInv, WaitBounded
<1>2. QED
  BY <1>1, MailStart, MailStep, PTL DEF MailSpec


\* Besides: cursors are numbers of messages, and the two loops are where they can be.
MailShape ==
    /\ newest <= MaxMail /\ listing \in {"idle", "pages", "returned", "failed"}
    /\ listCursor <= MaxMail /\ Range(listed) \subseteq 1..newest
    /\ job \in {"running", "ended"}
    /\ waiting \in {"poll", "answer", "sleep", "returned", "timed out", "failed"}

\* Every step keeps that, too.
LEMMA MailShapeStep == ListInv /\ WaitInv /\ MailShape /\ [MailNext]_mailVars => MailShape'
<1> SUFFICES ASSUME ListInv, WaitInv, MailShape, [MailNext]_mailVars PROVE MailShape'
  OBVIOUS
<1>1. /\ MaxMail \in Nat /\ newest \in Nat /\ mailbox \subseteq 1..newest
      /\ listed \in Seq(Nat) /\ listCursor \in Nat
  BY MailAssumption DEF ListInv
<1>2. CASE UNCHANGED mailVars
  BY <1>2 DEF mailVars, listingVars, waitVars, MailShape
<1>3. CASE WaitStep
  <2>1. UNCHANGED <<newest, listing, listCursor, listed>>
    BY <1>3 DEF WaitStep, Tick, JobEnds, Poll, PollTooLate, PollAnswered, PollFails, WakeUp,
                listingVars
  <2>2. /\ job' \in {"running", "ended"}
        /\ waiting' \in {"poll", "answer", "sleep", "returned", "timed out", "failed"}
    BY <1>3 DEF WaitStep, Tick, JobEnds, Poll, PollTooLate, PollAnswered, PollFails, WakeUp,
                MailShape
  <2>3. QED
    BY <2>1, <2>2 DEF MailShape
<1>4. CASE MailArrives
  <2>1. /\ newest' = newest + 1 /\ newest < MaxMail
        /\ UNCHANGED <<listing, listCursor, listed, job, waiting>>
    BY <1>4 DEF MailArrives, waitVars
  <2>2. 1..newest \subseteq 1..newest' /\ newest' <= MaxMail
    BY <1>1, <2>1
  <2>3. QED
    BY <2>1, <2>2 DEF MailShape
<1>5. CASE StartList
  BY <1>5 DEF StartList, waitVars, MailShape
<1>6. CASE ListFails
  <2>1. Range(<<>>) = {}
    BY DEF Range
  <2>2. QED
    BY <1>6, <2>1 DEF ListFails, waitVars, MailShape
<1>7. ASSUME NEW m \in mailbox, MailDeleted(m) PROVE MailShape'
  BY <1>7 DEF MailDeleted, waitVars, MailShape
<1>8. ASSUME NEW page \in Pages, NextPage(page) PROVE MailShape'
  <2>1. /\ listing = "pages" /\ IsPage(page) /\ listed' = listed \o page
        /\ listing' \in {"pages", "returned"}
        /\ \/ HasMore(page) /\ listCursor' = page[Len(page)]
           \/ listCursor' = listCursor
        /\ UNCHANGED <<newest, job, waiting>>
    BY <1>8 DEF NextPage, waitVars
  <2>2. /\ page \in Seq(Nat) /\ \A i \in DOMAIN page : page[i] \in mailbox
        /\ HasMore(page) => Len(page) \in DOMAIN page
    <3>1. /\ listing = "pages" /\ \A i \in DOMAIN listed : listed[i] >= listCursor
          /\ newest \in Nat /\ mailbox \subseteq 1..newest /\ listCursor \in Nat
      BY <2>1 DEF ListInv, Collecting
    <3>2. QED
      BY <2>1, <3>1, PageFacts
  <2>3. listCursor' <= MaxMail
    <3>1. CASE HasMore(page) /\ listCursor' = page[Len(page)]
      <4>1. page[Len(page)] \in 1..newest
        BY <1>1, <2>2, <3>1
      <4>2. newest <= MaxMail
        BY DEF MailShape
      <4> DEFINE x == page[Len(page)]
      <4>3. x <= MaxMail
        <5>1. x \in 1..newest
          BY <4>1
        <5> HIDE DEF x
        <5>2. QED
          BY <1>1, <4>2, <5>1
      <4>4. QED
        BY <3>1, <4>3
    <3>2. CASE listCursor' = listCursor
      BY <3>2 DEF MailShape
    <3>3. QED
      BY <2>1, <3>1, <3>2
  <2>4. Range(listed \o page) \subseteq 1..newest
    <3>1. \A i \in DOMAIN listed : listed[i] \in 1..newest
      BY DEF MailShape, Range
    <3>2. \A i \in DOMAIN (listed \o page) :
             \/ i \in DOMAIN listed /\ (listed \o page)[i] = listed[i]
             \/ i - Len(listed) \in DOMAIN page /\ (listed \o page)[i] = page[i - Len(listed)]
      BY <1>1, <2>2
    <3>3. \A i \in DOMAIN (listed \o page) : (listed \o page)[i] \in 1..newest
      BY <1>1, <2>2, <3>1, <3>2
    <3>4. QED
      BY <3>3 DEF Range
  <2>5. QED
    BY <2>1, <2>3, <2>4 DEF MailShape
<1>9. QED
  BY <1>2, <1>3, <1>4, <1>5, <1>6, <1>7, <1>8 DEF MailNext, ListStep

\* The types of the two loops, for any number of messages, any page size and timeout.
THEOREM MailTypesHold == MailSpec => []MailTypeOK
<1>1. MailInit => MailShape
  <2> SUFFICES ASSUME MailInit PROVE MailShape
    OBVIOUS
  <2>1. MaxMail \in Nat /\ Range(<<>>) = {}
    BY MailAssumption DEF Range
  <2>2. QED
    BY <2>1 DEF MailInit, MailShape
<1>2. ListInv /\ WaitInv /\ MailShape => MailTypeOK
  <2> SUFFICES ASSUME ListInv, WaitInv, MailShape PROVE MailTypeOK
    OBVIOUS
  <2>1. newest \in 0..MaxMail /\ listCursor \in 0..MaxMail
    <3>1. newest \in Nat /\ listCursor \in Nat
      BY DEF ListInv
    <3>2. newest <= MaxMail /\ listCursor <= MaxMail
      BY DEF MailShape
    <3>3. QED
      BY MailAssumption, <3>1, <3>2
  <2>2. QED
    BY <2>1 DEF ListInv, WaitInv, MailShape, MailTypeOK
<1>3. QED
  BY <1>1, <1>2, MailStart, MailStep, MailShapeStep, PTL DEF MailSpec


(***************************************************************************)
(* The cookie jar.                                                         *)
(***************************************************************************)

Life(life) == life.kind \in {"session", "max-age", "expires"} /\ life.val \in Int

\* The types of what decides about a cookie.
JarTypes ==
    /\ nowSecs \in 0..MaxSecs /\ answers \in 0..MaxAnswers
    /\ \A p \in DOMAIN jar : jar[p].expires \in Int
    /\ stage \in [Callers -> {"idle", "asking", "answered", "parsed"}]
    /\ path \in [Callers -> Paths \cup {NoPath}]
    /\ \A c \in Callers : stage[c] = "asking" \/ stage[c] = "answered" => path[c] \in Paths
    /\ answer \in [Callers -> [value : Nat, path : PathAttrs \cup {NoPath}, life : Lifetimes]]
    /\ cookie \in [Callers -> [path : CookiePaths \cup {NoPath}, value : Nat, expires : Int]]
    /\ lastSet \in [CookiePaths -> [value : 0..MaxAnswers, life : Lifetimes, at : 0..MaxSecs]]
    /\ \A p \in CookiePaths : lastSet[p].value <= answers /\ lastSet[p].at <= nowSecs

\* What the client may count as the end of the cookie s that the server set: not
\* before the server does, and by now where the server has removed it.
EndsAs(expires, s) ==
    /\ s.life.kind = "session" => expires = Never
    /\ s.life.kind = "max-age" =>
          expires >= s.at + s.life.val /\ (s.life.val <= 0 => expires <= nowSecs)
    /\ s.life.kind = "expires" => expires = s.life.val

\* An answer under way is the one the server gave last, unless it is not known which
\* is.
PendingLast ==
    \A p \in CookiePaths, c \in Callers : lastSet[p] # Unknown =>
        /\ stage[c] = "answered" /\ CookiePath(path[c], answer[c].path) = p =>
              answer[c].value = lastSet[p].value /\ answer[c].life = lastSet[p].life
        /\ stage[c] = "parsed" /\ cookie[c].path = p =>
              cookie[c].value = lastSet[p].value /\ EndsAs(cookie[c].expires, lastSet[p])

\* The jar has what was set last, once it has arrived, until it expires.
JarLast ==
    \A p \in CookiePaths : lastSet[p] # Unknown /\ Pending(p) = {} =>
        /\ p \in DOMAIN jar =>
              jar[p].value = lastSet[p].value /\ EndsAs(jar[p].expires, lastSet[p])
        /\ p \notin DOMAIN jar => ServerExpiry(p) <= nowSecs

JarInv == JarTypes /\ PendingLast /\ JarLast


\* Lifetimes are what they say.
LEMMA LifeTypes == \A life \in Lifetimes : Life(life)
<1> SUFFICES ASSUME NEW life \in Lifetimes PROVE Life(life)
  OBVIOUS
<1>1. CASE life = [kind |-> "session", val |-> 0]
  BY <1>1 DEF Life
<1>2. ASSUME NEW a \in Ages, life = [kind |-> "max-age", val |-> a] PROVE Life(life)
  <2>1. a \in Int
    BY CookieJarAssumption
  <2>2. QED
    BY <1>2, <2>1 DEF Life
<1>3. ASSUME NEW d \in Dates, life = [kind |-> "expires", val |-> d] PROVE Life(life)
  <2>1. d \in Int
    BY CookieJarAssumption
  <2>2. QED
    BY <1>3, <2>1 DEF Life
<1>4. QED
  BY <1>1, <1>2, <1>3 DEF Lifetimes

\* An answer sets a cookie of some path.
LEMMA PathOfCookie ==
    \A p \in Paths, attr \in PathAttrs \cup {NoPath} : CookiePath(p, attr) \in CookiePaths
BY DEF CookiePath, CookiePaths

\* The client counts no cookie as expired before the server does.
LEMMA EndsAfter ==
    ASSUME JarTypes, NEW p \in CookiePaths, NEW e \in Int, EndsAs(e, lastSet[p])
    PROVE  ServerExpiry(p) \in Int /\ ServerExpiry(p) <= e
<1>1. Life(lastSet[p].life) /\ lastSet[p].at \in Int
  BY LifeTypes DEF JarTypes
<1>2. Never \in Int
  BY CookieJarAssumption DEF Never
<1>3. QED
  BY <1>1, <1>2 DEF EndsAs, ServerExpiry, Life

\* What is known of an end stays true as time passes.
LEMMA EndsLater ==
    ASSUME JarTypes, NEW p \in CookiePaths, NEW e \in Int, EndsAs(e, lastSet[p]),
           nowSecs' = nowSecs \/ nowSecs' = nowSecs + 1,
           NEW s, s = lastSet[p]
    PROVE  /\ s.life.kind = "session" => e = Never
           /\ s.life.kind = "max-age" =>
                 e >= s.at + s.life.val /\ (s.life.val <= 0 => e <= nowSecs')
           /\ s.life.kind = "expires" => e = s.life.val
BY DEF EndsAs, JarTypes

\* The clock is read when the answer is parsed, not before it was given.
LEMMA EndsAtParse ==
    ASSUME JarTypes, NEW p \in CookiePaths, NEW life \in Lifetimes,
           life = lastSet[p].life
    PROVE  ExpiresAt(life) \in Int /\ EndsAs(ExpiresAt(life), lastSet[p])
<1>1. /\ Life(life) /\ lastSet[p].at \in Int /\ nowSecs \in Int
      /\ lastSet[p].at <= nowSecs
  BY LifeTypes DEF JarTypes
<1>2. Never \in Int
  BY CookieJarAssumption DEF Never
<1>3. QED
  BY <1>1, <1>2 DEF EndsAs, ExpiresAt, Life

\* Nothing has been set.
LEMMA JarStart == JarInit => JarInv
<1> SUFFICES ASSUME JarInit PROVE JarInv
  OBVIOUS
<1>1. /\ 0 \in 0..MaxSecs /\ 0 \in 0..MaxAnswers /\ 0 <= 0
      /\ Session \in Lifetimes /\ DOMAIN jar = {}
  BY CookieJarAssumption DEF JarInit, Session, Lifetimes
<1>2. JarTypes
  BY <1>1 DEF JarInit, JarTypes, NoAnswer, NoCookie, Unknown
<1>3. PendingLast /\ JarLast
  BY DEF JarInit, PendingLast, JarLast
<1>4. QED
  BY <1>2, <1>3 DEF JarInv

\* A step that stores nothing, and takes no answer off its way, keeps both if the jar
\* keeps what has not expired.
LEMMA JarKept ==
    ASSUME JarInv, JarTypes', UNCHANGED <<nowSecs, lastSet>>,
           \A p \in CookiePaths : Pending(p)' = {} => Pending(p) = {},
           \A p \in DOMAIN jar' : p \in DOMAIN jar /\ jar'[p] = jar[p],
           \A p \in DOMAIN jar : jar[p].expires > nowSecs => p \in DOMAIN jar'
    PROVE  JarLast'
<1> SUFFICES ASSUME NEW p \in CookiePaths, lastSet[p] # Unknown, Pending(p)' = {}
             PROVE  /\ p \in DOMAIN jar' => /\ jar'[p].value = lastSet[p].value
                                            /\ EndsAs(jar'[p].expires, lastSet[p])
                    /\ p \notin DOMAIN jar' => ServerExpiry(p) <= nowSecs
  BY DEF JarLast, EndsAs, ServerExpiry
<1>1. /\ p \in DOMAIN jar => /\ jar[p].value = lastSet[p].value
                             /\ EndsAs(jar[p].expires, lastSet[p])
      /\ p \notin DOMAIN jar => ServerExpiry(p) <= nowSecs
  BY DEF JarInv, JarLast
<1>2. ASSUME p \notin DOMAIN jar', p \in DOMAIN jar PROVE ServerExpiry(p) <= nowSecs
  <2>1. jar[p].expires \in Int /\ jar[p].expires <= nowSecs /\ nowSecs \in Int
    BY <1>2 DEF JarInv, JarTypes
  <2>2. ServerExpiry(p) \in Int /\ ServerExpiry(p) <= jar[p].expires
    BY <1>1, <1>2, <2>1, EndsAfter DEF JarInv
  <2>3. QED
    BY <2>1, <2>2
<1>3. QED
  BY <1>1, <1>2

\* What has not expired a second later had not before.
LEMMA SecondPassesKeeps == JarInv /\ SecondPasses => JarInv'
<1> SUFFICES ASSUME JarInv, SecondPasses PROVE JarInv'
  OBVIOUS
<1> USE DEF askVars, siteVars
<1>1. /\ nowSecs' = nowSecs + 1 /\ nowSecs \in 0..MaxSecs /\ nowSecs' \in 0..MaxSecs
      /\ UNCHANGED <<jar, stage, path, answer, cookie, answers, lastSet>>
  BY CookieJarAssumption DEF SecondPasses, JarInv, JarTypes
<1>2. JarTypes'
  <2>1. \A p \in CookiePaths : lastSet[p].at <= nowSecs'
    <3>1. \A p \in CookiePaths : lastSet[p].at \in Int /\ lastSet[p].at <= nowSecs
      BY DEF JarInv, JarTypes
    <3>2. QED
      BY <1>1, <3>1
  <2>2. QED
    BY <1>1, <2>1 DEF JarInv, JarTypes
<1>3. \A p \in CookiePaths, e \in Int : EndsAs(e, lastSet[p]) => EndsAs(e, lastSet[p])'
  BY <1>1, EndsLater DEF JarInv, EndsAs
<1>4. PendingLast'
  <2>1. \A c \in Callers : cookie[c].expires \in Int
    BY DEF JarInv, JarTypes
  <2>2. QED
    BY <1>1, <1>3, <2>1 DEF JarInv, PendingLast, CookiePath
<1>5. JarLast'
  <2>1. \A p \in CookiePaths : Pending(p)' = Pending(p) /\ ServerExpiry(p)' = ServerExpiry(p)
    BY <1>1 DEF Pending, ServerExpiry
  <2>2. \A p \in CookiePaths : lastSet[p] # Unknown /\ Pending(p) = {} /\ p \notin DOMAIN jar
            => ServerExpiry(p) <= nowSecs'
    <3> SUFFICES ASSUME NEW p \in CookiePaths, lastSet[p] # Unknown, Pending(p) = {},
                        p \notin DOMAIN jar
                 PROVE  ServerExpiry(p) <= nowSecs'
      OBVIOUS
    <3>1. ServerExpiry(p) <= nowSecs
      BY DEF JarInv, JarLast
    <3>2. ServerExpiry(p) \in Int
      <4>1. Life(lastSet[p].life) /\ lastSet[p].at \in Int /\ Never \in Int
        BY LifeTypes, CookieJarAssumption DEF JarInv, JarTypes, Never
      <4>2. QED
        BY <4>1 DEF ServerExpiry, Life
    <3>3. QED
      BY <1>1, <3>1, <3>2
  <2>3. QED
    BY <1>1, <1>3, <2>1, <2>2 DEF JarInv, JarTypes, JarLast
<1>6. QED
  BY <1>2, <1>4, <1>5 DEF JarInv

\* Sending a request drops only what has expired.
LEMMA AskKeeps == ASSUME JarInv, NEW c \in Callers, Ask(c) PROVE JarInv'
<1> USE DEF siteVars
<1>1. PICK q \in Paths : path' = [path EXCEPT ![c] = q]
  BY DEF Ask
<1>2. /\ stage[c] = "idle" /\ stage' = [stage EXCEPT ![c] = "asking"]
      /\ jar' = [p \in {r \in DOMAIN jar : Live(r)} |-> jar[p]]
      /\ UNCHANGED <<nowSecs, answer, cookie, answers, lastSet>>
  BY DEF Ask
<1>3. /\ \A p \in DOMAIN jar' : p \in DOMAIN jar /\ jar'[p] = jar[p]
      /\ \A p \in DOMAIN jar : jar[p].expires > nowSecs => p \in DOMAIN jar'
  BY <1>2 DEF Live
<1>4. /\ stage' \in [Callers -> {"idle", "asking", "answered", "parsed"}]
      /\ path' \in [Callers -> Paths \cup {NoPath}]
      /\ stage'[c] = "asking" /\ path'[c] = q
      /\ \A d \in Callers : d # c => stage'[d] = stage[d] /\ path'[d] = path[d]
  BY <1>1, <1>2 DEF JarInv, JarTypes
<1>5. JarTypes'
  BY <1>2, <1>3, <1>4 DEF JarInv, JarTypes
<1>6. \A p \in CookiePaths : Pending(p)' = Pending(p)
  BY <1>2, <1>4 DEF Pending, CookiePath
<1>7. PendingLast'
  BY <1>2, <1>4 DEF JarInv, PendingLast, CookiePath, EndsAs
<1>8. QED
  BY <1>2, <1>3, <1>5, <1>6, <1>7, JarKept DEF JarInv

\* An answer without a cookie changes nothing the server set.
LEMMA AnswerPlainlyKeeps ==
    ASSUME JarInv, NEW c \in Callers, AnswerPlainly(c) PROVE JarInv'
<1> USE DEF siteVars
<1>1. /\ stage[c] = "asking" /\ stage' = [stage EXCEPT ![c] = "idle"]
      /\ path' = [path EXCEPT ![c] = NoPath]
      /\ UNCHANGED <<nowSecs, jar, answer, cookie, answers, lastSet>>
  BY DEF AnswerPlainly
<1>2. /\ stage' \in [Callers -> {"idle", "asking", "answered", "parsed"}]
      /\ path' \in [Callers -> Paths \cup {NoPath}]
      /\ stage'[c] = "idle"
      /\ \A d \in Callers : d # c => stage'[d] = stage[d] /\ path'[d] = path[d]
  BY <1>1 DEF JarInv, JarTypes
<1>3. JarTypes'
  BY <1>1, <1>2 DEF JarInv, JarTypes
<1>4. \A p \in CookiePaths : Pending(p)' = Pending(p)
  BY <1>1, <1>2 DEF Pending, CookiePath
<1>5. PendingLast'
  BY <1>1, <1>2 DEF JarInv, PendingLast, CookiePath, EndsAs
<1>6. QED
  BY <1>1, <1>3, <1>4, <1>5, JarKept DEF JarInv

\* Parsing turns the answer under way into the cookie it sets.
LEMMA ParseKeeps == ASSUME JarInv, NEW c \in Callers, Parse(c) PROVE JarInv'
<1> USE DEF siteVars
<1> DEFINE q == CookiePath(path[c], answer[c].path)
           e == ExpiresAt(answer[c].life)
<1>1. /\ stage[c] = "answered" /\ stage' = [stage EXCEPT ![c] = "parsed"]
      /\ cookie' = [cookie EXCEPT ![c] = [path |-> q, value |-> answer[c].value,
                                          expires |-> e]]
      /\ answer' = [answer EXCEPT ![c] = NoAnswer]
      /\ path' = [path EXCEPT ![c] = NoPath]
      /\ UNCHANGED <<nowSecs, jar, answers, lastSet>>
  BY DEF Parse
<1>2. /\ path[c] \in Paths /\ answer[c].path \in PathAttrs \cup {NoPath}
      /\ answer[c].life \in Lifetimes /\ answer[c].value \in Nat
  BY <1>1 DEF JarInv, JarTypes
<1>3. q \in CookiePaths
  BY <1>2, PathOfCookie
<1>4. e \in Int
  <2>1. Life(answer[c].life) /\ nowSecs \in Int /\ Never \in Int
    BY <1>2, LifeTypes, CookieJarAssumption DEF JarInv, JarTypes, Never
  <2>2. QED
    BY <2>1 DEF ExpiresAt, Life
<1>5. lastSet[q] # Unknown => /\ answer[c].value = lastSet[q].value
                              /\ EndsAs(e, lastSet[q])
  <2> SUFFICES ASSUME lastSet[q] # Unknown
               PROVE  answer[c].value = lastSet[q].value /\ EndsAs(e, lastSet[q])
    OBVIOUS
  <2>1. answer[c].value = lastSet[q].value /\ answer[c].life = lastSet[q].life
    BY <1>1, <1>3 DEF JarInv, PendingLast
  <2>2. QED
    BY <1>2, <1>3, <2>1, EndsAtParse DEF JarInv
<1>6. \A d \in Callers : stage[d] = "answered" \/ stage[d] = "asking" => path[d] \in Paths
  BY DEF JarInv, JarTypes
<1> HIDE DEF e
<1>7. /\ stage' \in [Callers -> {"idle", "asking", "answered", "parsed"}]
      /\ path' \in [Callers -> Paths \cup {NoPath}]
      /\ stage'[c] = "parsed"
      /\ \A d \in Callers : d # c => /\ stage'[d] = stage[d] /\ path'[d] = path[d]
                                     /\ answer'[d] = answer[d] /\ cookie'[d] = cookie[d]
      /\ cookie'[c].path = q /\ cookie'[c].value = answer[c].value
      /\ cookie'[c].expires = e
      /\ cookie' \in [Callers -> [path : CookiePaths \cup {NoPath}, value : Nat,
                                  expires : Int]]
      /\ answer' \in [Callers -> [value : Nat, path : PathAttrs \cup {NoPath},
                                  life : Lifetimes]]
  <2>1. NoAnswer \in [value : Nat, path : PathAttrs \cup {NoPath}, life : Lifetimes]
    BY DEF NoAnswer, Session, Lifetimes
  <2>2. [path |-> q, value |-> answer[c].value, expires |-> e]
            \in [path : CookiePaths \cup {NoPath}, value : Nat, expires : Int]
    BY <1>2, <1>3, <1>4
  <2> HIDE DEF q
  <2>3. QED
    BY <1>1, <2>1, <2>2 DEF JarInv, JarTypes
<1>8. \A p \in CookiePaths : Pending(p)' = Pending(p)
  BY <1>1, <1>7 DEF Pending, CookiePath
<1> HIDE DEF q
<1>9. JarTypes'
  BY <1>1, <1>6, <1>7 DEF JarInv, JarTypes
<1>10. PendingLast'
  BY <1>1, <1>5, <1>7 DEF JarInv, PendingLast, CookiePath, EndsAs
<1>11. QED
  BY <1>1, <1>8, <1>9, <1>10, JarKept DEF JarInv

\* After a lost answer it is not known what was set.
LEMMA LoseAnswerKeeps ==
    ASSUME JarInv, NEW c \in Callers, LoseAnswer(c) PROVE JarInv'
<1> DEFINE q == CookiePath(path[c], answer[c].path)
<1>1. /\ stage[c] = "answered" /\ stage' = [stage EXCEPT ![c] = "idle"]
      /\ path' = [path EXCEPT ![c] = NoPath]
      /\ answer' = [answer EXCEPT ![c] = NoAnswer]
      /\ lastSet' = [lastSet EXCEPT ![q] = Unknown]
      /\ UNCHANGED <<nowSecs, jar, cookie, answers>>
  BY DEF LoseAnswer
<1>2. /\ stage' \in [Callers -> {"idle", "asking", "answered", "parsed"}]
      /\ path' \in [Callers -> Paths \cup {NoPath}]
      /\ stage'[c] = "idle"
      /\ \A d \in Callers : d # c => /\ stage'[d] = stage[d] /\ path'[d] = path[d]
                                     /\ answer'[d] = answer[d]
      /\ answer' \in [Callers -> [value : Nat, path : PathAttrs \cup {NoPath},
                                  life : Lifetimes]]
  <2>1. NoAnswer \in [value : Nat, path : PathAttrs \cup {NoPath}, life : Lifetimes]
    BY DEF NoAnswer, Session, Lifetimes
  <2>2. QED
    BY <1>1, <2>1 DEF JarInv, JarTypes
<1>3. \A p \in CookiePaths : p # q => Pending(p)' = Pending(p)
  BY <1>1, <1>2 DEF Pending, CookiePath
<1> HIDE DEF q
<1>4. /\ \A p \in CookiePaths : p # q => lastSet'[p] = lastSet[p]
      /\ q \in CookiePaths => lastSet'[q] = Unknown
      /\ lastSet' \in [CookiePaths -> [value : 0..MaxAnswers, life : Lifetimes,
                                       at : 0..MaxSecs]]
      /\ \A p \in CookiePaths : lastSet'[p].value <= answers /\ lastSet'[p].at <= nowSecs
  <2>1. /\ Unknown \in [value : 0..MaxAnswers, life : Lifetimes, at : 0..MaxSecs]
        /\ Unknown.value <= answers /\ Unknown.at <= nowSecs
    BY CookieJarAssumption DEF Unknown, Session, Lifetimes, JarInv, JarTypes
  <2>2. QED
    BY <1>1, <2>1 DEF JarInv, JarTypes
<1>5. JarTypes'
  BY <1>1, <1>2, <1>4 DEF JarInv, JarTypes
<1>6. PendingLast'
  BY <1>1, <1>2, <1>4 DEF JarInv, PendingLast, CookiePath, EndsAs
<1>7. JarLast'
  <2>1. \A p \in CookiePaths : p # q => ServerExpiry(p)' = ServerExpiry(p)
    BY <1>1, <1>4 DEF ServerExpiry
  <2>2. QED
    BY <1>1, <1>3, <1>4, <2>1 DEF JarInv, JarLast, EndsAs
<1>8. QED
  BY <1>5, <1>6, <1>7 DEF JarInv

\* A cookie the server sets while none is under way is the last one.
LEMMA AnswerWithCookieKeeps ==
    ASSUME JarInv, NEW c \in Callers, AnswerWithCookie(c) PROVE JarInv'
<1>1. PICK set \in SetCookies :
        /\ answer' = [answer EXCEPT ![c] =
                         [value |-> answers', path |-> set.path, life |-> set.life]]
        /\ lastSet' = [lastSet EXCEPT ![CookiePath(path[c], set.path)] =
                          IF Pending(CookiePath(path[c], set.path)) # {} THEN Unknown
                          ELSE [value |-> answers', life |-> set.life, at |-> nowSecs]]
  BY DEF AnswerWithCookie
<1> DEFINE q == CookiePath(path[c], set.path)
           a == [value |-> answers', path |-> set.path, life |-> set.life]
           s == [value |-> answers', life |-> set.life, at |-> nowSecs]
<1>2. /\ stage[c] = "asking" /\ stage' = [stage EXCEPT ![c] = "answered"]
      /\ answers < MaxAnswers /\ answers' = answers + 1
      /\ UNCHANGED <<nowSecs, jar, path, cookie>>
  BY DEF AnswerWithCookie
<1>3. /\ set.path \in PathAttrs \cup {NoPath} /\ set.life \in Lifetimes
      /\ answers' \in Nat /\ answers' \in 0..MaxAnswers /\ nowSecs \in 0..MaxSecs
      /\ answers \in Nat /\ path[c] \in Paths
  <2>1. set.path \in PathAttrs \cup {NoPath} /\ set.life \in Lifetimes
    BY DEF SetCookies
  <2>2. answers \in 0..MaxAnswers /\ nowSecs \in 0..MaxSecs /\ path[c] \in Paths
    BY <1>2 DEF JarInv, JarTypes
  <2>3. QED
    BY <1>2, <2>1, <2>2, CookieJarAssumption
<1>4. q \in CookiePaths
  BY <1>3, PathOfCookie
<1>5. /\ a \in [value : Nat, path : PathAttrs \cup {NoPath}, life : Lifetimes]
      /\ s \in [value : 0..MaxAnswers, life : Lifetimes, at : 0..MaxSecs]
      /\ a.value = s.value /\ a.life = s.life /\ a.path = set.path
      /\ s.value <= answers' /\ s.at <= nowSecs
  BY <1>3
<1> HIDE DEF a, s
<1>6. /\ stage' \in [Callers -> {"idle", "asking", "answered", "parsed"}]
      /\ stage'[c] = "answered" /\ answer'[c] = a
      /\ \A d \in Callers : d # c => stage'[d] = stage[d] /\ answer'[d] = answer[d]
      /\ answer' \in [Callers -> [value : Nat, path : PathAttrs \cup {NoPath},
                                  life : Lifetimes]]
  BY <1>1, <1>2, <1>5 DEF JarInv, JarTypes, a
<1>7. \A p \in CookiePaths : Pending(p)' = IF p = q THEN Pending(p) \cup {c} ELSE Pending(p)
  BY <1>2, <1>5, <1>6 DEF Pending
<1>8. /\ lastSet'[q] = IF Pending(q) # {} THEN Unknown ELSE s
      /\ \A p \in CookiePaths : p # q => lastSet'[p] = lastSet[p]
      /\ lastSet' \in [CookiePaths -> [value : 0..MaxAnswers, life : Lifetimes,
                                       at : 0..MaxSecs]]
      /\ \A p \in CookiePaths : lastSet'[p].value <= answers' /\ lastSet'[p].at <= nowSecs
  <2>1. /\ Unknown \in [value : 0..MaxAnswers, life : Lifetimes, at : 0..MaxSecs]
        /\ Unknown.value <= answers' /\ Unknown.at <= nowSecs
    BY <1>3, CookieJarAssumption DEF Unknown, Session, Lifetimes
  <2>2. /\ lastSet \in [CookiePaths -> [value : 0..MaxAnswers, life : Lifetimes,
                                        at : 0..MaxSecs]]
        /\ \A p \in CookiePaths : lastSet[p].at <= nowSecs
    BY DEF JarInv, JarTypes
  <2>3. \A p \in CookiePaths : lastSet[p].value <= answers'
    <3>1. \A p \in CookiePaths : lastSet[p].value <= answers /\ lastSet[p].value \in Int
      BY DEF JarInv, JarTypes
    <3>2. QED
      BY <1>2, <1>3, <3>1
  <2>4. lastSet' = [lastSet EXCEPT ![q] = IF Pending(q) # {} THEN Unknown ELSE s]
    BY <1>1 DEF s
  <2> HIDE DEF q
  <2>5. QED
    BY <1>4, <1>5, <2>1, <2>2, <2>3, <2>4
<1>9. JarTypes'
  BY <1>2, <1>3, <1>6, <1>8 DEF JarInv, JarTypes
<1>10. PendingLast'
  <2> SUFFICES ASSUME NEW p \in CookiePaths, NEW d \in Callers, lastSet'[p] # Unknown
               PROVE  /\ stage'[d] = "answered" /\ CookiePath(path'[d], answer'[d].path) = p =>
                            answer'[d].value = lastSet'[p].value
                            /\ answer'[d].life = lastSet'[p].life
                      /\ stage'[d] = "parsed" /\ cookie'[d].path = p =>
                            /\ cookie'[d].value = lastSet'[p].value
                            /\ EndsAs(cookie[d].expires, lastSet[p])'
    BY <1>2 DEF PendingLast
  <2>1. CASE p # q
    BY <1>2, <1>5, <1>6, <1>8, <2>1 DEF JarInv, PendingLast, EndsAs
  <2>2. CASE p = q
    <3>1. Pending(q) = {} /\ lastSet'[p] = s
      BY <1>8, <2>2
    <3>2. CASE d = c
      BY <1>5, <1>6, <2>2, <3>1, <3>2
    <3>3. CASE d # c
      BY <1>2, <1>6, <2>2, <3>1, <3>3 DEF Pending
    <3>4. QED
      BY <3>2, <3>3
  <2>3. QED
    BY <2>1, <2>2
<1>11. JarLast'
  <2>1. \A p \in CookiePaths : p # q => ServerExpiry(p)' = ServerExpiry(p)
    BY <1>8 DEF ServerExpiry
  <2>2. QED
    BY <1>2, <1>7, <1>8, <2>1 DEF JarInv, JarLast, EndsAs
<1>12. QED
  BY <1>9, <1>10, <1>11 DEF JarInv

\* Storing a cookie puts what was set last into the jar, or removes it.
LEMMA StoreKeeps ==
    ASSUME JarInv, NEW c \in Callers, StoreFromHeaders(c) PROVE JarInv'
<1> USE DEF siteVars
<1> DEFINE q == cookie[c].path
           entry == [value |-> cookie[c].value, expires |-> cookie[c].expires]
           others == DOMAIN jar \ {q}
<1>1. /\ stage[c] = "parsed" /\ stage' = [stage EXCEPT ![c] = "idle"]
      /\ cookie' = [cookie EXCEPT ![c] = NoCookie]
      /\ jar' = IF cookie[c].expires <= nowSecs THEN [p \in others |-> jar[p]]
                ELSE [p \in others \cup {q} |-> IF p = q THEN entry ELSE jar[p]]
      /\ UNCHANGED <<nowSecs, path, answer, answers, lastSet>>
  BY DEF StoreFromHeaders
<1>2. /\ cookie[c].expires \in Int /\ nowSecs \in Int
      /\ entry.value = cookie[c].value /\ entry.expires = cookie[c].expires
  BY DEF JarInv, JarTypes
<1> HIDE DEF entry
<1>3. /\ \A p \in DOMAIN jar' : p # q => p \in DOMAIN jar /\ jar'[p] = jar[p]
      /\ \A p \in DOMAIN jar : p # q => p \in DOMAIN jar'
      /\ q \in DOMAIN jar' => jar'[q] = entry /\ ~(cookie[c].expires <= nowSecs)
      /\ q \notin DOMAIN jar' => cookie[c].expires <= nowSecs
  BY <1>1
<1>4. /\ stage' \in [Callers -> {"idle", "asking", "answered", "parsed"}]
      /\ stage'[c] = "idle"
      /\ \A d \in Callers : d # c => stage'[d] = stage[d] /\ cookie'[d] = cookie[d]
      /\ cookie' \in [Callers -> [path : CookiePaths \cup {NoPath}, value : Nat,
                                  expires : Int]]
  <2>1. NoCookie \in [path : CookiePaths \cup {NoPath}, value : Nat, expires : Int]
    BY DEF NoCookie
  <2>2. QED
    BY <1>1, <2>1 DEF JarInv, JarTypes
<1>5. JarTypes'
  BY <1>1, <1>2, <1>3, <1>4 DEF JarInv, JarTypes
<1>6. PendingLast'
  BY <1>1, <1>4 DEF JarInv, PendingLast, CookiePath, EndsAs
<1>7. \A p \in CookiePaths : p # q => Pending(p)' = Pending(p)
  BY <1>1, <1>4 DEF Pending, CookiePath
<1>8. q \in CookiePaths /\ lastSet[q] # Unknown =>
          cookie[c].value = lastSet[q].value /\ EndsAs(cookie[c].expires, lastSet[q])
  BY <1>1 DEF JarInv, PendingLast
<1> HIDE DEF q
<1>9. JarLast'
  <2> SUFFICES ASSUME NEW p \in CookiePaths, lastSet[p] # Unknown, Pending(p)' = {}
               PROVE  /\ p \in DOMAIN jar' => /\ jar'[p].value = lastSet[p].value
                                              /\ EndsAs(jar'[p].expires, lastSet[p])
                      /\ p \notin DOMAIN jar' => ServerExpiry(p) <= nowSecs
    BY <1>1 DEF JarLast, EndsAs, ServerExpiry
  <2>1. CASE p # q
    BY <1>3, <1>7, <2>1 DEF JarInv, JarLast
  <2>2. CASE p = q
    <3>1. cookie[c].value = lastSet[p].value /\ EndsAs(cookie[c].expires, lastSet[p])
      BY <1>8, <2>2
    <3>2. ServerExpiry(p) \in Int /\ ServerExpiry(p) <= cookie[c].expires
      BY <1>2, <3>1, EndsAfter DEF JarInv
    <3>3. QED
      BY <1>2, <1>3, <2>2, <3>1, <3>2
  <2>3. QED
    BY <2>1, <2>2
<1>10. QED
  BY <1>5, <1>6, <1>9 DEF JarInv

\* Every step keeps what is known of the jar.
LEMMA JarStep == JarInv /\ [JarNext]_jarVars => JarInv'
<1> SUFFICES ASSUME JarInv, [JarNext]_jarVars PROVE JarInv'
  OBVIOUS
<1>1. CASE UNCHANGED jarVars
  <2>1. UNCHANGED <<nowSecs, jar, stage, path, answer, cookie, answers, lastSet>>
    BY <1>1 DEF jarVars, askVars, siteVars
  <2>2. JarTypes'
    BY <2>1 DEF JarInv, JarTypes
  <2>3. PendingLast' /\ \A p \in CookiePaths : Pending(p)' = Pending(p)
    BY <2>1 DEF JarInv, PendingLast, Pending, CookiePath, EndsAs
  <2>4. QED
    BY <2>1, <2>2, <2>3, JarKept DEF JarInv
<1>2. QED
  BY <1>1, SecondPassesKeeps, AskKeeps, AnswerWithCookieKeeps, AnswerPlainlyKeeps,
     LoseAnswerKeeps, ParseKeeps, StoreKeeps
  DEF JarNext

\* For any number of threads, any paths and any lifetimes: a request to the path of a
\* cookie carries what the server set last, and nothing that it removed or that has
\* expired (CookieJar::header_for_url, store_from_headers).
THEOREM CarriesLast == JarSpec => []CarriesLastSet
<1>1. JarInv => CarriesLastSet
  <2> SUFFICES ASSUME JarInv, NEW requested \in Paths, NEW p \in CookiePaths,
                      Settled(p), PathMatches(requested, p)
               PROVE  LET sent == {v \in 0..answers : <<p, v>> \in HeaderForUrl(requested)}
                          removed == \/ /\ lastSet[p].life.kind = "max-age"
                                        /\ lastSet[p].life.val <= 0
                                     \/ /\ lastSet[p].life.kind = "expires"
                                        /\ lastSet[p].life.val <= nowSecs IN
                        /\ sent \subseteq {lastSet[p].value}
                        /\ removed => sent = {}
                        /\ nowSecs < ServerExpiry(p) => sent = {lastSet[p].value}
    BY DEF CarriesLastSet
  <2> DEFINE sent == {v \in 0..answers : <<p, v>> \in HeaderForUrl(requested)}
  <2>1. /\ p \in DOMAIN jar => /\ jar[p].value = lastSet[p].value
                               /\ EndsAs(jar[p].expires, lastSet[p])
        /\ p \notin DOMAIN jar => ServerExpiry(p) <= nowSecs
    BY DEF JarInv, JarLast, Settled
  <2>2. /\ lastSet[p].value \in 0..answers /\ nowSecs \in Int
        /\ p \in DOMAIN jar => jar[p].expires \in Int
    BY DEF JarInv, JarTypes
  <2>3. \A v : <<p, v>> \in HeaderForUrl(requested) <=>
                   p \in DOMAIN jar /\ jar[p].expires > nowSecs /\ v = jar[p].value
    BY DEF HeaderForUrl, Live
  <2>4. sent \subseteq {lastSet[p].value}
    BY <2>1, <2>3
  <2>5. ASSUME \/ lastSet[p].life.kind = "max-age" /\ lastSet[p].life.val <= 0
               \/ lastSet[p].life.kind = "expires" /\ lastSet[p].life.val <= nowSecs
        PROVE  sent = {}
    <3>1. p \in DOMAIN jar => jar[p].expires <= nowSecs
      BY <2>1, <2>2, <2>5 DEF EndsAs
    <3>2. QED
      BY <2>2, <2>3, <3>1
  <2>6. ASSUME nowSecs < ServerExpiry(p) PROVE sent = {lastSet[p].value}
    <3>1. Life(lastSet[p].life) /\ lastSet[p].at \in Int /\ Never \in Int
      BY LifeTypes, CookieJarAssumption DEF JarInv, JarTypes, Never
    <3>2. ServerExpiry(p) \in Int
      BY <3>1 DEF ServerExpiry, Life
    <3>3. p \in DOMAIN jar
      BY <2>1, <2>2, <2>6, <3>2
    <3>4. ServerExpiry(p) <= jar[p].expires
      BY <2>1, <2>2, <3>3, EndsAfter DEF JarInv
    <3>5. jar[p].expires > nowSecs
      BY <2>2, <2>6, <3>2, <3>3, <3>4
    <3>6. QED
      BY <2>1, <2>2, <2>3, <3>3, <3>5
  <2>7. QED
    BY <2>4, <2>5, <2>6
<1>2. QED
  BY <1>1, JarStart, JarStep, PTL DEF JarSpec

\* Besides: what is under way or stored was set by an answer, and is not for no time.
JarShape ==
    /\ DOMAIN jar \subseteq CookiePaths
    /\ \A p \in DOMAIN jar : jar[p].value \in 1..answers /\ jar[p].expires \in Nat \ {0}
    /\ \A c \in Callers :
          /\ answer[c].value \in 0..answers /\ cookie[c].value \in 0..answers
          /\ stage[c] = "answered" => answer[c].value >= 1
          /\ stage[c] = "parsed" => cookie[c].value >= 1 /\ cookie[c].path \in CookiePaths

\* Every step keeps that, too.
LEMMA JarShapeStep == JarInv /\ JarShape /\ [JarNext]_jarVars => JarShape'
<1> SUFFICES ASSUME JarInv, JarShape, [JarNext]_jarVars PROVE JarShape'
  OBVIOUS
<1> USE DEF askVars, siteVars
<1>1. /\ answers \in Nat /\ nowSecs \in Nat
      /\ stage \in [Callers -> {"idle", "asking", "answered", "parsed"}]
      /\ path \in [Callers -> Paths \cup {NoPath}]
      /\ \A c \in Callers : stage[c] = "asking" \/ stage[c] = "answered" => path[c] \in Paths
      /\ answer \in [Callers -> [value : Nat, path : PathAttrs \cup {NoPath}, life : Lifetimes]]
      /\ cookie \in [Callers -> [path : CookiePaths \cup {NoPath}, value : Nat, expires : Int]]
  BY CookieJarAssumption DEF JarInv, JarTypes
<1>2. CASE UNCHANGED jarVars
  BY <1>2 DEF jarVars, JarShape
<1>3. CASE SecondPasses
  BY <1>3 DEF SecondPasses, JarShape
<1>4. ASSUME NEW c \in Callers, Ask(c) PROVE JarShape'
  <2>1. /\ stage' = [stage EXCEPT ![c] = "asking"] /\ DOMAIN jar' \subseteq DOMAIN jar
        /\ \A p \in DOMAIN jar' : jar'[p] = jar[p]
        /\ UNCHANGED <<answer, cookie, answers>>
    BY <1>4 DEF Ask
  <2>2. QED
    BY <1>1, <2>1 DEF JarShape
<1>5. ASSUME NEW c \in Callers, AnswerWithCookie(c) PROVE JarShape'
  <2>1. /\ stage' = [stage EXCEPT ![c] = "answered"] /\ answers' = answers + 1
        /\ UNCHANGED <<jar, cookie>>
    BY <1>5 DEF AnswerWithCookie
  <2>2. PICK set \in SetCookies :
           answer' = [answer EXCEPT
              ![c] = [value |-> answers', path |-> set.path, life |-> set.life]]
    BY <1>5 DEF AnswerWithCookie
  <2>3. answer'[c].value = answers + 1 /\ \A d \in Callers : d # c => answer'[d] = answer[d]
    BY <1>1, <2>1, <2>2
  <2>4. stage'[c] = "answered" /\ \A d \in Callers : d # c => stage'[d] = stage[d]
    BY <1>1, <2>1
  <2>5. \A n \in Int : n \in 0..answers => n \in 0..answers'
    BY <1>1, <2>1
  <2>6. \A n \in Int : n \in 1..answers => n \in 1..answers'
    BY <1>1, <2>1
  <2>7. ASSUME NEW d \in Callers
        PROVE  /\ answer'[d].value \in 0..answers' /\ cookie'[d].value \in 0..answers'
               /\ stage'[d] = "answered" => answer'[d].value >= 1
               /\ stage'[d] = "parsed" => cookie'[d].value >= 1 /\ cookie'[d].path \in CookiePaths
    <3>1. cookie'[d].value \in 0..answers' /\ cookie' = cookie
      BY <2>1, <2>5 DEF JarShape
    <3>2. CASE d = c
      BY <1>1, <2>1, <2>3, <2>4, <3>1, <3>2
    <3>3. CASE d # c
      BY <2>3, <2>4, <2>5, <3>1, <3>3 DEF JarShape
    <3>4. QED
      BY <3>2, <3>3
  <2>8. QED
    BY <2>1, <2>6, <2>7 DEF JarShape
<1>6. ASSUME NEW c \in Callers, AnswerPlainly(c) PROVE JarShape'
  <2>1. stage' = [stage EXCEPT ![c] = "idle"] /\ UNCHANGED <<jar, answer, cookie, answers>>
    BY <1>6 DEF AnswerPlainly
  <2>2. QED
    BY <1>1, <2>1 DEF JarShape
<1>7. ASSUME NEW c \in Callers, LoseAnswer(c) PROVE JarShape'
  <2>1. /\ stage' = [stage EXCEPT ![c] = "idle"] /\ answer' = [answer EXCEPT ![c] = NoAnswer]
        /\ UNCHANGED <<jar, cookie, answers>>
    BY <1>7 DEF LoseAnswer
  <2>2. NoAnswer.value = 0 /\ 0 \in 0..answers
    BY <1>1 DEF NoAnswer
  <2>3. QED
    BY <1>1, <2>1, <2>2 DEF JarShape
<1>8. ASSUME NEW c \in Callers, Parse(c) PROVE JarShape'
  <2> DEFINE new == [path |-> CookiePath(path[c], answer[c].path), value |-> answer[c].value,
                     expires |-> ExpiresAt(answer[c].life)]
  <2>1. /\ stage[c] = "answered" /\ stage' = [stage EXCEPT ![c] = "parsed"]
        /\ answer' = [answer EXCEPT ![c] = NoAnswer] /\ cookie' = [cookie EXCEPT ![c] = new]
        /\ UNCHANGED <<jar, answers>>
    BY <1>8 DEF Parse
  <2>2. NoAnswer.value = 0 /\ 0 \in 0..answers
    BY <1>1 DEF NoAnswer
  <2>3. new.value \in 0..answers /\ new.value >= 1 /\ new.path \in CookiePaths
    <3>1. CookiePath(path[c], answer[c].path) \in CookiePaths
      BY <1>1, <2>1, PathOfCookie
    <3>2. QED
      BY <2>1, <3>1 DEF JarShape
  <2> HIDE DEF new
  <2>4. /\ stage'[c] = "parsed" /\ cookie'[c] = new /\ answer'[c] = NoAnswer
        /\ \A d \in Callers : d # c => /\ stage'[d] = stage[d] /\ cookie'[d] = cookie[d]
                                       /\ answer'[d] = answer[d]
    BY <1>1, <2>1
  <2>5. QED
    BY <1>1, <2>1, <2>2, <2>3, <2>4 DEF JarShape
<1>9. ASSUME NEW c \in Callers, StoreFromHeaders(c) PROVE JarShape'
  <2> DEFINE q == cookie[c].path
             entry == [value |-> cookie[c].value, expires |-> cookie[c].expires]
             others == DOMAIN jar \ {q}
  <2>1. /\ stage[c] = "parsed" /\ stage' = [stage EXCEPT ![c] = "idle"]
        /\ cookie' = [cookie EXCEPT ![c] = NoCookie]
        /\ jar' = IF cookie[c].expires <= nowSecs THEN [p \in others |-> jar[p]]
                  ELSE [p \in others \cup {q} |-> IF p = q THEN entry ELSE jar[p]]
        /\ UNCHANGED <<answer, answers>>
    BY <1>9 DEF StoreFromHeaders
  <2>2. /\ q \in CookiePaths /\ entry.value = cookie[c].value /\ entry.expires = cookie[c].expires
        /\ cookie[c].value \in 1..answers /\ cookie[c].expires \in Int
    BY <1>1, <2>1 DEF JarShape
  <2> HIDE DEF entry, q
  <2>3. /\ \A p \in DOMAIN jar' : p # q => p \in DOMAIN jar /\ jar'[p] = jar[p]
        /\ q \in DOMAIN jar' => jar'[q] = entry /\ ~(cookie[c].expires <= nowSecs)
    BY <2>1
  <2>4. ASSUME NEW p \in DOMAIN jar'
        PROVE  p \in CookiePaths /\ jar'[p].value \in 1..answers /\ jar'[p].expires \in Nat \ {0}
    <3>1. CASE p = q
      BY <1>1, <2>2, <2>3, <3>1
    <3>2. CASE p # q
      BY <2>3, <3>2 DEF JarShape
    <3>3. QED
      BY <3>1, <3>2
  <2>5. NoCookie.value = 0 /\ 0 \in 0..answers
    BY <1>1 DEF NoCookie
  <2>6. /\ stage'[c] = "idle" /\ cookie'[c] = NoCookie
        /\ \A d \in Callers : d # c => stage'[d] = stage[d] /\ cookie'[d] = cookie[d]
    BY <1>1, <2>1
  <2>7. QED
    BY <2>1, <2>4, <2>5, <2>6 DEF JarShape
<1>10. QED
  BY <1>2, <1>3, <1>4, <1>5, <1>6, <1>7, <1>8, <1>9 DEF JarNext

\* The types of the jar, for any number of threads, any paths and any lifetimes.
THEOREM JarTypesHold == JarSpec => []JarTypeOK
<1>1. JarInit => JarShape
  <2> SUFFICES ASSUME JarInit PROVE JarShape
    OBVIOUS
  <2>1. DOMAIN jar = {} /\ answers = 0
    BY DEF JarInit
  <2>2. \A c \in Callers : /\ answer[c].value = 0 /\ cookie[c].value = 0 /\ stage[c] = "idle"
    BY DEF JarInit, NoAnswer, NoCookie
  <2>3. QED
    BY <2>1, <2>2 DEF JarShape
<1>2. JarInv /\ JarShape => JarTypeOK
  <2> SUFFICES ASSUME JarInv, JarShape PROVE JarTypeOK
    OBVIOUS
  <2>1. \A p \in CookiePaths : lastSet[p].value \in 0..answers
    BY DEF JarInv, JarTypes
  <2>2. \A c \in Callers : answer[c].life \in Lifetimes
    BY DEF JarInv, JarTypes
  <2>3. QED
    BY <2>1, <2>2 DEF JarInv, JarTypes, JarShape, JarTypeOK
<1>3. QED
  BY <1>1, <1>2, JarStart, JarStep, JarShapeStep, PTL DEF JarSpec

(***************************************************************************)
(* The load of a conversation.                                             *)
(***************************************************************************)

\* The first positions of the history were collected.
Begun == /\ Len(entries) <= Len(history)
         /\ \A i \in 1..Len(entries) : entries[i].id = history[i].id

\* The cursor is where the collected entries end.
Placed ==
    IF Len(entries) = 0 THEN cursor = 0
    ELSE cursor = IF byOffset THEN Len(entries) ELSE history[Len(entries)].id

\* No message came before those of the first page since it was fetched.
Undisturbed == pages = 0 \/ (newestFirst => firstPage.items[1].id = history[1].id)

\* The ids are the numbers of the messages, each once.
IdsOnce ==
    /\ \A i \in 1..Len(history) : history[i].id \in 1..Len(history)
    /\ \A i, j \in 1..Len(history) : history[i].id = history[j].id => i = j
    /\ \A c \in 1..Len(history) : \E i \in 1..Len(history) : history[i].id = c

LoadShape ==
    /\ IdsOnce
    /\ newestFirst \in BOOLEAN /\ byOffset \in BOOLEAN
    /\ history \in Seq(Entry) /\ Len(history) \in 1..MaxEntries
    /\ loading \in {"idle", "pages", "verify", "returned", "failed"}
    /\ pages \in 0..MaxPages /\ changes \in 0..MaxChanges
    /\ cursor \in 0..Len(history) /\ entries \in Seq(Entry)

\* What was collected, unless it is to be thrown away.
CollectedInv ==
    /\ pages = 0 => entries = <<>> /\ cursor = 0 /\ loading \notin {"verify", "returned"}
    /\ pages > 0 => firstPage.items[1].id \in 1..Len(history)
    /\ loading \in {"idle", "pages"} /\ Undisturbed => Begun /\ Placed
    /\ (loading = "verify" /\ Undisturbed) \/ loading = "returned" =>
          /\ Len(entries) = Len(whole)
          /\ \A i \in 1..Len(entries) : entries[i].id = whole[i].id
    /\ loading \in {"verify", "returned"} => firstPage.scope = wholeScope

LoadInv == LoadShape /\ CollectedInv

\* What the server lists.
LEMMA HistoryFacts ==
    ASSUME LoadShape
    PROVE  /\ Len(history) \in Nat \ {0} /\ DOMAIN history = 1..Len(history)
           /\ \A i \in 1..Len(history) : history[i] \in Entry
           /\ Len(entries) \in Nat /\ DOMAIN entries = 1..Len(entries)
           /\ IdsOnce
BY DEF LoadShape

\* Where a page begins and ends.
LEMMA LoadPageFacts ==
    ASSUME LoadShape, NEW c \in 0..Len(history)
    PROVE  \E skip, last \in 0..Len(history) :
              /\ skip <= last /\ (skip < Len(history) => skip < last)
              /\ Page(c).items = SubSeq(history, skip + 1, last) /\ Page(c).scope = scope
              /\ Page(c).next = IF last = Len(history) THEN 0
                                ELSE IF byOffset THEN last ELSE history[last].id
              /\ c = 0 \/ byOffset => skip = c
              /\ c # 0 /\ ~byOffset => skip # 0 /\ history[skip].id = c
<1> DEFINE skip == IF c = 0 \/ byOffset THEN c
                   ELSE CHOOSE i \in DOMAIN history : history[i].id = c
           last == IF skip + PageSize < Len(history) THEN skip + PageSize ELSE Len(history)
<1>1. c # 0 => \E i \in DOMAIN history : history[i].id = c
  <2>1. c # 0 => c \in 1..Len(history)
    BY HistoryFacts
  <2>2. DOMAIN history = 1..Len(history)
    BY HistoryFacts
  <2>3. QED
    BY <2>1, <2>2, HistoryFacts DEF IdsOnce
<1>2. /\ skip \in 0..Len(history)
      /\ c = 0 \/ byOffset => skip = c
      /\ c # 0 /\ ~byOffset => skip # 0 /\ history[skip].id = c
  BY <1>1, HistoryFacts
<1> DEFINE next == IF last = Len(history) THEN 0
                   ELSE IF byOffset THEN last ELSE history[last].id
<1>3. /\ Page(c).items = SubSeq(history, skip + 1, last)
      /\ Page(c).scope = scope
      /\ Page(c).next = next
  BY DEF Page
<1> HIDE DEF skip
<1>4. /\ last \in 0..Len(history) /\ skip <= last
      /\ skip < Len(history) => skip < last
  BY <1>2, HistoryFacts, CompanionAssumption
<1> HIDE DEF last
<1> HIDE DEF next
<1>5. skip \in 0..Len(history) /\ last \in 0..Len(history)
  BY <1>2, <1>4
<1>6. next = IF last = Len(history) THEN 0 ELSE IF byOffset THEN last ELSE history[last].id
  BY DEF next
<1>7. QED
  BY <1>2, <1>3, <1>4, <1>5, <1>6

\* The first page begins with the first message of the list.
LEMMA FirstOfPage ==
    ASSUME LoadShape
    PROVE  Page(0).items[1].id = history[1].id /\ Page(0).scope = scope
<1>1. PICK last \in 1..Len(history) :
         Page(0).items = SubSeq(history, 1, last) /\ Page(0).scope = scope
  <2>1. PICK skip \in 0..Len(history), last \in 0..Len(history) :
           /\ skip < Len(history) => skip < last
           /\ Page(0).items = SubSeq(history, skip + 1, last) /\ Page(0).scope = scope
           /\ 0 = 0 \/ byOffset => skip = 0
    <3>1. 0 \in 0..Len(history)
      BY HistoryFacts
    <3>2. QED
      BY <3>1, LoadPageFacts
  <2>2. last \in 1..Len(history) /\ skip + 1 = 1
    BY <2>1, HistoryFacts
  <2>3. QED
    BY <2>1, <2>2
<1>2. \A i \in 1..last : history[i] \in Entry
  BY HistoryFacts
<1>3. \A i \in 1..last - 1 + 1 : SubSeq(history, 1, last)[i] = history[1 + i - 1]
  BY <1>2, SubSeqProperties
<1>4. 1 \in 1..last - 1 + 1 /\ 1 + 1 - 1 = 1
  OBVIOUS
<1>5. QED
  BY <1>1, <1>3, <1>4

\* An empty load of a conversation.
LEMMA LoadStart == LoadInit => LoadInv
<1> SUFFICES ASSUME LoadInit PROVE LoadInv
  OBVIOUS
<1>1. PICK n \in 1..MaxEntries : history = [i \in 1..n |-> [id |-> i, ver |-> 0]]
  BY DEF LoadInit
<1>2. history \in Seq(Entry) /\ Len(history) = n /\ \A i \in 1..n : history[i].id = i
  BY <1>1, CompanionAssumption DEF Entry
<1>3. QED
  <2>1. IdsOnce
    BY <1>2 DEF IdsOnce
  <2>2. entries \in Seq(Entry) /\ Len(entries) = 0
    BY DEF LoadInit
  <2>3. LoadShape
    BY <1>2, <2>1, <2>2, CompanionAssumption DEF LoadInit, LoadShape
  <2>4. CollectedInv
    BY <1>2, <2>2 DEF LoadInit, CollectedInv, Begun, Placed
  <2>5. QED
    BY <2>3, <2>4 DEF LoadInv

\* A message arrives at the end that newestFirst says.
LEMMA NewMessageKeeps == LoadInv /\ NewMessage => LoadInv'
<1> SUFFICES ASSUME LoadInv, NewMessage PROVE LoadInv'
  OBVIOUS
<1> DEFINE n == Len(history)
           new == [id |-> n + 1, ver |-> 0]
<1>1. n \in 1..MaxEntries /\ n + 1 \in 1..MaxEntries /\ new \in Entry /\ history \in Seq(Entry)
  <2>1. n \in 1..MaxEntries /\ history \in Seq(Entry) /\ n < MaxEntries
    BY DEF LoadInv, LoadShape, NewMessage
  <2>2. n + 1 \in 1..MaxEntries /\ 0 \in 0..MaxChanges
    BY <2>1, CompanionAssumption
  <2>3. QED
    BY <2>1, <2>2 DEF Entry
<1>2. /\ history' \in Seq(Entry) /\ Len(history') = n + 1
      /\ newestFirst => history'[1] = new /\ \A i \in 1..n : history'[i + 1] = history[i]
      /\ ~newestFirst => history'[n + 1] = new /\ \A i \in 1..n : history'[i] = history[i]
  <2>1. CASE newestFirst
    <3>1. /\ history' = <<new>> \o history
          /\ <<new>> \in Seq(Entry) /\ Len(<<new>>) = 1
          /\ <<new>>[1] = new
      BY <1>1, <2>1 DEF NewMessage
    <3>2. /\ history' \in Seq(Entry) /\ Len(history') = 1 + n
          /\ \A i \in 1..1 + n : history'[i] = IF i <= 1 THEN <<new>>[i] ELSE history[i - 1]
      BY <1>1, <3>1, ConcatProperties
    <3>3. QED
      BY <1>1, <2>1, <3>1, <3>2
  <2>2. CASE ~newestFirst
    <3>1. history' = Append(history, new)
      BY <2>2 DEF NewMessage
    <3>2. QED
      BY <1>1, <2>2, <3>1, AppendProperties
  <2>3. QED
    BY <2>1, <2>2
<1>3. /\ loading \in {"pages", "verify"}
      /\ UNCHANGED <<newestFirst, byOffset, scope, changes, loading, pages, cursor, seenCursors,
                     firstPage, entries, whole, wholeScope>>
  BY DEF NewMessage, localVars
<1>4. new.id = n + 1
  OBVIOUS
<1> HIDE DEF new
<1> HIDE DEF n
<1>5. /\ \A i \in 1..n : history[i].id \in 1..n
      /\ \A i, j \in 1..n : history[i].id = history[j].id => i = j
      /\ \A c \in 1..n : \E i \in 1..n : history[i].id = c
      /\ n \in Nat \ {0}
  BY HistoryFacts DEF LoadInv, IdsOnce, n
<1>6. LoadShape'
  <2>1. /\ \A i \in 1..n + 1 : history'[i].id \in 1..n + 1
        /\ \A i, j \in 1..n + 1 : history'[i].id = history'[j].id => i = j
    <3>1. CASE newestFirst
      <4>1. \A i \in 1..n + 1 : IF i = 1 THEN history'[i].id = n + 1
                                ELSE i - 1 \in 1..n /\ history'[i].id = history[i - 1].id
        BY <1>1, <1>2, <1>4, <3>1
      <4>2. \A i \in 1..n + 1 : history'[i].id \in 1..n + 1
        <5>1. \A k \in 1..n : k \in 1..n + 1
          BY <1>5
        <5>2. n + 1 \in 1..n + 1
          BY <1>5
        <5>3. QED
          BY <1>5, <4>1, <5>1, <5>2
      <4>3. ASSUME NEW i \in 1..n + 1, NEW j \in 1..n + 1, history'[i].id = history'[j].id
            PROVE  i = j
        <5>1. n + 1 \notin 1..n
          BY <1>5
        <5>2. CASE i = 1 \/ j = 1
          <6>1. history'[1].id = n + 1
            BY <1>5, <4>1
          <6>2. ASSUME NEW k \in 1..n + 1, k # 1 PROVE history'[k].id # n + 1
            <7>1. k - 1 \in 1..n /\ history'[k].id = history[k - 1].id
              BY <4>1, <6>2
            <7>2. history[k - 1].id \in 1..n
              BY <1>5, <7>1
            <7>3. QED
              BY <5>1, <7>1, <7>2
          <6>3. QED
            BY <4>3, <5>2, <6>1, <6>2
        <5>3. CASE i # 1 /\ j # 1
          <6>1. i - 1 \in 1..n /\ j - 1 \in 1..n /\ history[i - 1].id = history[j - 1].id
            BY <4>1, <4>3, <5>3
          <6>2. i - 1 = j - 1
            BY <1>5, <6>1
          <6>3. QED
            BY <1>5, <6>2
        <5>4. QED
          BY <5>2, <5>3
      <4>4. QED
        BY <4>2, <4>3
    <3>2. CASE ~newestFirst
      <4>1. \A i \in 1..n + 1 : IF i = n + 1 THEN history'[i].id = n + 1
                                ELSE i \in 1..n /\ history'[i].id = history[i].id
        BY <1>1, <1>2, <1>4, <3>2
      <4>2. \A i \in 1..n + 1 : history'[i].id \in 1..n + 1
        BY <1>5, <4>1
      <4>3. ASSUME NEW i \in 1..n + 1, NEW j \in 1..n + 1, history'[i].id = history'[j].id
            PROVE  i = j
        BY <1>5, <4>1, <4>3
      <4>4. QED
        BY <4>2, <4>3
    <3>3. QED
      BY <3>1, <3>2
  <2>2. ASSUME NEW c \in 1..n + 1 PROVE \E i \in 1..n + 1 : history'[i].id = c
    <3>1. CASE c = n + 1
      BY <1>1, <1>2, <1>4, <3>1
    <3>2. CASE c # n + 1
      <4>1. PICK i \in 1..n : history[i].id = c
        <5>1. c \in 1..n
          BY <1>5, <3>2
        <5>2. QED
          BY <1>5, <5>1
      <4>2. i \in 1..n + 1 /\ i + 1 \in 1..n + 1
        BY <1>1
      <4>3. QED
        BY <1>2, <4>1, <4>2
    <3>3. QED
      BY <3>1, <3>2
  <2>3. IdsOnce'
    BY <1>2, <2>1, <2>2 DEF IdsOnce
  <2>4. cursor' \in 0..n + 1 /\ n = Len(history)
    BY <1>3, <1>5 DEF LoadInv, LoadShape, n
  <2>5. QED
    BY <1>1, <1>2, <1>3, <2>3, <2>4 DEF LoadInv, LoadShape
<1>7. pages \in Nat /\ Len(entries) \in Nat /\ n = Len(history)
  BY HistoryFacts, CompanionAssumption DEF LoadInv, LoadShape, n
<1>8. pages > 0 => firstPage.items[1].id \in 1..n
  BY <1>7 DEF LoadInv, CollectedInv
<1>9. pages > 0 /\ newestFirst => ~Undisturbed'
  <2>1. newestFirst => history'[1].id = n + 1
    BY <1>2, <1>4
  <2>2. QED
    BY <1>3, <1>5, <1>7, <1>8, <2>1 DEF Undisturbed
<1>10. ~newestFirst /\ Begun /\ Placed => Begun' /\ Placed'
  <2>1. SUFFICES ASSUME ~newestFirst, Begun, Placed PROVE Begun' /\ Placed'
    OBVIOUS
  <2>2. \A i \in 1..Len(entries) : i \in 1..n /\ history'[i] = history[i]
    BY <1>2, <1>5, <1>7, <2>1 DEF Begun
  <2>3. Begun'
    BY <1>2, <1>3, <1>5, <1>7, <2>1, <2>2 DEF Begun
  <2>4. Len(entries) # 0 => Len(entries) \in 1..Len(entries)
    BY <1>7
  <2>5. Placed'
    BY <1>3, <2>1, <2>2, <2>4 DEF Placed
  <2>6. QED
    BY <2>3, <2>5
<1>11. pages = 0 => Begun' /\ Placed'
  <2>1. SUFFICES ASSUME pages = 0 PROVE Begun' /\ Placed'
    OBVIOUS
  <2>2. entries' = <<>> /\ cursor' = 0 /\ Len(entries') = 0
    BY <1>3, <2>1 DEF LoadInv, CollectedInv
  <2>3. QED
    BY <1>2, <1>5, <2>2 DEF Begun, Placed
<1>12. ~newestFirst => Undisturbed
  BY DEF Undisturbed
<1>13. loading' \in {"idle", "pages"} /\ Undisturbed' => Begun' /\ Placed'
  BY <1>3, <1>7, <1>9, <1>10, <1>11, <1>12 DEF LoadInv, CollectedInv
<1>14. pages' > 0 => firstPage'.items[1].id \in 1..Len(history')
  <2>1. \A k \in 1..n : k \in 1..n + 1
    BY <1>5
  <2>2. pages' = pages /\ firstPage' = firstPage
    BY <1>3
  <2>3. QED
    BY <1>2, <1>8, <2>1, <2>2
<1>15. loading' = "verify" /\ Undisturbed' => Undisturbed
  BY <1>3, <1>7, <1>9, <1>12 DEF Undisturbed
<1>16. CollectedInv'
  BY <1>3, <1>13, <1>14, <1>15 DEF LoadInv, CollectedInv
<1>17. QED
  BY <1>6, <1>16 DEF LoadInv

\* An entry gets another version, and no other id.
LEMMA EntryChangesKeeps == LoadInv /\ EntryChanges => LoadInv'
<1> SUFFICES ASSUME LoadInv, EntryChanges PROVE LoadInv'
  OBVIOUS
<1>1. PICK k \in DOMAIN history : history' = [history EXCEPT ![k].ver = changes + 1]
  BY DEF EntryChanges
<1>2. changes' \in 0..MaxChanges /\ changes' = changes + 1
  BY CompanionAssumption DEF LoadInv, LoadShape, EntryChanges
<1>3. /\ DOMAIN history = 1..Len(history) /\ Len(history) \in Nat \ {0}
      /\ \A i \in 1..Len(history) : history[i] \in Entry
  BY HistoryFacts DEF LoadInv
<1>4. /\ history' \in Seq(Entry) /\ Len(history') = Len(history)
      /\ \A i \in 1..Len(history) : history'[i].id = history[i].id
  <2>1. [history[k] EXCEPT !.ver = changes + 1] \in Entry
    BY <1>2, <1>3 DEF Entry
  <2>2. [history[k] EXCEPT !.ver = changes + 1].id = history[k].id
    BY <1>3 DEF Entry
  <2>3. history' = [history EXCEPT ![k] = [history[k] EXCEPT !.ver = changes + 1]]
    BY <1>1
  <2>4. history' \in Seq(Entry) /\ Len(history') = Len(history)
    BY <1>3, <2>1, <2>3 DEF LoadInv, LoadShape
  <2>5. QED
    BY <1>3, <2>2, <2>3, <2>4
<1>5. UNCHANGED <<newestFirst, byOffset, scope, loading, pages, cursor, seenCursors,
                  firstPage, entries, whole, wholeScope>>
  BY DEF EntryChanges, localVars
<1>6. LoadShape'
  <2>1. IdsOnce'
    BY <1>3, <1>4, HistoryFacts DEF LoadInv, IdsOnce
  <2>2. QED
    BY <1>2, <1>4, <1>5, <2>1 DEF LoadInv, LoadShape
<1>7. (Undisturbed' <=> Undisturbed) /\ (Begun /\ Placed => Begun' /\ Placed')
  <2>1. Len(entries) \in Nat /\ 1 \in 1..Len(history)
    BY <1>3, HistoryFacts DEF LoadInv
  <2>2. Undisturbed' <=> Undisturbed
    BY <1>4, <1>5, <2>1 DEF Undisturbed
  <2>3. ASSUME Begun, Placed PROVE Begun' /\ Placed'
    <3>1. \A i \in 1..Len(entries) : i \in 1..Len(history)
      BY <1>3, <2>1, <2>3 DEF Begun
    <3>2. Begun'
      BY <1>4, <1>5, <2>3, <3>1 DEF Begun
    <3>3. Len(entries) # 0 => Len(entries) \in 1..Len(entries)
      BY <2>1
    <3>4. Placed'
      BY <1>4, <1>5, <2>3, <3>1, <3>3 DEF Placed
    <3>5. QED
      BY <3>2, <3>4
  <2>4. QED
    BY <2>2, <2>3
<1>8. CollectedInv'
  BY <1>4, <1>5, <1>7 DEF LoadInv, CollectedInv
<1>9. QED
  BY <1>6, <1>8 DEF LoadInv

\* Those of a page that were not collected: all of them, when none was before.
LEMMA FreshOfPage ==
    ASSUME LoadShape, NEW skip \in 0..Len(history), NEW last \in 0..Len(history), skip <= last,
           NEW page, page.items = SubSeq(history, skip + 1, last)
    PROVE  /\ Fresh(page) \in Seq(Entry)
           /\ Begun /\ skip = Len(entries) =>
                 /\ Fresh(page) = page.items /\ Len(entries \o page.items) = last
                 /\ \A i \in 1..last : (entries \o page.items)[i].id = history[i].id
<1> DEFINE New == {e \in Entry : e.id \notin Ids(entries)}
           q == SubSeq(history, skip + 1, last)
<1>1. /\ Len(history) \in Nat /\ \A i \in 1..Len(history) : history[i] \in Entry
      /\ Len(entries) \in Nat /\ DOMAIN entries = 1..Len(entries) /\ entries \in Seq(Entry)
  BY HistoryFacts DEF LoadShape
<1>2. /\ skip \in Nat /\ last \in Nat /\ skip + 1 \in Int /\ last \in Int
      /\ last - (skip + 1) + 1 = last - skip
  BY <1>1
<1>3. q \in Seq(Entry)
  BY <1>1, <1>2, SubSeqProperties
<1>4. Fresh(page) = Those(q, New)
  BY DEF Fresh
<1> HIDE DEF q
<1>5. Those(q, New) \in Seq(Entry)
  BY <1>3, ThoseIn
<1>6. ASSUME Begun, skip = Len(entries)
      PROVE  /\ Those(q, New) = q /\ Len(entries \o q) = last
             /\ \A i \in 1..last : (entries \o q)[i].id = history[i].id
  <2>1. \A i \in skip + 1..last : history[i] \in New
    <3>1. SUFFICES ASSUME NEW i \in skip + 1..last, history[i].id \in Ids(entries) PROVE FALSE
      BY <1>1, <1>2
    <3>2. PICK j \in 1..Len(entries) : entries[j].id = history[i].id
      BY <1>1, <3>1 DEF Ids
    <3>3. i \in 1..Len(history) /\ j \in 1..Len(history) /\ i # j /\ history[j].id = history[i].id
      BY <1>1, <1>2, <1>6, <3>2 DEF Begun
    <3>4. QED
      BY <3>3, HistoryFacts DEF IdsOnce
  <2>2. /\ q \in Seq(New) /\ Len(q) = last - skip
        /\ \A i \in 1..last - skip : q[i] = history[skip + 1 + i - 1]
    <3>1. /\ q \in Seq(New)
          /\ Len(q) = IF skip + 1 <= last THEN last - (skip + 1) + 1 ELSE 0
          /\ \A i \in 1..last - (skip + 1) + 1 : q[i] = history[skip + 1 + i - 1]
      BY <1>2, <2>1, SubSeqProperties DEF q
    <3>2. QED
      BY <1>2, <3>1
  <2> HIDE DEF New
  <2>3. Those(q, New) = q
    BY <2>2, ThoseAll
  <2>4. /\ Len(entries \o q) = Len(entries) + Len(q)
        /\ \A i \in 1..Len(entries) + Len(q) :
              (entries \o q)[i] = IF i <= Len(entries) THEN entries[i] ELSE q[i - Len(entries)]
    BY <1>1, <1>3, ConcatProperties
  <2>5. Len(entries) + Len(q) = last
    BY <1>1, <1>2, <1>6, <2>2
  <2>6. ASSUME NEW i \in 1..last PROVE (entries \o q)[i].id = history[i].id
    <3>1. CASE i <= Len(entries)
      <4>1. i \in 1..Len(entries)
        BY <1>1, <3>1
      <4>2. QED
        BY <2>4, <2>5, <3>1, <4>1, <1>6 DEF Begun
    <3>2. CASE ~(i <= Len(entries))
      <4>1. i - skip \in 1..last - skip /\ skip + 1 + (i - skip) - 1 = i
        BY <1>1, <1>2, <1>6, <3>2
      <4>2. q[i - skip] = history[i]
        BY <2>2, <4>1
      <4>3. QED
        BY <1>6, <2>4, <2>5, <3>2, <4>2
    <3>3. QED
      BY <3>1, <3>2
  <2>7. QED
    BY <2>3, <2>4, <2>5, <2>6
<1>7. page.items = q
  BY DEF q
<1>8. QED
  BY <1>4, <1>5, <1>6, <1>7

\* A page is collected where the last one ended.
LEMMA FetchPageKeeps == LoadInv /\ FetchPage => LoadInv'
<1> SUFFICES ASSUME LoadInv, FetchPage PROVE LoadInv'
  OBVIOUS
<1> DEFINE page == Page(cursor)
<1>1. PICK skip \in 0..Len(history), last \in 0..Len(history) :
              /\ skip <= last /\ (skip < Len(history) => skip < last)
              /\ page.items = SubSeq(history, skip + 1, last) /\ page.scope = scope
              /\ page.next = IF last = Len(history) THEN 0
                             ELSE IF byOffset THEN last ELSE history[last].id
              /\ cursor = 0 \/ byOffset => skip = cursor
              /\ cursor # 0 /\ ~byOffset => skip # 0 /\ history[skip].id = cursor
  BY LoadPageFacts DEF LoadInv, LoadShape
<1>2. pages = 0 => page.items[1].id = history[1].id
  BY FirstOfPage DEF LoadInv, CollectedInv
<1>3. /\ loading = "pages" /\ pages < MaxPages
      /\ ScopeKept(page)
      /\ firstPage' = IF pages = 0 THEN page ELSE firstPage
      /\ entries' = entries \o Fresh(page)
      /\ pages' = pages + 1
      /\ \/ page.next = 0 /\ loading' = "verify" /\ whole' = history /\ wholeScope' = scope
            /\ UNCHANGED <<cursor, seenCursors>>
         \/ page.next # 0 /\ cursor' = page.next
            /\ UNCHANGED <<loading, whole, wholeScope>>
      /\ UNCHANGED <<newestFirst, byOffset, history, scope, changes>>
  BY DEF FetchPage, listVars
<1> HIDE DEF page
<1>4. /\ Len(history) \in Nat \ {0} /\ Len(entries) \in Nat
      /\ pages \in Nat /\ pages + 1 \in 0..MaxPages /\ pages + 1 > 0 /\ pages' # 0
  BY <1>3, HistoryFacts, CompanionAssumption DEF LoadInv, LoadShape
<1>5. /\ page.next = 0 <=> last = Len(history)
      /\ page.next \in 0..Len(history)
      /\ page.next # 0 => last # 0 /\ page.next = IF byOffset THEN last ELSE history[last].id
  <2>1. \A i \in 1..Len(history) : history[i].id \in 1..Len(history)
    BY HistoryFacts DEF LoadInv, IdsOnce
  <2>2. last # Len(history) => last \in 1..Len(history)
    BY <1>1, <1>4
  <2>3. last # Len(history) => page.next = (IF byOffset THEN last ELSE history[last].id)
    BY <1>1
  <2>4. last # Len(history) => page.next \in 1..Len(history)
    BY <2>1, <2>2, <2>3
  <2>5. last = Len(history) => page.next = 0
    BY <1>1
  <2>6. QED
    BY <1>4, <2>2, <2>3, <2>4, <2>5
<1>6. Fresh(page) \in Seq(Entry)
  BY <1>1, FreshOfPage DEF LoadInv
<1>7. LoadShape'
  <2>1. entries' \in Seq(Entry)
    BY <1>3, <1>6, ConcatProperties DEF LoadInv, LoadShape
  <2>2. QED
    BY <1>3, <1>4, <1>5, <2>1 DEF LoadInv, LoadShape, IdsOnce
<1>8. Undisturbed' => Undisturbed
  BY <1>3, <1>4 DEF Undisturbed
<1>9. Undisturbed => /\ Len(entries') = last
                     /\ \A i \in 1..last : entries'[i].id = history[i].id
  <2>1. SUFFICES ASSUME Undisturbed
                 PROVE  /\ Len(entries') = last
                        /\ \A i \in 1..last : entries'[i].id = history[i].id
    OBVIOUS
  <2>2. Begun /\ Placed
    BY <1>3, <2>1 DEF LoadInv, CollectedInv
  <2>3. skip = Len(entries)
    <3>1. CASE Len(entries) = 0
      BY <1>1, <2>2, <3>1 DEF Placed
    <3>2. CASE Len(entries) # 0
      <4>1. Len(entries) \in 1..Len(history)
        BY <1>4, <2>2, <3>2 DEF Begun
      <4>2. history[Len(entries)].id # 0
        BY <1>4, <4>1, HistoryFacts DEF LoadInv, IdsOnce
      <4>3. cursor # 0
        BY <2>2, <3>2, <4>2 DEF Placed
      <4>4. CASE byOffset
        BY <1>1, <2>2, <3>2, <4>4 DEF Placed
      <4>5. CASE ~byOffset
        <5>1. skip \in 1..Len(history) /\ history[skip].id = history[Len(entries)].id
          BY <1>1, <1>4, <2>2, <3>2, <4>3, <4>5 DEF Placed
        <5>2. QED
          BY <4>1, <5>1, HistoryFacts DEF LoadInv, IdsOnce
      <4>6. QED
        BY <4>4, <4>5
    <3>3. QED
      BY <3>1, <3>2
  <2>4. QED
    <3>1. /\ Fresh(page) = page.items /\ Len(entries \o page.items) = last
          /\ \A i \in 1..last : (entries \o page.items)[i].id = history[i].id
      BY <1>1, <2>2, <2>3, FreshOfPage DEF LoadInv
    <3>2. QED
      BY <1>3, <3>1
<1>10. firstPage'.items[1].id \in 1..Len(history')
  <2>1. CASE pages = 0
    <3>1. 1 \in 1..Len(history)
      BY <1>4
    <3>2. QED
      BY <1>2, <1>3, <2>1, <3>1, HistoryFacts DEF LoadInv, IdsOnce
  <2>2. CASE pages # 0
    BY <1>3, <1>4, <2>2 DEF LoadInv, CollectedInv
  <2>3. QED
    BY <2>1, <2>2
<1>11. firstPage'.scope = scope
  BY <1>1, <1>3 DEF ScopeKept
<1>12. CollectedInv'
  <2>1. CASE page.next = 0
    <3>1. loading' = "verify" /\ whole' = history /\ wholeScope' = scope /\ last = Len(history)
      BY <1>3, <1>5, <2>1
    <3>2. QED
      BY <1>4, <1>3, <1>8, <1>9, <1>10, <1>11, <3>1 DEF CollectedInv
  <2>2. CASE page.next # 0
    <3>1. loading' = "pages" /\ cursor' = page.next
      BY <1>3, <2>2
    <3>2. Undisturbed' => Begun' /\ Placed'
      <4>1. SUFFICES ASSUME Undisturbed' PROVE Begun' /\ Placed'
        OBVIOUS
      <4>2. /\ Len(entries') = last /\ last \in 1..Len(history)
            /\ \A i \in 1..last : entries'[i].id = history[i].id
        BY <1>4, <1>5, <1>8, <1>9, <2>2, <4>1
      <4>3. Begun'
        BY <1>3, <1>4, <4>2 DEF Begun
      <4>4. Placed'
        BY <1>3, <1>4, <1>5, <2>2, <3>1, <4>2 DEF Placed
      <4>5. QED
        BY <4>3, <4>4
    <3>3. QED
      BY <1>3, <1>4, <1>10, <3>1, <3>2 DEF CollectedInv
  <2>3. QED
    BY <2>1, <2>2
<1>13. QED
  BY <1>7, <1>12 DEF LoadInv

\* The first page is as it was only if no message came before its own.
LEMMA VerifyKeeps == LoadInv /\ Verify => LoadInv'
<1> SUFFICES ASSUME LoadInv, Verify PROVE LoadInv'
  OBVIOUS
<1>1. /\ loading = "verify" /\ Page(0) = firstPage /\ loading' = "returned"
      /\ UNCHANGED <<newestFirst, byOffset, history, scope, changes, pages, cursor, seenCursors,
                     firstPage, entries, whole, wholeScope>>
  BY DEF Verify, listVars, localVars
<1>2. firstPage.items[1].id = history[1].id
  BY <1>1, FirstOfPage DEF LoadInv
<1>3. Undisturbed
  BY <1>2 DEF Undisturbed
<1>4. QED
  BY <1>1, <1>3 DEF LoadInv, LoadShape, IdsOnce, CollectedInv

\* Every step of the server or of the load keeps the invariant.
LEMMA LoadStep == LoadInv /\ [LoadNext]_loadVars => LoadInv'
<1> SUFFICES ASSUME LoadInv, [LoadNext]_loadVars PROVE LoadInv'
  OBVIOUS
<1>1. CASE ScopeChanges
  <2>1. changes' \in 0..MaxChanges
    BY <1>1, CompanionAssumption DEF LoadInv, LoadShape, ScopeChanges
  <2>2. QED
    BY <1>1, <2>1 DEF ScopeChanges, localVars, LoadInv, LoadShape, IdsOnce, CollectedInv,
                     Undisturbed, Begun, Placed
<1>2. CASE Load \/ LoadFails
  <2>1. /\ loading \in {"idle", "pages", "verify"} /\ loading' \in {"pages", "failed"}
        /\ loading' = "pages" => loading = "idle"
        /\ UNCHANGED <<newestFirst, byOffset, history, scope, changes, pages, cursor, seenCursors,
                       firstPage, entries, whole, wholeScope>>
    BY <1>2 DEF Load, LoadFails, listVars, localVars
  <2>2. QED
    BY <2>1 DEF LoadInv, LoadShape, IdsOnce, CollectedInv, Undisturbed, Begun, Placed
<1>3. CASE UNCHANGED loadVars
  BY <1>3 DEF loadVars, LoadInv, LoadShape, IdsOnce, CollectedInv, Undisturbed, Begun, Placed
<1>4. QED
  BY <1>1, <1>2, <1>3, NewMessageKeeps, EntryChangesKeeps, FetchPageKeeps, VerifyKeeps DEF LoadNext

\* The load keeps to its types: it fetches at most max_pages pages (companion.rs).
THEOREM LoadTypesHold == LoadSpec => []LoadTypeOK
<1>1. LoadInv => LoadTypeOK
  <2> SUFFICES ASSUME LoadInv PROVE LoadTypeOK
    OBVIOUS
  <2>1. cursor \in 0..MaxEntries
    BY CompanionAssumption DEF LoadInv, LoadShape
  <2>2. Ids(entries) \subseteq 1..MaxEntries
    <3>1. \A i \in DOMAIN entries : entries[i] \in Entry
      BY DEF LoadInv, LoadShape
    <3>2. QED
      BY <3>1 DEF Ids, Entry
  <2>3. QED
    BY <2>1, <2>2 DEF LoadInv, LoadShape, LoadTypeOK
<1>2. QED
  BY <1>1, LoadStart, LoadStep, PTL DEF LoadSpec

\* A conversation that load_initialization returns is whole: what was there when
\* its last page was fetched, each message once and in order, under one scope.
THEOREM LoadsWhole == LoadSpec => []LoadedWhole
<1>1. LoadInv => LoadedWhole
  <2> SUFFICES ASSUME LoadInv, loading = "returned" PROVE LoadedWhole
    BY DEF LoadedWhole
  <2>1. DOMAIN entries = 1..Len(entries)
    BY HistoryFacts DEF LoadInv
  <2>2. QED
    BY <2>1 DEF LoadInv, CollectedInv, LoadedWhole
<1>2. QED
  BY <1>1, LoadStart, LoadStep, PTL DEF LoadSpec

(***************************************************************************)
(* Sends: the types, and that a message whose key the program keeps is sent *)
(* once.                                                                    *)
(***************************************************************************)

USE DEF attemptVars, serverVars

\* What the call for m sends under.
KeyOf(m) == IF kept[m] THEN 0 ELSE calls[m]

\* A request belongs to a call that was made, and carries the key of that call.
OwnKey(r) == 1 <= r.call /\ r.call <= calls[r.msg] /\ r.key = (IF kept[r.msg] THEN 0 ELSE r.call)

\* Every request anywhere, and every call under way, has the key of its call.
KeyInv ==
    /\ \A r \in network \cup working : OwnKey(r)
    /\ \A m \in Messages : phase[m] \in {"waiting", "pausing"} =>
          calls[m] >= 1 /\ sendKey[m] = KeyOf(m)

\* The server works once at a time on a key, and never on one it has used; a key
\* it has used is one the message was sent under.
ServerInv ==
    /\ \A w \in working : w.key \notin used[w.msg]
    /\ \A w, v \in working : w.msg = v.msg /\ w.key = v.key => w = v
    /\ \A m \in Messages : \A k \in used[m] :
          IF kept[m] THEN k = 0 ELSE 1 <= k /\ k <= calls[m]

\* A message is sent when its first key is used, and never with one key again.
CountInv ==
    /\ \A m \in Messages : delivered[m] >= 1 <=> used[m] # {}
    /\ SentOnce
    /\ SuccessIsDelivered

\* What remains to be tried is still within the attempts of a call.
AttemptInv == \A m \in Messages : phase[m] = "pausing" => attempt[m] < LastAttempt
-----------------------------------------------------------------------------
(* What the client makes of an answer.                                     *)

\* Only an answer without an error ends a call as done, and a call pauses only
\* before its last attempt.
LEMMA VerdictValues ==
    ASSUME NEW ans, NEW try
    PROVE  /\ Verdict(ans, try) \in {"done", "pausing", "failed"}
           /\ Verdict(ans, try) = "done" <=> RaiseForStatus(ans) = "none"
           /\ Verdict(ans, try) = "pausing" => try < LastAttempt
BY DEF Verdict

\* An answer with an error status, and no answer at all, is an error.
LEMMA ErrorsAreRaised ==
    ASSUME NEW ans \in TurnedAway \cup Refused \cup {Busy, NoAnswerAtAll}
    PROVE  RaiseForStatus(ans) # "none"
<1>1. ans.status = 0 \/ ~(ans.status < 400)
  BY DEF TurnedAway, Refused, Busy, NoAnswerAtAll, Answer
<1>2. Named(ans) # {} => (CHOOSE v \in Named(ans) : TRUE) \in Named(ans)
  OBVIOUS
<1>3. "none" \notin Named(ans)
  BY DEF Named, Variants
<1>4. QED
  BY <1>1, <1>2, <1>3 DEF RaiseForStatus

\* What request r, answered with any of answers, does to the phases: at most it
\* ends or pauses the call that waits for it.
LEMMA AnsweredPhases ==
    ASSUME SendTypeOK, NEW r \in Requests, NEW ans, Answered(r, ans)
    PROVE  /\ phase' \in [Messages -> {"idle", "waiting", "pausing", "done", "failed"}]
           /\ \A m \in Messages : phase'[m] # phase[m] =>
                /\ m = r.msg /\ phase[m] = "waiting" /\ attempt[m] = r.attempt
                /\ phase'[m] = Verdict(ans, r.attempt)
BY VerdictValues DEF Answered, SendTypeOK, Requests

\* The answers of a gateway or a limit, and Busy, never end a call as done.
LEMMA NotDone ==
    ASSUME NEW ans \in TurnedAway \cup Refused \cup {Busy, NoAnswerAtAll}, NEW try
    PROVE  Verdict(ans, try) # "done"
BY ErrorsAreRaised, VerdictValues
-----------------------------------------------------------------------------
(* Types.                                                                  *)

\* Every step keeps the types; a retry needs that a pausing call has attempts left.
LEMMA SendTypes == SendTypeOK /\ AttemptInv /\ KeyInv /\ [SendNext]_sendVars => SendTypeOK'
<1> SUFFICES ASSUME SendTypeOK, AttemptInv, KeyInv, [SendNext]_sendVars PROVE SendTypeOK'
  OBVIOUS
<1> USE MessageSendAssumption
<1>1. ASSUME NEW m \in Messages, SendCall(m) PROVE SendTypeOK'
  <2>1. calls[m] \in 0..MaxCalls /\ calls[m] + 1 \in 1..MaxCalls /\ m \in DOMAIN kept
    BY <1>1 DEF SendTypeOK, SendCall
  <2>2. (IF kept[m] THEN 0 ELSE calls[m] + 1) \in Keys
    BY <2>1 DEF Keys
  <2>3. Request(m, IF kept[m] THEN 0 ELSE calls[m] + 1, calls[m] + 1, 0) \in Requests
    BY <2>1, <2>2 DEF Request, Requests, LastAttempt
  <2>4. QED
    BY <1>1, <2>1, <2>2, <2>3 DEF SendTypeOK, SendCall, LastAttempt
<1>2. ASSUME NEW m \in Messages, Retry(m) PROVE SendTypeOK'
  <2>1. attempt[m] + 1 \in 0..LastAttempt /\ calls[m] \in 1..MaxCalls /\ sendKey[m] \in Keys
    BY <1>2 DEF Retry, SendTypeOK, AttemptInv, KeyInv, LastAttempt
  <2>2. Request(m, sendKey[m], calls[m], attempt[m] + 1) \in Requests
    BY <2>1 DEF Request, Requests
  <2>3. QED
    BY <1>2, <2>1, <2>2 DEF SendTypeOK, Retry
<1>3. ASSUME NEW m \in Messages, AnswerLost(m) \/ Crash(m) PROVE SendTypeOK'
  BY <1>3, VerdictValues DEF SendTypeOK, AnswerLost, Crash
<1>4. ASSUME NEW r \in network, RequestLost(r) \/ Deduplicate(r) \/ StartWork(r) \/ TurnAway(r)
      PROVE SendTypeOK'
  <2>1. r \in Requests
    BY DEF SendTypeOK
  <2>2. CASE RequestLost(r) \/ StartWork(r)
    BY <2>1, <2>2 DEF SendTypeOK, RequestLost, StartWork
  <2>3. CASE Deduplicate(r) \/ TurnAway(r)
    BY <2>1, <2>3, AnsweredPhases DEF SendTypeOK, Deduplicate, TurnAway
  <2>4. QED
    BY <1>4, <2>2, <2>3
<1>5. ASSUME NEW r \in working, Deliver(r) \/ GiveUp(r) PROVE SendTypeOK'
  <2>1. r \in Requests /\ r.msg \in Messages /\ r.key \in Keys
    BY DEF SendTypeOK, Requests
  <2>2. CASE Deliver(r)
    BY <2>1, <2>2, AnsweredPhases DEF SendTypeOK, Deliver
  <2>3. CASE GiveUp(r)
    BY <2>1, <2>3, AnsweredPhases DEF SendTypeOK, GiveUp
  <2>4. QED
    BY <1>5, <2>2, <2>3
<1>6. CASE UNCHANGED sendVars
  BY <1>6 DEF SendTypeOK, sendVars
<1>7. QED
  BY <1>1, <1>2, <1>3, <1>4, <1>5, <1>6 DEF SendNext
-----------------------------------------------------------------------------
(* Requests carry the key of their call.                                   *)

\* A call that pauses has an attempt left.
LEMMA AttemptsLeft == SendTypeOK /\ AttemptInv /\ [SendNext]_sendVars => AttemptInv'
<1> SUFFICES ASSUME SendTypeOK, AttemptInv, [SendNext]_sendVars PROVE AttemptInv'
  OBVIOUS
<1>1. ASSUME NEW m \in Messages, SendCall(m) \/ Retry(m) PROVE AttemptInv'
  BY <1>1 DEF AttemptInv, SendTypeOK, SendCall, Retry
<1>2. ASSUME NEW m \in Messages, AnswerLost(m) \/ Crash(m) PROVE AttemptInv'
  BY <1>2, VerdictValues DEF AttemptInv, SendTypeOK, AnswerLost, Crash
<1>3. ASSUME NEW r \in network \cup working, NEW ans, Answered(r, ans), attempt' = attempt
      PROVE AttemptInv'
  <2>1. r \in Requests
    BY DEF SendTypeOK
  <2>2. QED
    BY <1>3, <2>1, AnsweredPhases, VerdictValues DEF AttemptInv
<1>4. ASSUME NEW r \in network, RequestLost(r) \/ StartWork(r) PROVE AttemptInv'
  BY <1>4 DEF AttemptInv, RequestLost, StartWork
<1>5. ASSUME NEW r \in network, Deduplicate(r) \/ TurnAway(r) PROVE AttemptInv'
  BY <1>5, <1>3 DEF Deduplicate, TurnAway
<1>6. ASSUME NEW r \in working, Deliver(r) \/ GiveUp(r) PROVE AttemptInv'
  BY <1>6, <1>3 DEF Deliver, GiveUp
<1>7. CASE UNCHANGED sendVars
  BY <1>7 DEF AttemptInv, sendVars
<1>8. QED
  BY <1>1, <1>2, <1>4, <1>5, <1>6, <1>7 DEF SendNext

\* Calls are only added, so a request stays one of a call that was made.
LEMMA MoveKeys ==
    ASSUME SendTypeOK, KeyInv, UNCHANGED <<kept, calls, sendKey>>,
           network' \cup working' \subseteq network \cup working,
           \A m \in Messages : phase'[m] \in {"waiting", "pausing"}
                => phase[m] \in {"waiting", "pausing"}
    PROVE  KeyInv'
BY DEF KeyInv, KeyOf, OwnKey

\* Every step keeps the keys.
LEMMA KeysKept == SendTypeOK /\ KeyInv /\ [SendNext]_sendVars => KeyInv'
<1> SUFFICES ASSUME SendTypeOK, KeyInv, [SendNext]_sendVars PROVE KeyInv'
  OBVIOUS
<1>1. ASSUME NEW m \in Messages, SendCall(m) PROVE KeyInv'
  <2> DEFINE new == Request(m, IF kept[m] THEN 0 ELSE calls[m] + 1, calls[m] + 1, 0)
  <2>1. /\ calls[m] \in Nat /\ calls' = [calls EXCEPT ![m] = calls[m] + 1]
        /\ kept' = kept /\ working' = working /\ network' = network \cup {new}
    BY <1>1 DEF SendTypeOK, SendCall
  <2>2. ASSUME NEW r, r = new PROVE OwnKey(r)'
    BY <2>1, <2>2 DEF OwnKey, Request, SendTypeOK
  <2>3. \A r \in network \cup working : OwnKey(r)'
    BY <2>1 DEF KeyInv, OwnKey, SendTypeOK, Requests
  <2>4. \A n \in Messages : phase'[n] \in {"waiting", "pausing"} =>
            calls'[n] >= 1 /\ sendKey'[n] = KeyOf(n)'
    <3>1. calls'[m] >= 1 /\ sendKey'[m] = KeyOf(m)'
      BY <1>1, <2>1 DEF KeyOf, SendTypeOK, SendCall
    <3>2. \A n \in Messages : n # m =>
              /\ phase'[n] = phase[n] /\ calls'[n] = calls[n]
              /\ sendKey'[n] = sendKey[n] /\ kept'[n] = kept[n]
      BY <1>1 DEF SendTypeOK, SendCall
    <3>3. QED
      BY <3>1, <3>2 DEF KeyInv, KeyOf
  <2>5. QED
    BY <2>1, <2>2, <2>3, <2>4 DEF KeyInv
<1>2. ASSUME NEW m \in Messages, Retry(m) PROVE KeyInv'
  <2> DEFINE new == Request(m, sendKey[m], calls[m], attempt[m] + 1)
  <2>1. /\ UNCHANGED <<kept, calls, sendKey, working>> /\ network' = network \cup {new}
        /\ phase[m] = "pausing" /\ phase' = [phase EXCEPT ![m] = "waiting"]
    BY <1>2 DEF Retry
  <2>2. ASSUME NEW r, r = new PROVE OwnKey(r)'
    BY <2>1, <2>2 DEF OwnKey, Request, SendTypeOK, KeyInv, KeyOf
  <2>3. QED
    BY <2>1, <2>2 DEF KeyInv, KeyOf, OwnKey, SendTypeOK
<1>3. ASSUME NEW m \in Messages, AnswerLost(m) \/ Crash(m) PROVE KeyInv'
  BY <1>3, MoveKeys DEF SendTypeOK, AnswerLost, Crash
<1>4. ASSUME NEW r \in network \cup working, NEW ans, Answered(r, ans),
             UNCHANGED <<kept, calls, sendKey>>,
             network' \cup working' \subseteq network \cup working
      PROVE KeyInv'
  <2>1. r \in Requests
    BY DEF SendTypeOK
  <2>2. QED
    BY <1>4, <2>1, AnsweredPhases, MoveKeys
<1>5. ASSUME NEW r \in network, RequestLost(r) \/ StartWork(r) PROVE KeyInv'
  BY <1>5, MoveKeys DEF RequestLost, StartWork
<1>6. ASSUME NEW r \in network, Deduplicate(r) \/ TurnAway(r) PROVE KeyInv'
  BY <1>6, <1>4 DEF Deduplicate, TurnAway
<1>7. ASSUME NEW r \in working, Deliver(r) \/ GiveUp(r) PROVE KeyInv'
  BY <1>7, <1>4 DEF Deliver, GiveUp
<1>8. CASE UNCHANGED sendVars
  BY <1>8, MoveKeys DEF sendVars
<1>9. QED
  BY <1>1, <1>2, <1>3, <1>5, <1>6, <1>7, <1>8 DEF SendNext
-----------------------------------------------------------------------------
(* The server and what it sent.                                            *)

\* Only a new call, the start of work and its end concern the server's keys.
LEMMA MoveServer ==
    ASSUME ServerInv, UNCHANGED <<kept, calls, used>>, working' \subseteq working
    PROVE  ServerInv'
BY DEF ServerInv

\* Every step keeps the server's keys.
LEMMA ServerKept == SendTypeOK /\ KeyInv /\ ServerInv /\ [SendNext]_sendVars => ServerInv'
<1> SUFFICES ASSUME SendTypeOK, KeyInv, ServerInv, [SendNext]_sendVars PROVE ServerInv'
  OBVIOUS
<1>1. ASSUME NEW m \in Messages, SendCall(m) PROVE ServerInv'
  <2>1. /\ UNCHANGED <<kept, working, used>>
        /\ \A n \in Messages : calls[n] \in Nat /\ calls'[n] \in Nat /\ calls[n] <= calls'[n]
    BY <1>1 DEF SendTypeOK, SendCall
  <2>2. \A n \in Messages : \A k \in used[n] : k \in Int
    BY DEF SendTypeOK, Keys
  <2>3. QED
    BY <2>1, <2>2 DEF ServerInv
<1>2. ASSUME NEW m \in Messages, Retry(m) \/ AnswerLost(m) \/ Crash(m) PROVE ServerInv'
  BY <1>2, MoveServer DEF Retry, AnswerLost, Crash
<1>3. ASSUME NEW r \in network, RequestLost(r) \/ Deduplicate(r) \/ TurnAway(r) PROVE ServerInv'
  BY <1>3, MoveServer DEF RequestLost, Deduplicate, TurnAway
<1>4. ASSUME NEW r \in network, StartWork(r) PROVE ServerInv'
  BY <1>4 DEF ServerInv, StartWork, InProgress
<1>5. ASSUME NEW r \in working, Deliver(r) PROVE ServerInv'
  <2>1. /\ UNCHANGED <<kept, calls>> /\ working' = working \ {r}
        /\ used' = [used EXCEPT ![r.msg] = used[r.msg] \cup {r.key}]
        /\ r.msg \in Messages
    BY <1>5 DEF Deliver, SendTypeOK, Requests
  <2>2. \A w \in working' : w.key \notin used'[w.msg]
    BY <2>1 DEF ServerInv, SendTypeOK, Requests
  <2>3. IF kept[r.msg] THEN r.key = 0 ELSE 1 <= r.key /\ r.key <= calls[r.msg]
    BY DEF KeyInv, OwnKey
  <2>4. \A n \in Messages : \A k \in used'[n] : k \in used[n] \/ (n = r.msg /\ k = r.key)
    BY <2>1 DEF SendTypeOK
  <2>5. QED
    BY <2>1, <2>2, <2>3, <2>4 DEF ServerInv
<1>6. ASSUME NEW r \in working, GiveUp(r) PROVE ServerInv'
  BY <1>6, MoveServer DEF GiveUp
<1>7. CASE UNCHANGED sendVars
  BY <1>7, MoveServer DEF sendVars
<1>8. QED
  BY <1>1, <1>2, <1>3, <1>4, <1>5, <1>6, <1>7 DEF SendNext

\* A step that sends nothing keeps the count if no call that is done is new.
LEMMA MoveCount ==
    ASSUME SendTypeOK, CountInv, UNCHANGED <<kept, calls, used, delivered>>,
           \A m \in Messages : phase'[m] = "done" => phase[m] = "done" \/ used[m] # {}
    PROVE  CountInv'
BY DEF CountInv, SentOnce, SuccessIsDelivered

\* Every step keeps the count.
LEMMA CountKept ==
    SendTypeOK /\ KeyInv /\ ServerInv /\ CountInv /\ [SendNext]_sendVars => CountInv'
<1> SUFFICES ASSUME SendTypeOK, KeyInv, ServerInv, CountInv, [SendNext]_sendVars PROVE CountInv'
  OBVIOUS
<1>1. ASSUME NEW m \in Messages, SendCall(m) PROVE CountInv'
  <2>1. /\ UNCHANGED <<kept, used, delivered>>
        /\ \A n \in Messages : calls'[n] <= 1 => calls[n] <= 1
        /\ \A n \in Messages : phase'[n] = "done" => phase[n] = "done"
    BY <1>1 DEF SendTypeOK, SendCall
  <2>2. QED
    BY <2>1 DEF CountInv, SentOnce, SuccessIsDelivered
<1>2. ASSUME NEW m \in Messages, Retry(m) \/ Crash(m) PROVE CountInv'
  BY <1>2, MoveCount DEF SendTypeOK, Retry, Crash
<1>3. ASSUME NEW m \in Messages, AnswerLost(m) PROVE CountInv'
  BY <1>3, MoveCount, NotDone DEF SendTypeOK, AnswerLost
<1>4. ASSUME NEW r \in network \cup working, NEW ans \in TurnedAway \cup Refused \cup {Busy},
             Answered(r, ans), UNCHANGED <<kept, calls, used, delivered>>
      PROVE CountInv'
  <2>1. r \in Requests
    BY DEF SendTypeOK
  <2>2. QED
    BY <1>4, <2>1, AnsweredPhases, NotDone, MoveCount
<1>5. ASSUME NEW r \in network, RequestLost(r) \/ StartWork(r) PROVE CountInv'
  BY <1>5, MoveCount DEF RequestLost, StartWork
<1>6. ASSUME NEW r \in network, Deduplicate(r) PROVE CountInv'
  <2>1. r \in Requests
    BY DEF SendTypeOK
  <2>2. CASE r.key \in used[r.msg] /\ Answered(r, Sent)
    BY <1>6, <2>1, <2>2, AnsweredPhases, MoveCount DEF Deduplicate
  <2>3. CASE Answered(r, Busy)
    BY <1>6, <1>4, <2>3 DEF Deduplicate
  <2>4. QED
    BY <1>6, <2>2, <2>3 DEF Deduplicate
<1>7. ASSUME NEW r \in network, TurnAway(r) PROVE CountInv'
  BY <1>7, <1>4 DEF TurnAway
<1>8. ASSUME NEW r \in working, Deliver(r) PROVE CountInv'
  <2> DEFINE m == r.msg
  <2>1. /\ UNCHANGED <<kept, calls>> /\ r \in Requests /\ m \in Messages
        /\ used' = [used EXCEPT ![m] = used[m] \cup {r.key}]
        /\ delivered' = [delivered EXCEPT ![m] = delivered[m] + 1]
        /\ Answered(r, Sent) /\ calls[m] \in Nat /\ delivered[m] \in Nat
    BY <1>8 DEF Deliver, SendTypeOK, Requests
  <2>2. kept[m] \/ calls[m] <= 1 => used[m] = {}
    <3>1. r.key \notin used[m] /\ OwnKey(r)
      BY DEF ServerInv, KeyInv
    <3>2. ASSUME kept[m] \/ calls[m] <= 1, NEW k \in used[m] PROVE k = r.key
      <4>1. k \in Int /\ r.key \in Int /\ r.call \in Int
        BY <2>1 DEF SendTypeOK, Keys, Requests
      <4>2. QED
        BY <2>1, <3>1, <3>2, <4>1 DEF ServerInv, OwnKey
    <3>3. QED
      BY <3>1, <3>2
  <2>3. kept[m] \/ calls[m] <= 1 => delivered'[m] <= 1
    <3>1. used[m] = {} => delivered[m] = 0
      BY <2>1 DEF CountInv
    <3>2. delivered'[m] = delivered[m] + 1
      BY <2>1 DEF SendTypeOK
    <3>3. QED
      BY <2>2, <3>1, <3>2
  <2>4. delivered'[m] >= 1 /\ used'[m] # {}
    <3>1. delivered'[m] = delivered[m] + 1 /\ used'[m] = used[m] \cup {r.key}
      BY <2>1 DEF SendTypeOK
    <3>2. delivered'[m] >= 1
      BY <2>1, <3>1
    <3>3. used'[m] # {}
      BY <3>1
    <3>4. QED
      BY <3>2, <3>3
  <2>5. \A n \in Messages : n # m =>
            /\ used'[n] = used[n] /\ delivered'[n] = delivered[n]
            /\ phase'[n] = phase[n]
    BY <2>1, AnsweredPhases DEF SendTypeOK
  <2>6. QED
    BY <2>1, <2>3, <2>4, <2>5 DEF CountInv, SentOnce, SuccessIsDelivered
<1>9. ASSUME NEW r \in working, GiveUp(r) PROVE CountInv'
  BY <1>9, <1>4 DEF GiveUp
<1>10. CASE UNCHANGED sendVars
  BY <1>10, MoveCount DEF sendVars
<1>11. QED
  BY <1>1, <1>2, <1>3, <1>5, <1>6, <1>7, <1>8, <1>9, <1>10 DEF SendNext
-----------------------------------------------------------------------------
SendInv == SendTypeOK /\ AttemptInv /\ KeyInv /\ ServerInv /\ CountInv

\* A program that starts has called for nothing, and the server has sent nothing.
LEMMA SendStart == SendInit => SendInv
BY MessageSendAssumption
DEF SendInit, SendInv, SendTypeOK, AttemptInv, KeyInv, ServerInv, CountInv, SentOnce,
    SuccessIsDelivered, Keys, LastAttempt

\* The invariant of the sends is kept by every step.
LEMMA SendStep == SendInv /\ [SendNext]_sendVars => SendInv'
BY SendTypes, AttemptsLeft, KeysKept, ServerKept, CountKept DEF SendInv

\* The variables keep their types: in particular no call asks more than three
\* times and every request carries a key of its message.
THEOREM SendTypesHold == SendSpec => []SendTypeOK
<1>1. SendInv => SendTypeOK
  BY DEF SendInv
<1>2. QED
  BY <1>1, SendStart, SendStep, PTL DEF SendSpec

\* For any number of messages, calls, lost, delayed and repeated requests: a
\* message whose key the program keeps, or that was called for once, is sent at
\* most once, and a call that succeeded has sent it (post_message).
THEOREM SendsExactly == SendSpec => []SentExactly
<1>1. SendInv => SentExactly
  BY DEF SendInv, CountInv, SentExactly
<1>2. QED
  BY <1>1, SendStart, SendStep, PTL DEF SendSpec
=============================================================================
