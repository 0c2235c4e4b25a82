----------------------------- MODULE HttpErrors -----------------------------
(***************************************************************************)
(* What the client makes of an answer: raise_for_status and the retry      *)
(* delays of sdk/rust/src/http.rs and error.rs.                            *)
(*                                                                         *)
(* An answer has a status (0 when there is none: the connection broke, the *)
(* body ended early or is no JSON), the error its detail names (none if it *)
(* has none, is plain text, or the body of the error ended early), and     *)
(* the seconds of a Retry-After header and of the detail's                 *)
(* retry_after_seconds, NoDelay if absent.                                 *)
(***************************************************************************)
EXTENDS Integers

NoDelay == -1

Answer(status, error, header, detail) ==
    [status |-> status, error |-> error, header |-> header, detail |-> detail]

NoAnswerAtAll == Answer(0, "none", NoDelay, NoDelay)

\* The errors that have a variant of their own, under their status.  A duplicate
\* rule is told by the field existing_rule_id of the detail, the others by error.
Variants == [
    DuplicateContactRule                   |-> <<409, "existing_rule_id">>,
    RedundantContactAccessGrant            |-> <<409, "redundant_grant">>,
    IdempotencyKeyReused                   |-> <<409, "idempotency_key_reused">>,
    StorageLimitExceeded                   |-> <<402, "storage_limit_exceeded">>,
    DedicatedIMessageNumberQuotaExceeded   |-> <<402, "dedicated_imessage_number_quota_exceeded">>,
    DedicatedIMessageNumberInventoryPending |->
        <<503, "dedicated_imessage_number_inventory_pending">>,
    RecipientBlocked                       |-> <<403, "recipient_blocked">>,
    MailImportQuotaExceeded                |-> <<429, "mail_import_quota_exceeded">>]

Named(answer) == {v \in DOMAIN Variants : Variants[v] = <<answer.status, answer.error>>}

\* "none" when the answer is no error.
RaiseForStatus(answer) ==
    IF answer.status = 0 THEN "Transport"
    ELSE IF answer.status < 400 THEN "none"
    ELSE IF Named(answer) = {} THEN "Api"
    ELSE CHOOSE v \in Named(answer) : TRUE

\* The header is written over the field of an Api detail.
RetryAfterSeconds(answer) ==
    LET variant == RaiseForStatus(answer)
        either  == IF answer.header # NoDelay THEN answer.header ELSE answer.detail IN
    CASE variant = "Api" -> either
      [] variant = "DedicatedIMessageNumberInventoryPending" -> IF either = NoDelay THEN 0 ELSE either
      [] variant = "MailImportQuotaExceeded" -> answer.header
      [] OTHER -> NoDelay

\* Whether post_message may ask again.
Retryable(answer) ==
    LET variant == RaiseForStatus(answer) IN
       \/ variant = "Transport"
       \/ /\ variant = "Api"
          /\ \/ answer.status \in {429} \cup 502..504
             \/ answer.error = "idempotency_in_progress"
=============================================================================
