----------------------------- MODULE CancelRule -----------------------------
(***************************************************************************)
(* How a refused cancellation is recognised as a time lock:                *)
(* decode_api_error (src/transport.rs) turns the body of an error into an  *)
(* ApiError, and CancelTimeLockRule (src/poll.rs) compares it with the     *)
(* signature the caller configured.  A body is a function from the keys    *)
(* the decoder looks at to the text found there; NoText stands for a       *)
(* missing key and for a value that is not a string.                       *)
(***************************************************************************)
EXTENDS Naturals, Sequences

CONSTANTS Text,    \* strings, NoText and Blank among them
          NoText,  \* no string
          Blank,   \* a string of white space
          NoRule   \* options.time_lock_rule is None

ASSUME TextAssumption ==
    /\ {NoText, Blank} \subseteq Text
    /\ NoText # Blank

Keys == {"type", "error_type", "code", "message", "error", "description"}

Body == [Keys -> Text]

(* The first of the keys that holds a string. *)
FirstText(body, keys) ==
    LET texts == SelectSeq(keys, LAMBDA key : body[key] # NoText)
    IN  IF texts = <<>> THEN NoText ELSE body[Head(texts)]

ApiError == [status : Nat, machine_type : Text, message : Text]

DecodeApiError(status, body) ==
    [status       |-> status,
     machine_type |-> FirstText(body, <<"type", "error_type", "code">>),
     message      |-> FirstText(body, <<"message", "error", "description">>)]

-----------------------------------------------------------------------------
TimeLockRule ==
    [status : Nat, field : {"machine_type", "message"}, value : Text, retry_after : Nat]

IsSuccess(status) == status \in 200..299

(* CancelTimeLockRule::new. *)
RuleAccepted(rule) ==
    /\ ~IsSuccess(rule.status)
    /\ rule.value \notin {NoText, Blank}
    /\ rule.retry_after > 0

(* The status and one text, compared exactly: a rule on a machine type the   *)
(* provider does not send never matches.                                     *)
Matches(rule, error) ==
    /\ error.status = rule.status
    /\ error[rule.field] = rule.value

-----------------------------------------------------------------------------
(* CancelOptions, less the balance it may observe. *)
CancelOptions ==
    [max_cancel_attempts : Nat, max_outcome_unknown_reconciliation_checks : Nat,
     time_lock_rule : TimeLockRule \cup {NoRule}]

(* What cancel_with_reconciliation demands before anything is sent. *)
OptionsAccepted(options) ==
    /\ options.max_cancel_attempts > 0
    /\ options.max_outcome_unknown_reconciliation_checks > 0
=============================================================================
