------------------------------- MODULE SmsWire -------------------------------
(***************************************************************************)
(* What a decoded provider document becomes in src/api/sms.rs: the answers *)
(* of sms/check and purchase/sms have no tag, and their shape decides.  A  *)
(* document is which fields it carries; the values that only travel along  *)
(* (expiration, cost, the raw status) are left out.                        *)
(***************************************************************************)

(* A text field: left out or null, the empty string, or text. *)
TextField == {"absent", "empty", "text"}

(* A document of sms/check. *)
CheckDocument ==
    [status : BOOLEAN, fullSms : TextField, sms : TextField, message : BOOLEAN]

(* SmsText rejects the empty string, and status is required. *)
Readable(d) == d.status /\ d.fullSms # "empty" /\ d.sms # "empty"

HasText(d) == d.fullSms = "text" \/ d.sms = "text"

(* Fault variant: the message is looked at before the texts. *)
MessageFirstSmsCheck(d) ==
    CASE ~Readable(d) -> "malformed"
      [] Readable(d) /\ d.message -> "terminated"
      [] Readable(d) /\ ~d.message /\ HasText(d) -> "received"
      [] OTHER -> "pending"

(* SmsCheck of a document; the status is not looked at. *)
SmsCheck(d) ==
    CASE ~Readable(d) -> "malformed"
      [] Readable(d) /\ HasText(d) -> "received"
      [] Readable(d) /\ ~HasText(d) /\ d.message -> "terminated"
      [] OTHER -> "pending"

(* What wait_for_code_with hands to the extractor. *)
TextShown(d) ==
    CASE d.fullSms = "text" -> "full"
      [] d.fullSms # "text" /\ d.sms = "text" -> "short"
      [] OTHER -> "none"

(* The documents a provider has for an order in state s.  It may leave out   *)
(* the message of an order that ended and, with prose, put a hint into the   *)
(* answer for one that did not; any document may be unreadable.              *)
CheckDocuments(s, prose) ==
    {d \in CheckDocument :
        /\ s # "received" => ~HasText(d)
        /\ s = "received" /\ Readable(d) => HasText(d)
        /\ s = "pending" /\ ~prose => ~d.message}

-----------------------------------------------------------------------------
(* An object inside a document: left out, lacking a field, or whole. *)
Part == {"absent", "broken", "whole"}

(* A document of purchase/sms. *)
PurchaseDocument == [order : Part, token : Part]

(* PurchaseSmsResponse of a document: order_id selects an order, and a       *)
(* broken one is an error even when a token is there.                        *)
PurchaseSmsResponse(d) ==
    CASE d.order = "whole" -> "order"
      [] d.order = "absent" /\ d.token = "whole" -> "token"
      [] OTHER -> "malformed"
=============================================================================
