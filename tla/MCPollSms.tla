----------------------------- MODULE MCPollSms -----------------------------
(* Model-checking instances of PollSms. *)
EXTENDS PollSms
=============================================================================
