------------------------------- MODULE MCSms -------------------------------
(* One message in the inbox, two drafts, two more to come.                 *)
EXTENDS Sms
=============================================================================
