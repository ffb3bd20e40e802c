----------------------------- MODULE MCHttpClient -----------------------------
(* Small instances of the HTTP client for TLC. *)
EXTENDS HttpClient, TLC

(* One kind of each class of answers; the retryable ones differ only in the  *)
(* exception that is remembered for the message.                             *)
EachClass == {"ok", "busy", "refused", "broken"}

=============================================================================
