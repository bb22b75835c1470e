--------------------------- MODULE MCMailDelivery ---------------------------
(***************************************************************************)
(* Small instances of MailDelivery: the three retries one tick apart.      *)
(***************************************************************************)
EXTENDS MailDelivery

MCRetryDelay == [n \in {0, 1, 2} |-> 1]
\* A single retry, so that two jobs can use up their retries.
MCOneRetry == [n \in {0} |-> 1]
=============================================================================
