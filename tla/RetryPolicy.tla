---------------------------- MODULE RetryPolicy ----------------------------
(***************************************************************************)
(* messaging/bus.py: the RetryPolicy every transport asks when a handler   *)
(* has raised.  Delays between attempts are the transports' to wait.       *)
(***************************************************************************)
EXTENDS Integers

CONSTANT MaxRetries  \* RetryPolicy.max_retries

\* Mutant: one retry too many.
RetryOnceMore(retries) == retries <= MaxRetries

ShouldRetry(retries) == retries < MaxRetries
=============================================================================
