---------------------------- MODULE CircuitBreaker ----------------------------
(***************************************************************************)
(* The circuit breaker of the S3 stage (connection.rs): closed, or open    *)
(* with a backoff that doubles up to a cap.  Of the clock only the passing *)
(* of next_retry is kept (due).                                            *)
(***************************************************************************)
EXTENDS Naturals

CONSTANT MaxBackoff     \* MAX_BACKOFF in units of INITIAL_BACKOFF

ASSUME MaxBackoffAssumption == MaxBackoff \in Nat \ {0}

Breakers == [open : BOOLEAN, backoff : 0..MaxBackoff, due : BOOLEAN]

ClosedBreaker == [open |-> FALSE, backoff |-> 0, due |-> FALSE]

ShouldAttempt(b) == b.open => b.due

AtMost(n, m) == IF n <= m THEN n ELSE m

OnSuccess(b) == ClosedBreaker

OnFailure(b) ==
    [open |-> TRUE, due |-> FALSE,
     backoff |-> IF b.open THEN AtMost(b.backoff * 2, MaxBackoff) ELSE 1]

(* next_retry passes; the circuit stays open until an attempt succeeds.    *)
DelayElapses(b) == [b EXCEPT !.due = TRUE]
=============================================================================
