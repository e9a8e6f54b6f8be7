--------------------------- MODULE CircuitBreaker ---------------------------
(***************************************************************************)
(* One circuit breaker of GuardrailCircuitBreaker.ts as operators on its   *)
(* snapshot.  The clock is abstracted to cooled: whether resetAfterMs have *)
(* passed since the breaker was (last) opened.                             *)
(***************************************************************************)
EXTENDS Naturals

CONSTANT Threshold  \* failureThreshold: 3 for providers and for tools

ASSUME ThresholdAssumption == Threshold \in Nat \ {0}

Breakers == [state : {"closed", "open", "half_open"}, failures : 0..Threshold, cooled : BOOLEAN]

Closed == [state |-> "closed", failures |-> 0, cooled |-> FALSE]

\* Failures counted beyond the threshold make no difference.
Opened == [state |-> "open", failures |-> Threshold, cooled |-> FALSE]

\* beforeExecution: whether a call may start ...
Admits(b) == b.state # "open" \/ b.cooled

\* ... and what is left of the breaker.  Nothing counts the calls that a
\* half-open breaker lets through.
AfterCheck(b) ==
    IF b.state = "open" /\ b.cooled
    THEN [state |-> "half_open", failures |-> 0, cooled |-> FALSE]
    ELSE b

\* Mutant: a probe that fails is counted like any other failure.
AfterFailure_Mutant(b) ==
    IF b.failures + 1 >= Threshold
    THEN Opened
    ELSE [b EXCEPT !.state = "closed", !.failures = @ + 1]

\* onFailure: a failed probe opens at once; in the open state a late failure
\* starts the window again.
AfterFailure(b) ==
    IF b.state = "half_open" THEN Opened
    ELSE IF b.failures + 1 >= Threshold THEN Opened
    ELSE [b EXCEPT !.state = "closed", !.failures = @ + 1]

\* onSuccess: from any state, the answer of a call that began before the
\* breaker opened included.
AfterSuccess(b) == Closed
=============================================================================
