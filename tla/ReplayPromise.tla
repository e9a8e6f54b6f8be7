--------------------------- MODULE ReplayPromise ---------------------------
(***************************************************************************)
(* What the deferred-work queue promises for a row, whatever capabilities, *)
(* drains, database errors and restarts do: it is owed from its insertion; *)
(* each try does the work at most once and counts; it is done only after   *)
(* the work was done, given up exactly when the tries are used up, and     *)
(* neither is ever taken back.                                             *)
(***************************************************************************)
EXTENDS Naturals

CONSTANTS Items, MaxAttempts

VARIABLES
    state,    \* of each row: none, owed, done or given_up
    tries,    \* failed tries that were counted
    applied   \* how often the work was done

promiseVars == << state, tries, applied >>

PromiseInit ==
    /\ state = [i \in Items |-> "none"]
    /\ tries = [i \in Items |-> 0]
    /\ applied = [i \in Items |-> 0]

Accept(i) ==
    /\ state[i] = "none"
    /\ state' = [state EXCEPT ![i] = "owed"]
    /\ UNCHANGED << tries, applied >>

\* A try does the work: once, until it is counted as failed.
Apply(i) ==
    /\ state[i] = "owed"
    /\ applied[i] <= tries[i]
    /\ applied' = [applied EXCEPT ![i] = @ + 1]
    /\ UNCHANGED << state, tries >>

Miss(i) ==
    /\ state[i] = "owed"
    /\ tries[i] < MaxAttempts
    /\ tries' = [tries EXCEPT ![i] = @ + 1]
    /\ state' = [state EXCEPT ![i] = IF tries[i] + 1 = MaxAttempts THEN "given_up" ELSE "owed"]
    /\ UNCHANGED applied

\* A restart may settle several rows at once.
Settle(S) ==
    /\ \A i \in S : state[i] = "owed" /\ applied[i] > 0
    /\ state' = [i \in Items |-> IF i \in S THEN "done" ELSE state[i]]
    /\ UNCHANGED << tries, applied >>

PromiseNext ==
    \/ \E i \in Items : Accept(i) \/ Apply(i) \/ Miss(i)
    \/ \E S \in SUBSET Items : Settle(S)

PromiseSpec == PromiseInit /\ [][PromiseNext]_promiseVars
=============================================================================
