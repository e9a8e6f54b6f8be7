------------------------------ MODULE ChatTurn ------------------------------
(***************************************************************************)
(* The loop of a chat turn (ChatExecutionSpine.runExecutionLoop) on top of *)
(* InferenceStream: a main request per iteration, a second request when    *)
(* the model skipped the tools it was given, then the tool calls, until an *)
(* iteration finds nothing more to do.  All turns share one AgentService,  *)
(* which knows the abort controller of the last turn that began.           *)
(***************************************************************************)
EXTENDS InferenceStream

CONSTANTS
    NoTurn,
    MaxIterations  \* MAX_AGENT_ITERATIONS: 10 in the code

ASSUME ChatAssumption == NoTurn \notin Turns /\ MaxIterations \in Nat

Phases == {"idle", "main", "retry", "tools", "ended"}

VARIABLES
    phase, iter,         \* of each turn
    controller,          \* AgentService.abortController: whose it is
    callsAfterCancel,    \* history: brain calls a turn began after its cancel,
    toolsAfterCancel     \* and batches of tool calls

chatVars == << phase, iter, controller, callsAfterCancel, toolsAfterCancel >>

vars == << streamVars, chatVars >>

Init ==
    /\ StreamInit
    /\ phase = [t \in Turns |-> "idle"]
    /\ iter = [t \in Turns |-> 0]
    /\ controller = NoTurn
    /\ callsAfterCancel = [t \in Turns |-> 0]
    /\ toolsAfterCancel = [t \in Turns |-> 0]

Begins(t) == stream'[t].step = "brain" /\ stream[t].step # "brain"

\* Every action that may begin a brain call keeps this count.
CountCall(t) ==
    callsAfterCancel' =
        [callsAfterCancel EXCEPT ![t] = IF cancelled[t] /\ Begins(t) THEN @ + 1 ELSE @]

\* streamWithBrain on the provider selected at that moment, if any is ready.
Request(t) ==
    /\ \E p \in Providers \cup {NoProvider} : StartStream(t, p)
    /\ CountCall(t)

\* The reply of the turn's stream has been read.
Consume(t) ==
    /\ stream' = [stream EXCEPT ![t] = IdleStream]
    /\ UNCHANGED << cancelled, orphans, breaker, streak, callsAfterCancel >>

-----------------------------------------------------------------------------
\* Mutant: the head of the loop does not look at the signal.
LoopEnds_Mutant(t) == iter[t] = MaxIterations

\* Mutant: one iteration too many.
LoopEnds_MutantBound(t) == iter[t] > MaxIterations \/ cancelled[t]

LoopEnds(t) == iter[t] = MaxIterations \/ cancelled[t]

\* Mutant: an iteration that comes from tool calls is not counted.
NextIteration_Mutant(t) == IF iter[t] = 0 THEN 1 ELSE iter[t]

NextIteration(t) == iter[t] + 1

\* From the head of the while loop to the request, in one synchronous block.
LoopHead(t) ==
    \/ /\ LoopEnds(t)
       /\ phase' = [phase EXCEPT ![t] = "ended"]
       /\ Consume(t)
       /\ UNCHANGED iter
    \/ /\ ~LoopEnds(t)
       /\ phase' = [phase EXCEPT ![t] = "main"]
       /\ iter' = [iter EXCEPT ![t] = NextIteration(t)]
       /\ Request(t)

\* runExecutionLoop: a new controller takes the place of the last one.
StartTurn(t) ==
    /\ phase[t] = "idle"
    /\ controller' = t
    /\ LoopHead(t)
    /\ UNCHANGED toolsAfterCancel

\* cancelChat
CancelChat ==
    /\ controller # NoTurn
    /\ cancelled' = [cancelled EXCEPT ![controller] = TRUE]
    /\ controller' = NoTurn
    /\ UNCHANGED << stream, orphans, breaker, streak,
                    phase, iter, callsAfterCancel, toolsAfterCancel >>

CallsTools(t) == stream[t].reply = "tools"

\* No tool calls although tools were sent: ask again with the tools required.
\* The signal is not looked at.  The new stream passes its tokens to the same
\* onToken, after those of the first.
RetryForTools(t) ==
    /\ phase[t] = "main"
    /\ stream[t].step = "done"
    /\ stream[t].reply = "content"
    /\ phase' = [phase EXCEPT ![t] = "retry"]
    /\ Request(t)
    /\ UNCHANGED << iter, controller, toolsAfterCancel >>

\* executeToolCallsIteration begins.
RunTools(t) ==
    /\ phase[t] \in {"main", "retry"}
    /\ stream[t].step = "done"
    /\ CallsTools(t)
    /\ phase' = [phase EXCEPT ![t] = "tools"]
    /\ toolsAfterCancel' = [toolsAfterCancel EXCEPT ![t] = IF cancelled[t] THEN @ + 1 ELSE @]
    /\ Consume(t)
    /\ UNCHANGED << iter, controller >>

\* Every call has returned, failed, or been given up after its time-out.  A
\* browser command is awaited after that race, each wait with a timer of 15 s of
\* its own (waitForBrowserData), so that it ends too.
ToolsReturn(t) ==
    /\ phase[t] = "tools"
    /\ LoopHead(t)
    /\ UNCHANGED << controller, toolsAfterCancel >>

\* Nothing to call: a browser task goes on.
ContinueBrowserTask(t) ==
    /\ phase[t] \in {"main", "retry"}
    /\ stream[t].step = "done"
    /\ stream[t].reply = "content"
    /\ LoopHead(t)
    /\ UNCHANGED << controller, toolsAfterCancel >>

\* The request threw, or there is nothing to call.  A turn that was sent no
\* tools (a greeting, role play), or whose reply was seen three times, ends
\* without the second request.
Conclude(t) ==
    /\ phase[t] \in {"main", "retry"}
    /\ stream[t].step = "done"
    /\ ~CallsTools(t)
    /\ phase' = [phase EXCEPT ![t] = "ended"]
    /\ Consume(t)
    /\ UNCHANGED << iter, controller, toolsAfterCancel >>

LoopStep(t) ==
    \/ RetryForTools(t)
    \/ RunTools(t)
    \/ ToolsReturn(t)
    \/ ContinueBrowserTask(t)
    \/ Conclude(t)

AwaitStep(t) ==
    /\ StreamStep(t)
    /\ CountCall(t)
    /\ UNCHANGED << phase, iter, controller, toolsAfterCancel >>

Next ==
    \/ CancelChat
    \/ \E t \in Turns : StartTurn(t) \/ LoopStep(t) \/ AwaitStep(t)
    \/ \E p \in Providers : WindowElapses(p) /\ UNCHANGED chatVars

Spec == Init /\ [][Next]_vars

\* What happens to a turn without any user, provider or model doing something:
\* the event loop runs what is ready, and every timer fires (open timer,
\* back-off, the brain's watchdogs, the time-out of a tool).
Timers(t) ==
    /\ GuardrailStep(t) \/ BrainGivesUp(t)
    /\ CountCall(t)
    /\ UNCHANGED << phase, iter, controller, toolsAfterCancel >>

FairSpec ==
    /\ Spec
    /\ \A t \in Turns : WF_vars(LoopStep(t)) /\ WF_vars(Timers(t))

-----------------------------------------------------------------------------
(***************************************************************************)
(* Properties.                                                             *)
(***************************************************************************)

\* Types of the stream and chat variables.
TypeOK ==
    /\ stream \in [Turns -> Streams]
    /\ cancelled \in [Turns -> BOOLEAN]
    /\ orphans \in [Turns -> Nat]
    /\ breaker \in [Providers -> Breakers]
    /\ streak \in [Providers -> Nat]
    /\ phase \in [Turns -> Phases]
    /\ iter \in [Turns -> 0..MaxIterations]
    /\ controller \in Turns \cup {NoTurn}
    /\ callsAfterCancel \in [Turns -> Nat]
    /\ toolsAfterCancel \in [Turns -> Nat]

\* A provider is shut out exactly by its own faults: its breaker has left the
\* closed state if and only if at least Threshold calls in a row failed before
\* their first token, whatever the turns that share it were doing, and neither
\* a cancel nor a policy denial counts (shouldCountFailureForCircuit).
BreakerCountsFaults ==
    \A p \in Providers :
        breaker[p].state = "closed" <=> streak[p] < Threshold

\* Two attempts of one stream are never spliced: at most one of them passed
\* tokens on (no retry once the stream has opened).  It says nothing of the next
\* stream of the turn, the second request of RetryForTools among them, whose
\* tokens the user sees after the first's.
OneAnswerShown == \A t \in Turns : Cardinality(stream[t].shown) <= 1

\* A call that the open timer gave up has been stopped, unless its turn was
\* cancelled: only a call that began after the cancel is deaf to the abort.
OrphansAreCancelled == \A t \in Turns : orphans[t] > 0 => cancelled[t]

\* A cancel ends the turn soon: at most two more brain calls (the second
\* attempt after a back-off, and the request that requires tools) and one batch
\* of tools begin after it.
CancelIsBounded ==
    \A t \in Turns : callsAfterCancel[t] <= 2 /\ toolsAfterCancel[t] <= 1

\* Every turn that began ends, whatever the brain does or does not answer: again
\* and again no turn is under way.
TurnsEnd == []<>(\A t \in Turns : phase[t] \in {"idle", "ended"})
=============================================================================
