--------------------------- MODULE InferenceStream ---------------------------
(***************************************************************************)
(* One streamed model call of a chat turn: AgentService.streamWithBrain,   *)
(* InferenceService.executeStream inside executeWithRuntimeGuardrails, and *)
(* OllamaBrain.streamResponse.  Turns run concurrently and share the       *)
(* provider's circuit breaker.                                             *)
(*                                                                         *)
(* The chat passes no fallback providers (fallbackAllowed: false), so that *)
(* a stream has one candidate and at most two attempts.  A stream without  *)
(* a ready provider goes to the brain directly, with neither guardrail nor *)
(* open timer.                                                             *)
(*                                                                         *)
(* The brain hears a cancel only through an event listener, which an       *)
(* already aborted signal never calls: a call that starts after the cancel *)
(* is deaf, to the cancel and to the abort of its own attempt.             *)
(***************************************************************************)
EXTENDS CircuitBreaker, FiniteSets

CONSTANTS Turns, Providers, NoProvider

ASSUME NoProviderAssumption == NoProvider \notin Providers

MaxAttempts == 2

VARIABLES
    stream,    \* of each turn: its running or last executeStream
    cancelled, \* of each turn: the signal of its abort controller
    orphans,   \* of each turn: abandoned brain calls that still run
    breaker,   \* of each provider
    streak     \* history, of each provider: faults since the last success

streamVars == << stream, cancelled, orphans, breaker, streak >>

\* What the chat loop tells apart: a failed stream returns no content either.
Replies == {"none", "content", "tools", "error"}

\* step: what the stream awaits; call: the brain call of the attempt, silent
\* until its first token; regen is the brain's second, unstreamed request after
\* a banned phrase, which nothing can abort.
Streams ==
    [step : {"idle", "brain", "policy", "backoff", "done"},
     provider : Providers \cup {NoProvider}, attempt : 0..MaxAttempts,
     call : {"none", "silent", "open", "regen"}, deaf : BOOLEAN,
     shown : SUBSET (1..MaxAttempts),  \* attempts that passed tokens to the user
     reply : Replies]

IdleStream ==
    [step |-> "idle", provider |-> NoProvider, attempt |-> 0, call |-> "none",
     deaf |-> FALSE, shown |-> {}, reply |-> "none"]

StreamInit ==
    /\ stream = [t \in Turns |-> IdleStream]
    /\ cancelled = [t \in Turns |-> FALSE]
    /\ orphans = [t \in Turns |-> 0]
    /\ breaker = [p \in Providers |-> Closed]
    /\ streak = [p \in Providers |-> 0]

Guarded(t) == stream[t].provider # NoProvider

\* streamOpenedForCurrentProvider and tokensEmitted > 0, set together.
StreamOpened(t) == stream[t].attempt \in stream[t].shown

-----------------------------------------------------------------------------
(***************************************************************************)
(* Attempts.                                                               *)
(***************************************************************************)

\* Mutant: the signal handed to the brain is not the combined one.
Launch_Mutant(t, s, n) ==
    [s EXCEPT !.step = "brain", !.attempt = n, !.call = "silent", !.deaf = TRUE]

\* The execute callback up to the brain's request, in one synchronous block.
Launch(t, s, n) ==
    [s EXCEPT !.step = "brain", !.attempt = n, !.call = "silent",
              !.deaf = cancelled[t]]

\* The stream's own variables are gone, its reply is left.
Finish(reply) == [IdleStream EXCEPT !.step = "done", !.reply = reply]

\* streamWithBrain: the new stream of turn t on provider p.
StartStream(t, p) ==
    LET new == [IdleStream EXCEPT !.provider = p]
        refused == p # NoProvider /\ ~Admits(breaker[p])
    IN  /\ stream' = [stream EXCEPT ![t] =
              IF refused THEN Finish("content") ELSE Launch(t, new, 1)]
        /\ breaker' = [q \in Providers |->
              IF q = p THEN AfterCheck(breaker[q]) ELSE breaker[q]]
        /\ UNCHANGED << cancelled, orphans, streak >>

\* The guardrail's classifyFailure for this stream.
FailureKind(t) ==
    IF cancelled[t] THEN "aborted"
    ELSE IF StreamOpened(t) THEN "mid_stream" ELSE "pre_stream_open"

\* Mutant: a stream that broke off is tried again.
ShouldRetry_Mutant(t) == FailureKind(t) # "aborted" /\ stream[t].attempt < MaxAttempts

ShouldRetry(t) == FailureKind(t) = "pre_stream_open" /\ stream[t].attempt < MaxAttempts

\* The catch clause of the guardrail: count, then retry or give up.  What the
\* stream returns after it has given up has neither content nor tool calls.
AttemptFails(t, s) ==
    LET p == stream[t].provider
        fault == FailureKind(t) = "pre_stream_open"
    IN  /\ breaker' = [breaker EXCEPT ![p] = IF fault THEN AfterFailure(@) ELSE @]
        /\ streak' = [streak EXCEPT ![p] = IF fault /\ @ < Threshold THEN @ + 1 ELSE @]
        /\ stream' = [stream EXCEPT ![t] =
              IF ShouldRetry(t) THEN [s EXCEPT !.step = "backoff", !.call = "none", !.deaf = FALSE]
                                ELSE Finish("content")]

\* After the delay: the breaker is asked again.  The signal is not.
BackoffEnds(t) ==
    /\ stream[t].step = "backoff"
    /\ LET p == stream[t].provider IN
          /\ stream' = [stream EXCEPT ![t] =
                IF Admits(breaker[p]) THEN Launch(t, @, @.attempt + 1)
                                      ELSE Finish("content")]
          /\ breaker' = [breaker EXCEPT ![p] = AfterCheck(@)]
    /\ UNCHANGED << cancelled, orphans, streak >>

\* No token within openTimeoutMs.  The attempt's own abort ends a call that
\* listens; a deaf one goes on, without anyone waiting for it.
OpenTimeout(t) ==
    /\ Guarded(t)
    /\ stream[t].step = "brain"
    /\ stream[t].call = "silent"
    /\ AttemptFails(t, stream[t])
    /\ orphans' = [orphans EXCEPT ![t] = IF stream[t].deaf THEN @ + 1 ELSE @]
    /\ UNCHANGED cancelled

\* enforceSideEffectWithGuardrails on the output, awaited after the stream: a
\* denial is neither counted nor retried.
PolicyPasses(t) ==
    /\ stream[t].step = "policy"
    /\ LET p == stream[t].provider IN
          /\ breaker' = [breaker EXCEPT ![p] = AfterSuccess(@)]
          /\ streak' = [streak EXCEPT ![p] = 0]
    /\ stream' = [stream EXCEPT ![t] = Finish(@.reply)]
    /\ UNCHANGED << cancelled, orphans >>

PolicyDenies(t) ==
    /\ stream[t].step = "policy"
    /\ stream' = [stream EXCEPT ![t] = Finish("content")]
    /\ UNCHANGED << cancelled, orphans, breaker, streak >>

-----------------------------------------------------------------------------
(***************************************************************************)
(* The brain (OllamaBrain.streamResponse).                                 *)
(***************************************************************************)

\* A listening call whose turn was cancelled is being torn down.
Torn(t) == cancelled[t] /\ ~stream[t].deaf /\ stream[t].call \in {"silent", "open"}

\* The brain's promise resolves: guarded streams check the output next.
Resolve(t, reply) ==
    /\ stream[t].step = "brain"
    /\ stream' = [stream EXCEPT ![t] =
          IF Guarded(t) THEN [IdleStream EXCEPT !.step = "policy",
                                                !.provider = stream[t].provider,
                                                !.reply = reply]
                        ELSE Finish(reply)]
    /\ UNCHANGED << cancelled, orphans, breaker, streak >>

Token(t) ==
    /\ stream[t].call \in {"silent", "open"}
    /\ ~Torn(t)
    /\ \E next \in {"open", "regen"} :
          stream' = [stream EXCEPT ![t].call = next,
                                   ![t].deaf = @ \/ next = "regen",
                                   ![t].shown = @ \cup {stream[t].attempt}]
    /\ UNCHANGED << cancelled, orphans, breaker, streak >>

\* Tool calls may come without a single token.
BrainAnswers(t) ==
    /\ stream[t].call # "none"
    /\ ~Torn(t)
    /\ \E reply \in {"content", "tools"} :
          /\ reply = "tools" \/ stream[t].call # "silent"
          /\ Resolve(t, reply)

\* A cancel, 90 s of silence, an endless <think>, the global time-out: the brain
\* catches the AbortError and resolves, with no content.
BrainGivesUp(t) == stream[t].call # "none" /\ Resolve(t, "content")

\* Connection refused or reset, or an HTTP error.  A direct call throws into
\* the chat loop.
BrainThrows(t) ==
    /\ stream[t].call \in {"silent", "open"}
    /\ ~Torn(t)
    /\ IF Guarded(t) THEN AttemptFails(t, stream[t])
       ELSE /\ stream' = [stream EXCEPT ![t] = Finish("error")]
            /\ UNCHANGED << breaker, streak >>
    /\ UNCHANGED << cancelled, orphans >>

OrphanEnds(t) ==
    /\ orphans[t] > 0
    /\ orphans' = [orphans EXCEPT ![t] = @ - 1]
    /\ UNCHANGED << stream, cancelled, breaker, streak >>

\* resetAfterMs have passed.
WindowElapses(p) ==
    /\ breaker[p].state = "open"
    /\ breaker' = [breaker EXCEPT ![p].cooled = TRUE]
    /\ UNCHANGED << stream, cancelled, orphans, streak >>

BrainFinishes(t) == BrainAnswers(t) \/ BrainGivesUp(t) \/ BrainThrows(t)

GuardrailStep(t) ==
    BackoffEnds(t) \/ OpenTimeout(t) \/ PolicyPasses(t) \/ PolicyDenies(t)

StreamStep(t) == Token(t) \/ BrainFinishes(t) \/ GuardrailStep(t) \/ OrphanEnds(t)
=============================================================================
