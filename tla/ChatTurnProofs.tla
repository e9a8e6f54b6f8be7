--------------------------- MODULE ChatTurnProofs ---------------------------
(***************************************************************************)
(* Proofs about ChatTurn, for any set of turns and providers, any          *)
(* threshold of the breaker and any number of iterations.                  *)
(*                                                                         *)
(* None of the properties is inductive.  A breaker counts what its history *)
(* counts only while an open breaker is a full one; one attempt is shown   *)
(* because a back-off begins only with nothing shown; and the calls after  *)
(* a cancel are two because a back-off is never entered after it, so that  *)
(* a turn that waits in one has begun none yet.                            *)
(***************************************************************************)
EXTENDS ChatTurn, FiniteSetTheorems, TLAPS

\* The snapshot of a breaker and the faults in a row it stands for.
Counted(b, faults) ==
    /\ b.state = "closed" => b.failures = faults /\ faults < Threshold
    /\ b.state = "open" => b.failures = Threshold
    /\ b.state # "closed" => faults = Threshold

\* What the step of a stream says of its other fields.
WellFormed(s) ==
    /\ s.step = "brain" <=> s.call # "none"
    /\ s.step = "brain" => s.attempt \in 1..MaxAttempts
    /\ s.step \in {"policy", "backoff"} => s.provider \in Providers
    /\ s.step = "backoff" => s.attempt = 1 /\ s.shown = {}
    /\ s.shown \subseteq {s.attempt}

\* A silent call is deaf only because it began after the cancel.
Hears(s, gone) == s.call = "silent" /\ s.deaf => gone

StreamOK(s, gone) == WellFormed(s) /\ Hears(s, gone)

\* How many calls and batches of tools a turn may have begun after its cancel.
CallsBound(t) ==
    /\ ~cancelled[t] \/ stream[t].step = "backoff" => callsAfterCancel[t] = 0
    /\ phase[t] = "main" => callsAfterCancel[t] <= 1
    /\ callsAfterCancel[t] <= 2

ToolsBound(t) ==
    /\ ~cancelled[t] \/ phase[t] \in {"main", "retry"} => toolsAfterCancel[t] = 0
    /\ toolsAfterCancel[t] <= 1

\* A turn without a request under way has no stream, and one that has not
\* begun cannot be cancelled.
PhaseOK(t) ==
    /\ phase[t] \in {"idle", "tools", "ended"} => stream[t] = IdleStream
    /\ phase[t] = "idle" => ~cancelled[t] /\ controller # t

TurnOK(t) ==
    /\ StreamOK(stream[t], cancelled[t])
    /\ orphans[t] > 0 => cancelled[t]
    /\ PhaseOK(t)
    /\ CallsBound(t)
    /\ ToolsBound(t)

BreakersOK == \A p \in Providers : Counted(breaker[p], streak[p])

IInv == TypeOK /\ BreakersOK /\ \A t \in Turns : TurnOK(t)

-----------------------------------------------------------------------------
(***************************************************************************)
(* The breaker.                                                            *)
(***************************************************************************)

\* The check before a call changes nothing that is counted.
LEMMA CheckCounted ==
    ASSUME NEW b \in Breakers, NEW n \in Nat, Counted(b, n)
    PROVE  AfterCheck(b) \in Breakers /\ Counted(AfterCheck(b), n)
BY ThresholdAssumption DEF Breakers, Counted, AfterCheck

\* A counted fault adds one, up to the threshold, in every state.
LEMMA FailureCounted ==
    ASSUME NEW b \in Breakers, NEW n \in Nat, Counted(b, n)
    PROVE  /\ AfterFailure(b) \in Breakers
           /\ Counted(AfterFailure(b), IF n < Threshold THEN n + 1 ELSE n)
<1>1. /\ b.state \in {"closed", "open", "half_open"} /\ b.failures \in 0..Threshold
      /\ Threshold \in Nat \ {0}
  BY ThresholdAssumption DEF Breakers
<1>2. CASE b.state = "half_open" \/ b.failures + 1 >= Threshold
  <2>1. AfterFailure(b) = Opened
    BY <1>2 DEF AfterFailure
  <2>2. (IF n < Threshold THEN n + 1 ELSE n) = Threshold
    BY <1>1, <1>2 DEF Counted
  <2> QED BY <1>1, <2>1, <2>2 DEF Opened, Breakers, Counted
<1>3. CASE ~(b.state = "half_open" \/ b.failures + 1 >= Threshold)
  <2> DEFINE new == [b EXCEPT !.state = "closed", !.failures = @ + 1]
  <2>1. AfterFailure(b) = new
    BY <1>3 DEF AfterFailure
  <2>2. b.state = "closed" /\ b.failures = n /\ n + 1 < Threshold
    BY <1>1, <1>3 DEF Counted
  <2>3. n + 1 \in 0..Threshold
    BY <1>1, <2>2
  <2>4. new.state = "closed" /\ new.failures = n + 1
    BY <2>2 DEF Breakers
  <2>5. new \in Breakers
    BY <2>2, <2>3 DEF Breakers
  <2> QED BY <1>1, <2>1, <2>2, <2>4, <2>5 DEF Counted
<1> QED BY <1>2, <1>3

\* A success starts the count again.
LEMMA SuccessCounted ==
    ASSUME NEW b \in Breakers
    PROVE  AfterSuccess(b) \in Breakers /\ Counted(AfterSuccess(b), 0)
BY ThresholdAssumption DEF Breakers, Counted, AfterSuccess, Closed

-----------------------------------------------------------------------------
(***************************************************************************)
(* Streams.                                                                *)
(***************************************************************************)

\* What a step of turn t's stream leaves in order.
Kept(t) ==
    /\ stream' \in [Turns -> Streams]
    /\ orphans' \in [Turns -> Nat]
    /\ \A u \in Turns \ {t} : stream'[u] = stream[u] /\ orphans'[u] = orphans[u]
    /\ StreamOK(stream'[t], cancelled[t])
    /\ orphans'[t] > 0 => cancelled[t]
    /\ breaker' \in [Providers -> Breakers]
    /\ streak' \in [Providers -> Nat]
    /\ BreakersOK'
    /\ cancelled' = cancelled

\* What a step of the stream alone may do besides: it begins a call only out of
\* a back-off, which it enters only before the cancel.
Continues(t) ==
    /\ stream'[t].step = "brain" => stream[t].step \in {"brain", "backoff"}
    /\ stream'[t].step = "backoff" => stream[t].step = "backoff" \/ ~cancelled[t]
    /\ stream[t] = IdleStream => stream'[t] = IdleStream

\* A stream at rest.
LEMMA RestIsOK ==
    ASSUME NEW reply \in Replies, NEW gone \in BOOLEAN
    PROVE  /\ Finish(reply) \in Streams /\ StreamOK(Finish(reply), gone)
           /\ Finish(reply).step = "done"
           /\ IdleStream \in Streams /\ StreamOK(IdleStream, gone)
           /\ IdleStream.step = "idle" /\ IdleStream.call = "none"
<1>1. 0 \in 0..MaxAttempts /\ {} \in SUBSET (1..MaxAttempts)
  BY DEF MaxAttempts
<1>2. "none" \in Replies
  BY DEF Replies
<1>3. IdleStream \in Streams
  BY <1>1, <1>2 DEF IdleStream, Streams
<1>4. Finish(reply) \in Streams
  BY <1>3 DEF Finish, Streams
<1>5. /\ IdleStream.step = "idle" /\ IdleStream.call = "none"
      /\ IdleStream.shown = {}
  BY DEF IdleStream
<1>6. /\ Finish(reply).step = "done" /\ Finish(reply).call = "none"
      /\ Finish(reply).shown = {}
  BY <1>5 DEF Finish, IdleStream
<1> QED BY <1>3, <1>4, <1>5, <1>6 DEF StreamOK, WellFormed, Hears

\* A call that begins with nothing shown.
LEMMA LaunchIsOK ==
    ASSUME NEW t \in Turns, cancelled[t] \in BOOLEAN,
           NEW s \in Streams, s.shown = {}, NEW n \in 1..MaxAttempts
    PROVE  /\ Launch(t, s, n) \in Streams
           /\ StreamOK(Launch(t, s, n), cancelled[t])
           /\ Launch(t, s, n).step = "brain"
<1> DEFINE s2 == Launch(t, s, n)
<1>1. n \in 0..MaxAttempts
  BY DEF MaxAttempts
<1>2. s2 \in Streams
  BY <1>1 DEF Launch, Streams
<1>3. /\ s2.step = "brain" /\ s2.call = "silent" /\ s2.attempt = n
      /\ s2.shown = {} /\ s2.deaf = cancelled[t]
  BY DEF Launch, Streams
<1> QED BY <1>2, <1>3 DEF StreamOK, WellFormed, Hears

\* The new stream of a request.
LEMMA StartStreamKeeps ==
    ASSUME IInv, NEW t \in Turns, NEW p \in Providers \cup {NoProvider}, StartStream(t, p)
    PROVE  Kept(t) /\ stream'[t].step # "backoff"
<1> USE DEF IInv, TypeOK
<1> DEFINE new == [IdleStream EXCEPT !.provider = p]
           refused == p # NoProvider /\ ~Admits(breaker[p])
<1>1. new \in Streams /\ new.shown = {} /\ 1 \in 1..MaxAttempts
  <2>1. IdleStream \in Streams /\ 1 \in 1..MaxAttempts
    BY RestIsOK DEF Replies, MaxAttempts
  <2> QED BY <2>1 DEF Streams, IdleStream
<1>2. /\ Launch(t, new, 1) \in Streams
      /\ StreamOK(Launch(t, new, 1), cancelled[t])
      /\ Launch(t, new, 1).step = "brain"
  BY <1>1, LaunchIsOK
<1>3. /\ Finish("content") \in Streams
      /\ StreamOK(Finish("content"), cancelled[t])
      /\ Finish("content").step = "done"
  BY RestIsOK DEF Replies
<1>4. stream' = [stream EXCEPT ![t] = IF refused THEN Finish("content") ELSE Launch(t, new, 1)]
  BY DEF StartStream
<1>5. /\ stream' \in [Turns -> Streams]
      /\ \A u \in Turns \ {t} : stream'[u] = stream[u]
      /\ StreamOK(stream'[t], cancelled[t])
      /\ stream'[t].step # "backoff"
  BY <1>2, <1>3, <1>4
<1>6. /\ breaker' = [q \in Providers |-> IF q = p THEN AfterCheck(breaker[q]) ELSE breaker[q]]
      /\ UNCHANGED << cancelled, orphans, streak >>
  BY DEF StartStream
<1>7. \A q \in Providers : /\ AfterCheck(breaker[q]) \in Breakers
                           /\ Counted(AfterCheck(breaker[q]), streak[q])
  BY CheckCounted DEF BreakersOK
<1>8. breaker' \in [Providers -> Breakers] /\ BreakersOK'
  BY <1>6, <1>7 DEF BreakersOK
<1> QED BY <1>5, <1>6, <1>8 DEF Kept, TurnOK

\* An attempt that fails is counted once, and is tried again only uncancelled
\* and with nothing shown.
LEMMA AttemptFailsKeeps ==
    ASSUME IInv, NEW t \in Turns, Guarded(t), stream[t].step = "brain",
           AttemptFails(t, stream[t])
    PROVE  /\ stream' \in [Turns -> Streams]
           /\ \A u \in Turns \ {t} : stream'[u] = stream[u]
           /\ StreamOK(stream'[t], cancelled[t])
           /\ Continues(t)
           /\ breaker' \in [Providers -> Breakers]
           /\ streak' \in [Providers -> Nat]
           /\ BreakersOK'
<1> USE DEF IInv, TypeOK
<1> DEFINE p == stream[t].provider
           s == [stream[t] EXCEPT !.step = "backoff", !.call = "none", !.deaf = FALSE]
           fault == FailureKind(t) = "pre_stream_open"
<1>1. /\ stream[t] \in Streams /\ WellFormed(stream[t])
      /\ p \in Providers /\ cancelled[t] \in BOOLEAN
  BY DEF Guarded, Streams, TurnOK, StreamOK
<1>2. /\ stream' = [stream EXCEPT ![t] = IF ShouldRetry(t) THEN s ELSE Finish("content")]
      /\ breaker' = [breaker EXCEPT ![p] = IF fault THEN AfterFailure(breaker[p]) ELSE breaker[p]]
      /\ streak' = [streak EXCEPT ![p] = IF fault /\ streak[p] < Threshold
                                         THEN streak[p] + 1 ELSE streak[p]]
  BY DEF AttemptFails
<1>3. /\ Finish("content") \in Streams
      /\ StreamOK(Finish("content"), cancelled[t])
      /\ Finish("content").step = "done"
  BY <1>1, RestIsOK DEF Replies
<1>4. ShouldRetry(t) => ~cancelled[t] /\ stream[t].attempt = 1 /\ stream[t].shown = {}
  BY <1>1 DEF ShouldRetry, FailureKind, StreamOpened, WellFormed, MaxAttempts
<1>5. ShouldRetry(t) => s \in Streams /\ StreamOK(s, cancelled[t]) /\ s.step = "backoff"
  BY <1>1, <1>4 DEF Streams, StreamOK, WellFormed, Hears, MaxAttempts
<1>6. /\ stream' \in [Turns -> Streams]
      /\ \A u \in Turns \ {t} : stream'[u] = stream[u]
      /\ StreamOK(stream'[t], cancelled[t])
  BY <1>2, <1>3, <1>5
<1>7. Continues(t)
  BY <1>2, <1>3, <1>4, <1>5 DEF Continues, IdleStream
<1>8. /\ AfterFailure(breaker[p]) \in Breakers
      /\ Counted(AfterFailure(breaker[p]), IF streak[p] < Threshold THEN streak[p] + 1 ELSE streak[p])
  BY <1>1, FailureCounted DEF BreakersOK
<1>9. breaker' \in [Providers -> Breakers] /\ streak' \in [Providers -> Nat]
  BY <1>1, <1>2, <1>8
<1>10. BreakersOK'
  <2> SUFFICES ASSUME NEW q \in Providers PROVE Counted(breaker'[q], streak'[q])
    BY DEF BreakersOK
  <2>1. CASE q # p
    BY <2>1, <1>2 DEF BreakersOK
  <2>2. CASE q = p /\ fault
    BY <2>2, <1>1, <1>2, <1>8
  <2>3. CASE q = p /\ ~fault
    BY <2>3, <1>1, <1>2 DEF BreakersOK
  <2> QED BY <2>1, <2>2, <2>3
<1> QED BY <1>6, <1>7, <1>9, <1>10

\* A brain call that resolves leaves a stream at rest or before its policy.
LEMMA ResolveKeeps ==
    ASSUME IInv, NEW t \in Turns, NEW reply \in Replies, Resolve(t, reply)
    PROVE  Kept(t) /\ Continues(t)
<1> USE DEF IInv, TypeOK
<1> DEFINE s == [IdleStream EXCEPT !.step = "policy", !.provider = stream[t].provider,
                                   !.reply = reply]
<1>1. /\ stream[t] \in Streams /\ cancelled[t] \in BOOLEAN /\ stream[t].step = "brain"
  BY DEF Resolve
<1>2. Guarded(t) => s \in Streams /\ StreamOK(s, cancelled[t]) /\ s.step = "policy"
  <2>1. IdleStream \in Streams
    BY RestIsOK
  <2>2. ASSUME Guarded(t) PROVE s \in Streams
    BY <1>1, <2>1 DEF Streams
  <2>3. /\ s.step = "policy" /\ s.call = "none" /\ s.shown = {}
        /\ s.provider = stream[t].provider
    BY DEF IdleStream
  <2>4. Guarded(t) => s.provider \in Providers
    BY <1>1, <2>3 DEF Guarded, Streams
  <2> QED BY <2>2, <2>3, <2>4 DEF StreamOK, WellFormed, Hears
<1>3. /\ Finish(reply) \in Streams
      /\ StreamOK(Finish(reply), cancelled[t])
      /\ Finish(reply).step = "done"
  BY <1>1, RestIsOK
<1>4. /\ stream' = [stream EXCEPT ![t] = IF Guarded(t) THEN s ELSE Finish(reply)]
      /\ UNCHANGED << cancelled, orphans, breaker, streak >>
  BY DEF Resolve
<1>5. Continues(t)
  BY <1>1, <1>2, <1>3, <1>4 DEF Continues, IdleStream
<1>6. BreakersOK'
  BY <1>4 DEF BreakersOK
<1> QED BY <1>2, <1>3, <1>4, <1>5, <1>6 DEF Kept, TurnOK

\* The first and every later token.
LEMMA TokenKeeps ==
    ASSUME IInv, NEW t \in Turns, Token(t)
    PROVE  Kept(t) /\ Continues(t)
<1> USE DEF IInv, TypeOK
<1>1. PICK next \in {"open", "regen"} :
          stream' = [stream EXCEPT ![t].call = next,
                                   ![t].deaf = @ \/ next = "regen",
                                   ![t].shown = @ \cup {stream[t].attempt}]
  BY DEF Token
<1>2. /\ stream[t] \in Streams /\ WellFormed(stream[t])
      /\ stream[t].call # "none" /\ stream[t].step = "brain"
  BY DEF Token, TurnOK, StreamOK, WellFormed
<1> DEFINE s == [stream[t] EXCEPT !.call = next, !.deaf = @ \/ next = "regen",
                                  !.shown = @ \cup {stream[t].attempt}]
<1>3. stream' = [stream EXCEPT ![t] = s]
  BY <1>1, <1>2 DEF Streams
<1>4. s \in Streams
  BY <1>2 DEF Streams, WellFormed
<1>5. StreamOK(s, cancelled[t]) /\ s.step = "brain"
  BY <1>2 DEF Streams, StreamOK, WellFormed, Hears
<1>6. UNCHANGED << cancelled, orphans, breaker, streak >>
  BY DEF Token
<1>7. BreakersOK'
  BY <1>6 DEF BreakersOK
<1>8. Continues(t)
  BY <1>2, <1>3, <1>5 DEF Continues, IdleStream
<1> QED BY <1>3, <1>4, <1>5, <1>6, <1>7, <1>8 DEF Kept, TurnOK

\* The breaker is asked again after the back-off.
LEMMA BackoffEndsKeeps ==
    ASSUME IInv, NEW t \in Turns, BackoffEnds(t)
    PROVE  Kept(t) /\ Continues(t)
<1> USE DEF IInv, TypeOK
<1> DEFINE p == stream[t].provider
           s == Launch(t, stream[t], stream[t].attempt + 1)
<1>1. /\ stream[t] \in Streams /\ stream[t].step = "backoff" /\ p \in Providers
      /\ stream[t].shown = {} /\ stream[t].attempt = 1 /\ cancelled[t] \in BOOLEAN
  BY DEF BackoffEnds, TurnOK, StreamOK, WellFormed
<1>2. stream[t].attempt + 1 \in 1..MaxAttempts
  BY <1>1 DEF MaxAttempts
<1>3. s \in Streams /\ StreamOK(s, cancelled[t]) /\ s.step = "brain"
  BY <1>1, <1>2, LaunchIsOK
<1>4. /\ Finish("content") \in Streams
      /\ StreamOK(Finish("content"), cancelled[t])
      /\ Finish("content").step = "done"
  BY <1>1, RestIsOK DEF Replies
<1>5. /\ stream' = [stream EXCEPT ![t] = IF Admits(breaker[p]) THEN s ELSE Finish("content")]
      /\ breaker' = [breaker EXCEPT ![p] = AfterCheck(breaker[p])]
      /\ UNCHANGED << cancelled, orphans, streak >>
  BY DEF BackoffEnds
<1>6. AfterCheck(breaker[p]) \in Breakers /\ Counted(AfterCheck(breaker[p]), streak[p])
  BY <1>1, CheckCounted DEF BreakersOK
<1>7. breaker' \in [Providers -> Breakers] /\ BreakersOK'
  BY <1>1, <1>5, <1>6 DEF BreakersOK
<1>8. Continues(t)
  BY <1>1, <1>3, <1>4, <1>5 DEF Continues, IdleStream
<1> QED BY <1>3, <1>4, <1>5, <1>7, <1>8 DEF Kept, TurnOK

\* The open timer abandons a call that does not listen only after a cancel.
LEMMA OpenTimeoutKeeps ==
    ASSUME IInv, NEW t \in Turns, OpenTimeout(t)
    PROVE  Kept(t) /\ Continues(t)
<1> USE DEF IInv, TypeOK
<1>1. /\ Guarded(t) /\ stream[t].step = "brain" /\ stream[t].call = "silent"
      /\ AttemptFails(t, stream[t])
      /\ orphans' = [orphans EXCEPT ![t] = IF stream[t].deaf THEN orphans[t] + 1 ELSE orphans[t]]
      /\ cancelled' = cancelled
  BY DEF OpenTimeout
<1>2. stream[t].deaf => cancelled[t]
  BY <1>1 DEF TurnOK, StreamOK, Hears
<1>3. /\ orphans' \in [Turns -> Nat]
      /\ \A u \in Turns \ {t} : orphans'[u] = orphans[u]
      /\ orphans'[t] > 0 => cancelled[t]
  BY <1>1, <1>2 DEF TurnOK, Streams
<1> QED BY <1>1, <1>3, AttemptFailsKeeps DEF Kept

\* A thrown error is a failed attempt, or ends a direct call.
LEMMA BrainThrowsKeeps ==
    ASSUME IInv, NEW t \in Turns, BrainThrows(t)
    PROVE  Kept(t) /\ Continues(t)
<1> USE DEF IInv, TypeOK
<1>1. /\ stream[t].call # "none" /\ stream[t].step = "brain" /\ cancelled[t] \in BOOLEAN
      /\ UNCHANGED << cancelled, orphans >>
  BY DEF BrainThrows, TurnOK, StreamOK, WellFormed
<1>2. CASE Guarded(t)
  <2>1. AttemptFails(t, stream[t])
    BY <1>2 DEF BrainThrows
  <2> QED BY <2>1, <1>1, <1>2, AttemptFailsKeeps DEF Kept, TurnOK
<1>3. CASE ~Guarded(t)
  <2>1. /\ stream' = [stream EXCEPT ![t] = Finish("error")]
        /\ UNCHANGED << breaker, streak >>
    BY <1>3 DEF BrainThrows
  <2>2. /\ Finish("error") \in Streams
        /\ StreamOK(Finish("error"), cancelled[t])
        /\ Finish("error").step = "done"
    BY <1>1, RestIsOK DEF Replies
  <2>3. BreakersOK'
    BY <2>1 DEF BreakersOK
  <2>4. Continues(t)
    BY <1>1, <2>1, <2>2 DEF Continues, IdleStream
  <2> QED BY <1>1, <2>1, <2>2, <2>3, <2>4 DEF Kept, TurnOK
<1> QED BY <1>2, <1>3

\* The verdict on the output.
LEMMA PolicyKeeps ==
    ASSUME IInv, NEW t \in Turns, PolicyPasses(t) \/ PolicyDenies(t)
    PROVE  Kept(t) /\ Continues(t)
<1> USE DEF IInv, TypeOK
<1> DEFINE p == stream[t].provider
<1>1. /\ stream[t] \in Streams /\ stream[t].step = "policy" /\ p \in Providers
      /\ stream[t].reply \in Replies /\ "content" \in Replies /\ cancelled[t] \in BOOLEAN
  BY DEF PolicyPasses, PolicyDenies, TurnOK, StreamOK, WellFormed, Streams, Replies
<1>2. PICK reply \in Replies : stream' = [stream EXCEPT ![t] = Finish(reply)]
  BY <1>1 DEF PolicyPasses, PolicyDenies
<1>3. /\ Finish(reply) \in Streams
      /\ StreamOK(Finish(reply), cancelled[t])
      /\ Finish(reply).step = "done"
  BY <1>1, RestIsOK
<1>4. Continues(t)
  BY <1>1, <1>2, <1>3 DEF Continues, IdleStream
<1>5. UNCHANGED << cancelled, orphans >>
  BY DEF PolicyPasses, PolicyDenies
<1>6. /\ breaker' \in [Providers -> Breakers] /\ streak' \in [Providers -> Nat]
      /\ BreakersOK'
  <2>1. CASE PolicyPasses(t)
    <3>1. /\ breaker' = [breaker EXCEPT ![p] = AfterSuccess(breaker[p])]
          /\ streak' = [streak EXCEPT ![p] = 0]
      BY <2>1 DEF PolicyPasses
    <3>2. AfterSuccess(breaker[p]) \in Breakers /\ Counted(AfterSuccess(breaker[p]), 0)
      BY <1>1, SuccessCounted
    <3> QED BY <1>1, <3>1, <3>2 DEF BreakersOK
  <2>2. CASE PolicyDenies(t)
    BY <2>2 DEF PolicyDenies, BreakersOK
  <2> QED BY <2>1, <2>2
<1> QED BY <1>2, <1>3, <1>4, <1>5, <1>6 DEF Kept, TurnOK

\* Every step of a stream.
LEMMA StreamStepKeeps ==
    ASSUME IInv, NEW t \in Turns, StreamStep(t)
    PROVE  Kept(t) /\ Continues(t)
<1>1. CASE Token(t)
  BY <1>1, TokenKeeps
<1>2. CASE BrainFinishes(t)
  <2>1. CASE BrainAnswers(t)
    BY <2>1, ResolveKeeps DEF BrainAnswers, Replies
  <2>2. CASE BrainGivesUp(t)
    BY <2>2, ResolveKeeps DEF BrainGivesUp, Replies
  <2>3. CASE BrainThrows(t)
    BY <2>3, BrainThrowsKeeps
  <2> QED BY <1>2, <2>1, <2>2, <2>3 DEF BrainFinishes
<1>3. CASE GuardrailStep(t)
  BY <1>3, BackoffEndsKeeps, OpenTimeoutKeeps, PolicyKeeps DEF GuardrailStep
<1>4. CASE OrphanEnds(t)
  <2>1. /\ orphans[t] > 0 /\ orphans' = [orphans EXCEPT ![t] = orphans[t] - 1]
        /\ UNCHANGED << stream, cancelled, breaker, streak >>
    BY <1>4 DEF OrphanEnds
  <2>2. orphans[t] \in Nat /\ cancelled[t] /\ StreamOK(stream[t], cancelled[t])
    BY <2>1 DEF IInv, TypeOK, TurnOK
  <2>3. orphans' \in [Turns -> Nat] /\ \A u \in Turns \ {t} : orphans'[u] = orphans[u]
    BY <2>1, <2>2 DEF IInv, TypeOK
  <2>4. BreakersOK'
    BY <2>1 DEF BreakersOK, IInv
  <2> QED BY <2>1, <2>2, <2>3, <2>4 DEF Kept, Continues, IInv, TypeOK
<1> QED BY <1>1, <1>2, <1>3, <1>4 DEF StreamStep

-----------------------------------------------------------------------------
(***************************************************************************)
(* The loop of a turn.                                                     *)
(***************************************************************************)

\* A step of turn t's stream is in order for the invariant once the turn itself
\* is: the other turns, and all types but those of the loop, are kept.
LEMMA OthersKept ==
    ASSUME IInv, NEW t \in Turns, Kept(t),
           \A u \in Turns \ {t} :
               /\ phase'[u] = phase[u]
               /\ callsAfterCancel'[u] = callsAfterCancel[u]
               /\ toolsAfterCancel'[u] = toolsAfterCancel[u],
           controller' \in {controller, t}
    PROVE  BreakersOK' /\ \A u \in Turns \ {t} : TurnOK(u)'
<1> SUFFICES ASSUME NEW u \in Turns \ {t} PROVE TurnOK(u)'
  BY DEF Kept
<1>1. /\ TurnOK(u) /\ stream'[u] = stream[u] /\ orphans'[u] = orphans[u]
      /\ cancelled' = cancelled
      /\ phase'[u] = phase[u]
      /\ callsAfterCancel'[u] = callsAfterCancel[u]
      /\ toolsAfterCancel'[u] = toolsAfterCancel[u]
  BY DEF Kept, IInv
<1> QED BY <1>1 DEF TurnOK, PhaseOK, CallsBound, ToolsBound

\* The count of calls after the cancel, per turn.
LEMMA CountKeeps ==
    ASSUME IInv, NEW t \in Turns, CountCall(t)
    PROVE  /\ callsAfterCancel' \in [Turns -> Nat]
           /\ \A u \in Turns \ {t} : callsAfterCancel'[u] = callsAfterCancel[u]
           /\ callsAfterCancel'[t] = IF cancelled[t] /\ Begins(t)
                                     THEN callsAfterCancel[t] + 1 ELSE callsAfterCancel[t]
BY DEF IInv, TypeOK, CountCall

\* A request of the loop: a new stream, counted.
LEMMA RequestKeeps ==
    ASSUME IInv, NEW t \in Turns, Request(t)
    PROVE  /\ Kept(t) /\ stream'[t].step # "backoff"
           /\ callsAfterCancel' \in [Turns -> Nat]
           /\ \A u \in Turns \ {t} : callsAfterCancel'[u] = callsAfterCancel[u]
           /\ callsAfterCancel'[t] <= callsAfterCancel[t] + 1
           /\ ~cancelled[t] => callsAfterCancel'[t] = callsAfterCancel[t]
<1>1. Kept(t) /\ stream'[t].step # "backoff"
  BY StartStreamKeeps DEF Request
<1>2. CountCall(t) /\ callsAfterCancel[t] \in Nat
  BY DEF Request, IInv, TypeOK
<1> QED BY <1>1, <1>2, CountKeeps

\* The loop drops the stream it has read.
LEMMA ConsumeKeeps ==
    ASSUME IInv, NEW t \in Turns, Consume(t)
    PROVE  Kept(t) /\ stream'[t] = IdleStream /\ callsAfterCancel' = callsAfterCancel
<1>1. /\ stream' = [stream EXCEPT ![t] = IdleStream]
      /\ UNCHANGED << cancelled, orphans, breaker, streak, callsAfterCancel >>
  BY DEF Consume
<1>2. IdleStream \in Streams /\ StreamOK(IdleStream, cancelled[t])
  BY RestIsOK DEF IInv, TypeOK, Replies
<1>3. BreakersOK'
  BY <1>1 DEF BreakersOK, IInv
<1> QED BY <1>1, <1>2, <1>3 DEF Kept, IInv, TypeOK, TurnOK

\* The head of the loop, from a turn that has not begun, has run its tools or
\* has read a reply.
LEMMA LoopHeadKeeps ==
    ASSUME IInv, NEW t \in Turns, LoopHead(t), controller' \in {controller, t},
           UNCHANGED toolsAfterCancel
    PROVE  IInv'
<1>1. /\ TurnOK(t) /\ iter[t] \in 0..MaxIterations /\ MaxIterations \in Nat
      /\ callsAfterCancel[t] \in Nat /\ cancelled[t] \in BOOLEAN
  BY ChatAssumption DEF IInv, TypeOK
<1>2. CASE LoopEnds(t)
  <2>1. /\ phase' = [phase EXCEPT ![t] = "ended"]
        /\ Consume(t)
        /\ UNCHANGED iter
    BY <1>2 DEF LoopHead
  <2>2. Kept(t) /\ stream'[t] = IdleStream /\ callsAfterCancel' = callsAfterCancel
    BY <2>1, ConsumeKeeps
  <2>3. phase' \in [Turns -> Phases] /\ phase'[t] = "ended"
    BY <2>1 DEF IInv, TypeOK, Phases
  <2>4. TypeOK'
    BY <2>1, <2>2, <2>3 DEF IInv, TypeOK, Kept
  <2>5. BreakersOK' /\ \A u \in Turns \ {t} : TurnOK(u)'
    BY <2>1, <2>2, OthersKept DEF IInv, TypeOK
  <2>6. TurnOK(t)'
    BY <1>1, <2>2, <2>3, RestIsOK
    DEF Kept, TurnOK, PhaseOK, CallsBound, ToolsBound, Replies
  <2> QED BY <2>4, <2>5, <2>6 DEF IInv
<1>3. CASE ~LoopEnds(t)
  <2>1. /\ phase' = [phase EXCEPT ![t] = "main"]
        /\ iter' = [iter EXCEPT ![t] = iter[t] + 1]
        /\ Request(t)
    BY <1>3 DEF LoopHead, NextIteration
  <2>2. ~cancelled[t] /\ iter[t] + 1 \in 0..MaxIterations
    BY <1>1, <1>3 DEF LoopEnds
  <2>3. /\ Kept(t) /\ stream'[t].step # "backoff"
        /\ callsAfterCancel' \in [Turns -> Nat]
        /\ \A u \in Turns \ {t} : callsAfterCancel'[u] = callsAfterCancel[u]
        /\ callsAfterCancel'[t] = callsAfterCancel[t]
    BY <2>1, <2>2, RequestKeeps
  <2>4. phase' \in [Turns -> Phases] /\ phase'[t] = "main"
    BY <2>1 DEF IInv, TypeOK, Phases
  <2>5. TypeOK'
    BY <2>1, <2>2, <2>3, <2>4 DEF IInv, TypeOK, Kept
  <2>6. BreakersOK' /\ \A u \in Turns \ {t} : TurnOK(u)'
    BY <2>1, <2>3, OthersKept DEF IInv, TypeOK
  <2>7. TurnOK(t)'
    BY <1>1, <2>2, <2>3, <2>4 DEF Kept, TurnOK, PhaseOK, CallsBound, ToolsBound
  <2> QED BY <2>5, <2>6, <2>7 DEF IInv
<1> QED BY <1>2, <1>3

\* The second request: the turn may be cancelled, and has then begun one call
\* at most.
LEMMA RetryForToolsKeeps ==
    ASSUME IInv, NEW t \in Turns, RetryForTools(t)
    PROVE  IInv'
<1>1. /\ TurnOK(t) /\ phase[t] = "main"
      /\ callsAfterCancel[t] \in Nat /\ cancelled[t] \in BOOLEAN
      /\ phase' = [phase EXCEPT ![t] = "retry"]
      /\ UNCHANGED << iter, controller, toolsAfterCancel >>
  BY DEF RetryForTools, IInv, TypeOK
<1>2. /\ Kept(t) /\ stream'[t].step # "backoff"
      /\ callsAfterCancel' \in [Turns -> Nat]
      /\ \A u \in Turns \ {t} : callsAfterCancel'[u] = callsAfterCancel[u]
      /\ callsAfterCancel'[t] <= callsAfterCancel[t] + 1
      /\ ~cancelled[t] => callsAfterCancel'[t] = callsAfterCancel[t]
  BY RequestKeeps DEF RetryForTools
<1>3. phase' \in [Turns -> Phases] /\ phase'[t] = "retry"
  BY <1>1 DEF IInv, TypeOK, Phases
<1>4. TypeOK'
  BY <1>1, <1>2, <1>3 DEF IInv, TypeOK, Kept
<1>5. BreakersOK' /\ \A u \in Turns \ {t} : TurnOK(u)'
  BY <1>1, <1>2, OthersKept DEF IInv, TypeOK
<1>6. callsAfterCancel'[t] \in Nat
  BY <1>2
<1>7. TurnOK(t)'
  BY <1>1, <1>2, <1>3, <1>6 DEF Kept, TurnOK, PhaseOK, CallsBound, ToolsBound
<1> QED BY <1>4, <1>5, <1>7 DEF IInv

\* The reply is read, and its tool calls begin or the turn is over.
LEMMA ReadReplyKeeps ==
    ASSUME IInv, NEW t \in Turns, RunTools(t) \/ Conclude(t)
    PROVE  IInv'
<1>1. /\ TurnOK(t) /\ phase[t] \in {"main", "retry"}
      /\ callsAfterCancel[t] \in Nat /\ cancelled[t] \in BOOLEAN
      /\ Consume(t)
      /\ UNCHANGED << iter, controller >>
  BY DEF RunTools, Conclude, IInv, TypeOK
<1>2. Kept(t) /\ stream'[t] = IdleStream /\ callsAfterCancel' = callsAfterCancel
  BY <1>1, ConsumeKeeps
<1>3. PICK ph \in {"tools", "ended"} : phase' = [phase EXCEPT ![t] = ph]
  BY DEF RunTools, Conclude
<1>4. phase' \in [Turns -> Phases] /\ phase'[t] \in {"tools", "ended"}
  BY <1>3 DEF IInv, TypeOK, Phases
<1>5. /\ toolsAfterCancel' \in [Turns -> Nat]
      /\ \A u \in Turns \ {t} : toolsAfterCancel'[u] = toolsAfterCancel[u]
      /\ toolsAfterCancel'[t] \in {0, 1}
      /\ ~cancelled[t] => toolsAfterCancel'[t] = 0
  <2>1. toolsAfterCancel[t] = 0
    BY <1>1 DEF TurnOK, ToolsBound
  <2> QED BY <1>1, <2>1 DEF RunTools, Conclude, IInv, TypeOK
<1>6. TypeOK'
  BY <1>1, <1>2, <1>4, <1>5 DEF IInv, TypeOK, Kept
<1>7. BreakersOK' /\ \A u \in Turns \ {t} : TurnOK(u)'
  BY <1>1, <1>2, <1>3, <1>5, OthersKept DEF IInv, TypeOK
<1>8. IdleStream.step # "backoff"
  BY DEF IdleStream
<1>9. TurnOK(t)'
  BY <1>1, <1>2, <1>4, <1>5, <1>8
  DEF Kept, TurnOK, PhaseOK, CallsBound, ToolsBound
<1> QED BY <1>6, <1>7, <1>9 DEF IInv

\* A step of the stream the turn waits for: it begins a call only out of a
\* back-off, in which a turn has begun none since the cancel.
LEMMA AwaitStepKeeps ==
    ASSUME IInv, NEW t \in Turns, AwaitStep(t)
    PROVE  IInv'
<1>1. /\ TurnOK(t) /\ callsAfterCancel[t] \in Nat /\ cancelled[t] \in BOOLEAN
      /\ CountCall(t)
      /\ UNCHANGED << phase, iter, controller, toolsAfterCancel >>
  BY DEF AwaitStep, IInv, TypeOK
<1>2. Kept(t) /\ Continues(t)
  BY StreamStepKeeps DEF AwaitStep
<1>3. /\ callsAfterCancel' \in [Turns -> Nat]
      /\ \A u \in Turns \ {t} : callsAfterCancel'[u] = callsAfterCancel[u]
      /\ callsAfterCancel'[t] = IF cancelled[t] /\ Begins(t)
                                THEN callsAfterCancel[t] + 1 ELSE callsAfterCancel[t]
  BY <1>1, CountKeeps
<1>4. TypeOK'
  BY <1>1, <1>2, <1>3 DEF IInv, TypeOK, Kept
<1>5. BreakersOK' /\ \A u \in Turns \ {t} : TurnOK(u)'
  BY <1>1, <1>2, <1>3, OthersKept DEF IInv, TypeOK
<1>6. Begins(t) => stream[t].step = "backoff" /\ stream'[t].step = "brain"
  BY <1>2 DEF Begins, Continues
<1>7. CallsBound(t)'
  <2>1. CASE Begins(t)
    BY <1>1, <1>2, <1>3, <1>6, <2>1 DEF TurnOK, CallsBound, Kept
  <2>2. CASE ~Begins(t)
    BY <1>1, <1>2, <1>3, <2>2 DEF TurnOK, CallsBound, Kept, Continues
  <2> QED BY <2>1, <2>2
<1>8. TurnOK(t)'
  BY <1>1, <1>2, <1>7 DEF Kept, Continues, TurnOK, PhaseOK, ToolsBound
<1> QED BY <1>4, <1>5, <1>8 DEF IInv

\* cancelChat reaches the turn that began last.
LEMMA CancelChatKeeps ==
    ASSUME IInv, CancelChat
    PROVE  IInv'
<1>1. /\ controller \in Turns
      /\ cancelled' = [cancelled EXCEPT ![controller] = TRUE]
      /\ controller' = NoTurn
      /\ UNCHANGED << stream, orphans, breaker, streak,
                      phase, iter, callsAfterCancel, toolsAfterCancel >>
  BY DEF CancelChat, IInv, TypeOK
<1>2. TypeOK'
  BY <1>1 DEF IInv, TypeOK
<1>3. BreakersOK'
  BY <1>1 DEF IInv, BreakersOK
<1>4. ASSUME NEW t \in Turns PROVE TurnOK(t)'
  <2>1. /\ TurnOK(t) /\ NoTurn # t
        /\ cancelled'[t] = (cancelled[t] \/ t = controller)
    BY <1>1, ChatAssumption DEF IInv, TypeOK
  <2>2. StreamOK(stream[t], cancelled[t]) => StreamOK(stream[t], cancelled'[t])
    BY <2>1 DEF StreamOK, Hears
  <2> QED BY <1>1, <2>1, <2>2 DEF TurnOK, PhaseOK, CallsBound, ToolsBound
<1> QED BY <1>2, <1>3, <1>4 DEF IInv

\* The window of a breaker ends.
LEMMA WindowElapsesKeeps ==
    ASSUME IInv, NEW p \in Providers, WindowElapses(p), UNCHANGED chatVars
    PROVE  IInv'
<1>1. /\ breaker' = [breaker EXCEPT ![p] = [breaker[p] EXCEPT !.cooled = TRUE]]
      /\ UNCHANGED << stream, cancelled, orphans, streak,
                      phase, iter, controller, callsAfterCancel, toolsAfterCancel >>
  BY DEF WindowElapses, chatVars, IInv, TypeOK, Breakers
<1>2. breaker[p] \in Breakers /\ Counted(breaker[p], streak[p])
  BY DEF IInv, TypeOK, BreakersOK
<1> DEFINE b == [breaker[p] EXCEPT !.cooled = TRUE]
<1>3. b \in Breakers /\ Counted(b, streak[p])
  BY <1>2 DEF Breakers, Counted
<1>4. breaker' \in [Providers -> Breakers]
  BY <1>1, <1>3 DEF IInv, TypeOK
<1>5. BreakersOK'
  BY <1>1, <1>3 DEF IInv, TypeOK, BreakersOK
<1>6. TypeOK'
  BY <1>1, <1>4 DEF IInv, TypeOK
<1>7. \A t \in Turns : TurnOK(t)'
  BY <1>1 DEF IInv, TurnOK, PhaseOK, CallsBound, ToolsBound
<1> QED BY <1>5, <1>6, <1>7 DEF IInv

-----------------------------------------------------------------------------
(***************************************************************************)
(* The theorems.                                                           *)
(***************************************************************************)

\* The inductive invariant of every behaviour of the chat loops.
THEOREM IInvHolds == Spec => []IInv
<1>1. Init => IInv
  <2> SUFFICES ASSUME Init PROVE IInv
    OBVIOUS
  <2> USE DEF Init, StreamInit
  <2>1. Closed \in Breakers /\ Counted(Closed, 0)
    BY ThresholdAssumption DEF Closed, Breakers, Counted
  <2>2. /\ IdleStream \in Streams /\ StreamOK(IdleStream, FALSE)
        /\ IdleStream.step = "idle"
    BY RestIsOK DEF Replies
  <2>3. TypeOK
    BY <2>1, <2>2, ChatAssumption DEF TypeOK, Phases
  <2>4. BreakersOK
    BY <2>1 DEF BreakersOK
  <2>5. ASSUME NEW t \in Turns PROVE TurnOK(t)
    <3>1. /\ stream[t] = IdleStream /\ cancelled[t] = FALSE /\ orphans[t] = 0
          /\ phase[t] = "idle" /\ controller # t
          /\ callsAfterCancel[t] = 0 /\ toolsAfterCancel[t] = 0
      BY ChatAssumption
    <3>2. PhaseOK(t) /\ CallsBound(t) /\ ToolsBound(t)
      BY <3>1 DEF PhaseOK, CallsBound, ToolsBound
    <3>3. StreamOK(stream[t], cancelled[t])
      BY <2>2, <3>1
    <3>4. ~(orphans[t] > 0)
      BY <3>1
    <3> QED BY <3>2, <3>3, <3>4 DEF TurnOK
  <2> QED BY <2>3, <2>4, <2>5 DEF IInv
<1>2. IInv /\ [Next]_vars => IInv'
  <2> SUFFICES ASSUME IInv, [Next]_vars PROVE IInv'
    OBVIOUS
  <2>1. CASE CancelChat
    BY <2>1, CancelChatKeeps
  <2>2. ASSUME NEW t \in Turns, StartTurn(t) PROVE IInv'
    BY <2>2, LoopHeadKeeps DEF StartTurn
  <2>3. ASSUME NEW t \in Turns, LoopStep(t) PROVE IInv'
    <3>1. CASE RetryForTools(t)
      BY <3>1, RetryForToolsKeeps
    <3>2. CASE RunTools(t) \/ Conclude(t)
      BY <3>2, ReadReplyKeeps
    <3>3. CASE ToolsReturn(t) \/ ContinueBrowserTask(t)
      BY <3>3, LoopHeadKeeps DEF ToolsReturn, ContinueBrowserTask
    <3> QED BY <2>3, <3>1, <3>2, <3>3 DEF LoopStep
  <2>4. ASSUME NEW t \in Turns, AwaitStep(t) PROVE IInv'
    BY <2>4, AwaitStepKeeps
  <2>5. ASSUME NEW p \in Providers, WindowElapses(p), UNCHANGED chatVars PROVE IInv'
    BY <2>5, WindowElapsesKeeps
  <2>6. CASE UNCHANGED vars
    BY <2>6 DEF vars, streamVars, chatVars, IInv, TypeOK, BreakersOK, TurnOK, PhaseOK,
               CallsBound, ToolsBound
  <2> QED BY <2>1, <2>2, <2>3, <2>4, <2>5, <2>6 DEF Next
<1> QED BY <1>1, <1>2, PTL DEF Spec

\* Types, for any turns, providers, threshold and number of iterations.
THEOREM TypeCorrect == Spec => []TypeOK
<1>1. IInv => TypeOK
  BY DEF IInv
<1> QED BY <1>1, IInvHolds, PTL

\* A breaker is closed exactly while its provider has fewer faults in a row than
\* the threshold, however many turns share it and whatever they do.
THEOREM BreakersAreFair == Spec => []BreakerCountsFaults
<1>1. IInv => BreakerCountsFaults
  <2> SUFFICES ASSUME IInv, NEW p \in Providers
               PROVE  breaker[p].state = "closed" <=> streak[p] < Threshold
    BY DEF BreakerCountsFaults
  <2> QED BY ThresholdAssumption DEF IInv, BreakersOK, Counted
<1> QED BY <1>1, IInvHolds, PTL

\* No stream shows the tokens of two attempts.
THEOREM AnswersAreWhole == Spec => []OneAnswerShown
<1>1. IInv => OneAnswerShown
  <2> SUFFICES ASSUME IInv, NEW t \in Turns PROVE Cardinality(stream[t].shown) <= 1
    BY DEF OneAnswerShown
  <2>1. stream[t].shown \subseteq {stream[t].attempt}
    BY DEF IInv, TurnOK, StreamOK, WellFormed
  <2>2. Cardinality({}) = 0 /\ Cardinality({stream[t].attempt}) = 1
    BY FS_EmptySet, FS_Singleton
  <2>3. CASE stream[t].shown = {}
    BY <2>2, <2>3
  <2>4. CASE stream[t].shown # {}
    <3>1. stream[t].shown = {stream[t].attempt}
      BY <2>1, <2>4
    <3> QED BY <2>2, <3>1
  <2> QED BY <2>3, <2>4
<1> QED BY <1>1, IInvHolds, PTL

\* Only a cancelled turn leaves brain calls behind.
THEOREM OrphansBelongToCancels == Spec => []OrphansAreCancelled
<1>1. IInv => OrphansAreCancelled
  BY DEF IInv, TurnOK, OrphansAreCancelled
<1> QED BY <1>1, IInvHolds, PTL

\* At most two brain calls and one batch of tools begin after a cancel, whatever
\* the number of iterations.
THEOREM CancelsAreBounded == Spec => []CancelIsBounded
<1>1. IInv => CancelIsBounded
  BY DEF IInv, TurnOK, CallsBound, ToolsBound, CancelIsBounded
<1> QED BY <1>1, IInvHolds, PTL
=============================================================================
