-------------------------- MODULE CompletionProvider --------------------------
(***************************************************************************)
(* Autocomplete requests that overlap: the debouncer, the abort            *)
(* controllers, and the one stream of the model that they share            *)
(* (core/autocomplete: CompletionProvider.ts, AutocompleteDebouncer.ts,    *)
(* CompletionStreamer.ts, GeneratorReuseManager.ts, ListenableGenerator.ts)*)
(*                                                                         *)
(* A request is one call of provideInlineCompletionItems.  It may create a *)
(* generator, which then has its name: a generator is the output of the    *)
(* model for the prefix of the request that created it.  Text is a         *)
(* sequence of characters and a chunk is one character.  The filters of    *)
(* the stream decide what they like: they are data.  Between two awaits a  *)
(* request runs without interruption, so that is an action.                *)
(***************************************************************************)
EXTENDS Naturals, Sequences, SequencesExt

CONSTANTS Requests,   \* calls of provideInlineCompletionItems
          WithToken,  \* those that come with a signal of the IDE
          Chars,      \* characters the model may write
          NewLine,    \* the one that ends a line
          Texts,   \* texts that may stand before the cursor
          None,       \* no request, no generator
          MaxChunks   \* bound on the output of the model

ASSUME TextAssumption == Texts \subseteq Seq(Chars)

ASSUME TokenAssumption == WithToken \subseteq Requests

ASSUME NoneAssumption == None \notin Requests

ASSUME MaxChunksAssumption == MaxChunks \in Nat

VARIABLES
  pc,          \* where each request is
  prefix,      \* the text before the cursor when it was made
  multiline,   \* whether it may go beyond the end of the line
  latest,      \* currentRequestId of the debouncer
  timer,       \* the request whose debounceTimeout is running
  controllers, \* requests with a controller in the logging service
  aborted,     \* requests whose signal is aborted
  current,     \* currentGenerator
  pending,     \* pendingCompletion
  buffer,      \* _buffer of each generator
  isEnded,     \* its _isEnded
  settled,     \* whether the loop of its _start is over
  source,      \* the generator each request reads
  taken,       \* the chunks it has taken from its buffer
  typed,       \* typedSinceLastGenerator
  received     \* the text its filters have received

debouncer == <<latest, timer>>
signals == <<controllers, aborted>>
generators == <<current, pending, buffer, isEnded, settled>>
reading == <<source, taken, typed, received>>

vars == <<pc, prefix, multiline, debouncer, signals, generators, reading>>

Streaming == {"reading", "waiting", "filtering", "closing"}

Places == {"idle", "called", "debouncing", "ready", "done"} \cup Streaming

TypeOK ==
  /\ pc \in [Requests -> Places]
  /\ prefix \in [Requests -> Seq(Chars)]
  /\ multiline \in [Requests -> BOOLEAN]
  /\ latest \in Requests \cup {None} /\ timer \in Requests \cup {None}
  /\ controllers \subseteq Requests /\ aborted \subseteq Requests
  /\ current \in Requests \cup {None}
  /\ pending \in Seq(Chars)
  /\ buffer \in [Requests -> Seq(Chars)]
  /\ isEnded \in [Requests -> BOOLEAN] /\ settled \in [Requests -> BOOLEAN]
  /\ source \in [Requests -> Requests \cup {None}]
  /\ taken \in [Requests -> Nat]
  /\ typed \in [Requests -> Seq(Chars)]
  /\ received \in [Requests -> Seq(Chars)]

Init ==
  /\ pc = [r \in Requests |-> "idle"]
  /\ prefix = [r \in Requests |-> <<>>]
  /\ multiline = [r \in Requests |-> FALSE]
  /\ latest = None /\ timer = None
  /\ controllers = {} /\ aborted = {}
  /\ current = None /\ pending = <<>>
  /\ buffer = [g \in Requests |-> <<>>]
  /\ isEnded = [g \in Requests |-> TRUE]      \* there is no generator yet
  /\ settled = [g \in Requests |-> TRUE]
  /\ source = [r \in Requests |-> None]
  /\ taken = [r \in Requests |-> 0]
  /\ typed = [r \in Requests |-> <<>>]
  /\ received = [r \in Requests |-> <<>>]

-----------------------------------------------------------------------------
(***************************************************************************)
(* Helpers                                                                 *)
(***************************************************************************)
Goto(r, place) == pc' = [pc EXCEPT ![r] = place]

\* The request returns; its finally block forgets the controller.
Return(r) ==
  /\ Goto(r, "done")
  /\ controllers' = controllers \ {r}
  /\ aborted' = aborted \ {r}
  /\ multiline' = [multiline EXCEPT ![r] = FALSE]
  /\ source' = [source EXCEPT ![r] = None]
  /\ taken' = [taken EXCEPT ![r] = 0]
  /\ typed' = [typed EXCEPT ![r] = <<>>]
  /\ received' = [received EXCEPT ![r] = <<>>]

\* shouldReuseExistingGenerator
ReuseLonger(p) ==
  /\ current # None /\ prefix[current] # <<>>
  /\ Len(prefix[current]) <= Len(p)
CanReuse(p) == ReuseLonger(p) /\ IsPrefix(p, prefix[current] \o pending)

\* ListenableGenerator.cancel, of the current generator if there is one.
CancelCurrent ==
  IF current = None THEN isEnded ELSE [isEnded EXCEPT ![current] = TRUE]

\* Generator g notifies its listeners: the requests that wait in tee go on.
NobodyWakes(g) == pc
WakeReaders(g) ==
  [r \in Requests |->
     IF pc[r] = "waiting" /\ source[r] = g THEN "reading" ELSE pc[r]]

\* The loop of _start breaks at the next value.
NeverBroken(g) == FALSE
Broken(g) == isEnded[g]

HasMore(r) == taken[r] < Len(buffer[source[r]])
NextSlice(r) == <<buffer[source[r]][taken[r] + 1]>>
NextChunk(r) == buffer[source[r]][taken[r] + 1]

\* The next character is one that the user has typed in the meantime.
IsTyped(r) == typed[r] # <<>> /\ NextChunk(r) = Head(typed[r])

EndsLine(r) == NextChunk(r) = NewLine /\ ~multiline[r]

-----------------------------------------------------------------------------
(***************************************************************************)
(* A request up to its stream                                              *)
(***************************************************************************)
\* A request that comes with a signal of the IDE gets no controller.
Call(r, p) ==
  /\ pc[r] = "idle"
  /\ Goto(r, "called")
  /\ prefix' = [prefix EXCEPT ![r] = p]
  /\ controllers' = controllers \cup ({r} \ WithToken)
  /\ UNCHANGED <<multiline, debouncer, aborted, generators, reading>>

\* No model, a file that is excluded, a completion from the cache, an error.
ReturnEarly(r) ==
  /\ pc[r] \in {"called", "ready"}
  /\ Return(r)
  /\ UNCHANGED <<prefix, debouncer, generators>>

\* delayAndShouldDebounce: the timer of the request before is cleared, and
\* nothing will settle the promise that request awaits.
Debounce(r) ==
  /\ pc[r] = "called"
  /\ Goto(r, "debouncing")
  /\ latest' = r
  /\ timer' = r
  /\ UNCHANGED <<prefix, multiline, signals, generators, reading>>

\* A request made by hand does not wait.
SkipDebounce(r) ==
  /\ pc[r] = "called"
  /\ Goto(r, "ready")
  /\ UNCHANGED <<prefix, multiline, debouncer, signals, generators, reading>>

TimerFires(r) ==
  /\ timer = r
  /\ timer' = None
  /\ IF latest = r
     THEN /\ Goto(r, "ready") /\ latest' = None
          /\ UNCHANGED <<multiline, signals, reading>>
     ELSE Return(r) /\ UNCHANGED latest
  /\ UNCHANGED <<prefix, generators>>

\* getGenerator up to its loop: the current generator is reused or replaced.
Begin(r) ==
  /\ pc[r] = "ready"
  /\ Goto(r, "reading")
  /\ \E m \in BOOLEAN : multiline' = [multiline EXCEPT ![r] = m]
  /\ IF CanReuse(prefix[r])
     THEN /\ source' = [source EXCEPT ![r] = current]
          /\ typed' = [typed EXCEPT ![r] =
               SubSeq(prefix[r], Len(prefix[current]) + 1, Len(prefix[r]))]
          /\ UNCHANGED generators
     ELSE /\ source' = [source EXCEPT ![r] = r]
          /\ current' = r
          /\ pending' = <<>>
          /\ isEnded' = [CancelCurrent EXCEPT ![r] = FALSE]
          /\ settled' = [settled EXCEPT ![r] = FALSE]
          /\ UNCHANGED <<buffer, typed>>
  /\ UNCHANGED <<prefix, debouncer, signals, taken, received>>

-----------------------------------------------------------------------------
(***************************************************************************)
(* A request and its stream                                                *)
(***************************************************************************)
\* tee has nothing more to yield and the generator has not ended.
Wait(r) ==
  /\ pc[r] = "reading"
  /\ ~HasMore(r) /\ ~isEnded[source[r]]
  /\ Goto(r, "waiting")
  /\ UNCHANGED <<prefix, multiline, debouncer, signals, generators, reading>>

DropTyped(r) ==
  /\ pc[r] = "reading" /\ HasMore(r) /\ IsTyped(r)
  /\ taken' = [taken EXCEPT ![r] = @ + 1]
  /\ typed' = [typed EXCEPT ![r] = Tail(@)]
  /\ UNCHANGED <<pc, prefix, multiline, debouncer, signals, generators, source,
                 received>>

\* A chunk reaches the filters, unless the signal has been aborted.
Deliver(r) ==
  /\ pc[r] = "reading" /\ HasMore(r) /\ ~IsTyped(r) /\ ~EndsLine(r)
  /\ r \notin aborted
  /\ taken' = [taken EXCEPT ![r] = @ + 1]
  /\ received' = [received EXCEPT ![r] = Append(@, NextChunk(r))]
  /\ Goto(r, "filtering")
  /\ UNCHANGED <<prefix, multiline, debouncer, signals, generators, source, typed>>

\* The filters see the end of their input.
StopReading(r) ==
  /\ pc[r] = "reading"
  /\ \/ ~HasMore(r) /\ isEnded[source[r]]
     \/ HasMore(r) /\ ~IsTyped(r) /\ (EndsLine(r) \/ r \in aborted)
  /\ Goto(r, "closing")
  /\ UNCHANGED <<prefix, multiline, debouncer, signals, generators, reading>>

\* The character filters let it through, or end the input of the line filters.
Filter(r) ==
  /\ pc[r] = "filtering"
  /\ Goto(r, "reading") \/ Goto(r, "closing")
  /\ UNCHANGED <<prefix, multiline, debouncer, signals, generators, reading>>

\* A line filter ends the stream, or the last line has gone through all.
Complete(r) ==
  /\ pc[r] \in {"filtering", "closing"}
  /\ Return(r)
  /\ UNCHANGED <<prefix, debouncer, generators>>

\* streamLines yields a line at its end, and what is left when the input ends.
HasLine(r) ==
  /\ received[r] # <<>>
  /\ (Last(received[r]) = NewLine) <=> (pc[r] = "filtering")

\* A line filter calls fullStop.  Most of them end the stream as well.
FullStop(r) ==
  /\ pc[r] \in {"filtering", "closing"} /\ HasLine(r)
  /\ isEnded' = CancelCurrent
  /\ \/ Return(r)
     \/ /\ pc[r] = "filtering" /\ Goto(r, "reading")
        /\ UNCHANGED <<multiline, signals, reading>>
  /\ UNCHANGED <<prefix, debouncer, current, pending, buffer, settled>>

-----------------------------------------------------------------------------
(***************************************************************************)
(* The generators, and the editor                                          *)
(***************************************************************************)
\* _start takes a value from the model; after every tenth one the time the
\* model has taken is checked, and the current generator is cancelled.
Push(g) ==
  /\ ~settled[g] /\ ~Broken(g)
  /\ Len(buffer[g]) < MaxChunks
  /\ \E c \in Chars : /\ buffer' = [buffer EXCEPT ![g] = Append(@, c)]
                      /\ pending' = Append(pending, c)
  /\ pc' = WakeReaders(g)
  /\ UNCHANGED isEnded \/ isEnded' = CancelCurrent
  /\ UNCHANGED <<prefix, multiline, debouncer, signals, current, settled, reading>>

\* The model has finished, failed or been cancelled: the finally of _start.
Settle(g) ==
  /\ ~settled[g]
  /\ settled' = [settled EXCEPT ![g] = TRUE]
  /\ isEnded' = [isEnded EXCEPT ![g] = TRUE]
  /\ pc' = WakeReaders(g)
  /\ UNCHANGED <<prefix, multiline, debouncer, signals, current, pending, buffer,
                 reading>>

\* autocomplete/cancel
Cancel ==
  /\ controllers # {}
  /\ aborted' = aborted \cup controllers
  /\ controllers' = {}
  /\ UNCHANGED <<pc, prefix, multiline, debouncer, generators, reading>>

\* The IDE aborts the signal it has given to a request.
Abort(r) ==
  /\ r \in WithToken \ aborted
  /\ pc[r] \notin {"idle", "done"}
  /\ aborted' = aborted \cup {r}
  /\ UNCHANGED <<pc, prefix, multiline, debouncer, controllers, generators, reading>>

-----------------------------------------------------------------------------
RequestStep(r) ==
  \/ ReturnEarly(r) \/ Debounce(r) \/ SkipDebounce(r) \/ TimerFires(r) \/ Begin(r)
  \/ Wait(r) \/ DropTyped(r) \/ Deliver(r) \/ StopReading(r)
  \/ Filter(r) \/ Complete(r) \/ FullStop(r)

ModelStep(g) == Push(g) \/ Settle(g)

Next ==
  \/ \E r \in Requests, p \in Texts : Call(r, p)
  \/ \E r \in Requests : RequestStep(r) \/ ModelStep(r) \/ Abort(r)
  \/ Cancel

Spec == Init /\ [][Next]_vars

\* Promises are settled, timers fire, and a stream of the model ends.
Fairness == \A r \in Requests : WF_vars(RequestStep(r)) /\ WF_vars(ModelStep(r))

FairSpec == Spec /\ Fairness

-----------------------------------------------------------------------------
(***************************************************************************)
(* Properties                                                              *)
(***************************************************************************)
\* The text a generator was asked to continue, and what a request has taken.
Written(r) == prefix[source[r]] \o SubSeq(buffer[source[r]], 1, taken[r])

\* What the user has typed and what the filters have received is, put
\* together, what the model wrote for the text it was asked to continue: a
\* suggestion taken from the stream of an earlier request still fits.
ContinuesTyped ==
  \A r \in Requests : pc[r] \in Streaming =>
    IF typed[r] = <<>> THEN Written(r) = prefix[r] \o received[r]
                       ELSE Written(r) \o typed[r] = prefix[r] /\ received[r] = <<>>

\* The text that decides on reuse is what the current generator has produced:
\* no listener of an earlier one writes into it.
PendingIsCurrent == current # None => pending = buffer[current]

\* A request comes to an end unless a newer one has taken its place in the
\* debouncer, which never answers it.
RequestsEnd ==
  \A r \in Requests :
    pc[r] \notin {"idle", "done"}
      ~> (pc[r] = "done" \/ (pc[r] = "debouncing" /\ latest # r))

-----------------------------------------------------------------------------
(***************************************************************************)
(* Claims of the comments                                                  *)
(***************************************************************************)
\* "Full stop means to stop the LLM's generation, instead of just truncating
\* the displayed completion": the generation it stops is the one it has read.
FullStopIsOwn ==
  [][\A r \in Requests : FullStop(r) =>
       \A g \in Requests : isEnded'[g] # isEnded[g] => g = source[r]]_vars
=============================================================================
