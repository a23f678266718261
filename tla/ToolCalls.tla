------------------------------ MODULE ToolCalls ------------------------------
(***************************************************************************)
(* The conversation of the chat view (gui/src/redux): the streams of the   *)
(* model (streamNormalInput), the tool calls of its messages               *)
(* (callToolById) and what continues the conversation when a call has its  *)
(* result (streamResponseAfterToolCall).                                   *)
(*                                                                         *)
(* Each thunk runs without a break from one await to the next: that is one *)
(* action here.  Of a message the model keeps its role, whether it has     *)
(* text, and its tool calls; thinking, rules, usage and the saving of the  *)
(* session are left out, and so are edit mode, loading another session,    *)
(* editing an earlier message and killing a terminal command.              *)
(***************************************************************************)
EXTENDS Integers, Sequences, FiniteSets

CONSTANTS MaxToolCalls, MaxStreams,   \* bounds on calls and streams made
          MaxSilent,                  \* bound on empty answers of the model
          MaxSubmits, MaxStops,       \* bounds on what the user does
          Setups    \* what may be true of user and settings: a set of
                    \* subsets of Habits

ASSUME ToolCallsAssumption ==
  /\ {MaxToolCalls, MaxStreams, MaxSilent, MaxSubmits, MaxStops} \subseteq Nat
  /\ Setups \subseteq SUBSET {"keys", "early", "hasty", "goOn"}

VARIABLES
  history,      \* the messages
  isStreaming,
  epoch,        \* how often streamAborter has been aborted and replaced
  status,       \* of each tool call
  kind,         \* "edit", "readonly" (built in) or "other"
  verdict,      \* the policy evaluated for it
  runs,         \* how often callToolById has run it, for the properties
  autoRan,      \* calls run without the user, for the properties
  thread,       \* its callToolById
  kid,          \* the stream that callToolById has awaited, or 0
  applying,     \* edit calls whose diff is open in the editor
  pc,           \* of each stream
  signal,       \* the epoch of the abort controller it has captured
  inputIndex,   \* where the user message of a submitted stream belongs
  original,     \* originalToolCalls
  asked,        \* calls it awaits, or has still to go through
  heir,         \* the stream that its loop has awaited, or 0
  spoken,       \* streams that have had an answer, and how many ended without
  silent,
  started,      \* streams started
  made,         \* tool calls made
  submits, stops,
  mishap,       \* whether the user has stopped a stream or a request has
                \* failed, for the properties
  setup         \* "keys": uses the shortcuts for tool calls while streaming;
                \* "early": stops a stream while its context is gathered;
                \* "hasty": sends a message while a thunk of the last one runs;
                \* "goOn": continueAfterToolRejection

callVars == <<status, kind, verdict, runs, autoRan, thread, applying>>
streamVars == <<pc, signal, inputIndex, original, asked, heir>>
userVars == <<submits, stops, setup>>
counters == <<made, spoken, silent>>
toolVars == <<history, isStreaming, epoch, callVars, kid, streamVars, started,
              counters, userVars, mishap>>

ToolCallIds == 1..MaxToolCalls
Streams == 1..MaxStreams
Statuses == {"none", "generating", "generated", "calling", "done", "errored",
             "canceled"}
Kinds == {"edit", "readonly", "other"}
Policies == {"run", "ask", "off"}   \* allowedWithoutPermission,
                                    \* allowedWithPermission, disabled
Points == {"none", "resolving", "compile", "reading", "preprocess", "policy",
           "executing", "executingSome", "loop", "over"}
Items == [role : {"user", "assistant", "tool"}, calls : SUBSET ToolCallIds,
          text : BOOLEAN]

ToolsTypeOK ==
  /\ history \in Seq(Items) /\ isStreaming \in BOOLEAN /\ epoch \in Nat
  /\ status \in [ToolCallIds -> Statuses]
  /\ kind \in [ToolCallIds -> Kinds]
  /\ verdict \in [ToolCallIds -> Policies \cup {"none"}]
  /\ runs \in [ToolCallIds -> Nat]
  /\ autoRan \subseteq ToolCallIds /\ applying \subseteq ToolCallIds
  /\ thread \in [ToolCallIds -> {"none", "running", "ended"}]
  /\ kid \in [ToolCallIds -> Streams \cup {0}]
  /\ pc \in [Streams -> Points]
  /\ signal \in [Streams -> 0..epoch]
  /\ inputIndex \in [Streams -> Nat]
  /\ original \in [Streams -> SUBSET ToolCallIds]
  /\ asked \in [Streams -> SUBSET ToolCallIds]
  /\ heir \in [Streams -> Streams \cup {0}]
  /\ spoken \subseteq Streams /\ silent \in 0..MaxSilent
  /\ started \in 0..MaxStreams /\ made \in 0..MaxToolCalls
  /\ submits \in 0..MaxSubmits /\ stops \in 0..MaxStops
  /\ mishap \in BOOLEAN /\ setup \in Setups

ToolsInit ==
  /\ history = <<>> /\ isStreaming = FALSE /\ epoch = 0
  /\ status = [c \in ToolCallIds |-> "none"]
  /\ kind = [c \in ToolCallIds |-> "other"]
  /\ verdict = [c \in ToolCallIds |-> "none"]
  /\ runs = [c \in ToolCallIds |-> 0]
  /\ autoRan = {} /\ applying = {}
  /\ thread = [c \in ToolCallIds |-> "none"]
  /\ kid = [c \in ToolCallIds |-> 0]
  /\ pc = [s \in Streams |-> "none"]
  /\ signal = [s \in Streams |-> 0]
  /\ inputIndex = [s \in Streams |-> 0]
  /\ original = [s \in Streams |-> {}]
  /\ asked = [s \in Streams |-> {}]
  /\ heir = [s \in Streams |-> 0]
  /\ spoken = {} /\ silent = 0
  /\ started = 0 /\ made = 0 /\ submits = 0 /\ stops = 0
  /\ mishap = FALSE /\ setup \in Setups

-----------------------------------------------------------------------------
(***************************************************************************)
(* The messages                                                            *)
(***************************************************************************)
UserMessage == [role |-> "user", calls |-> {}, text |-> TRUE]
EmptyAnswer == [role |-> "assistant", calls |-> {}, text |-> FALSE]
FunctionMessage(c) == [role |-> "function", calls |-> {c}, text |-> TRUE]
ToolMessage(c) == [role |-> "tool", calls |-> {c}, text |-> TRUE]

LastOf(S) == CHOOSE i \in S : \A j \in S : j <= i
FirstOf(S) == CHOOSE i \in S : \A j \in S : i <= j

Answers == {i \in DOMAIN history : history[i].role = "assistant"}
CallingAnswers == {i \in Answers : history[i].calls # {}}

\* findAllCurToolCalls: the calls of the last answer that has any, unless a
\* user message or, below a later answer, a tool message comes after it.
CurrentCalls ==
  IF CallingAnswers = {} THEN {}
  ELSE LET i == LastOf(CallingAnswers)
           after == {j \in DOMAIN history : j > i}
       IN IF \E j \in after : \/ history[j].role = "user"
                              \/ /\ history[j].role = "tool"
                                 /\ \E k \in Answers : k > j
          THEN {} ELSE history[i].calls

\* findToolCallById
Known(c) == \E i \in CallingAnswers : c \in history[i].calls

Pending(st) == {c \in CurrentCalls : st[c] = "generated"}

\* areAllToolsDoneStreaming
FinishedOrCalling == {"done", "errored", "calling"}
FinishedByResult == {"done"}
FinishedStatuses ==
  {"done", "errored"} \cup (IF "goOn" \in setup THEN {"canceled"} ELSE {})
AllToolsDone(st) == \A c \in CurrentCalls : st[c] \in FinishedStatuses

\* clearDanglingMessages, by the index of the last message it keeps
LastInput == {i \in DOMAIN history : history[i].role \in {"user", "tool"}}
ValidAnswers ==
  {i \in DOMAIN history :
     /\ \A j \in LastInput : j < i
     /\ \/ history[i].text
        \/ \E c \in history[i].calls : status[c] # "generating"}

Cleared ==
  IF Len(history) < 2 \/ LastInput = {} THEN history
  ELSE IF ValidAnswers # {} THEN SubSeq(history, 1, LastOf(ValidAnswers))
  ELSE LET i == LastOf(LastInput)
       IN SubSeq(history, 1, IF history[i].role = "user" THEN i - 1 ELSE i)

ClearedStatus ==
  [c \in ToolCallIds |->
     IF /\ Len(history) >= 2 /\ ValidAnswers # {}
        /\ c \in history[LastOf(ValidAnswers)].calls
        /\ status[c] \in {"generating", "generated"}
     THEN "canceled" ELSE status[c]]

\* cancelStream
CancelStream ==
  /\ isStreaming' = FALSE
  /\ epoch' = epoch + 1
  /\ history' = Cleared
  /\ status' = ClearedStatus

-----------------------------------------------------------------------------
(***************************************************************************)
(* The steps of a stream between two awaits                                *)
(***************************************************************************)
\* streamAborter.signal.aborted || !isStreaming
Halted(s) == signal[s] < epoch \/ ~isStreaming

\* callToolById up to its await, for those of the calls C that are generated
Runnable(C, st) == {c \in C : st[c] = "generated"}

\* Its status from then on: setToolCallCalling comes before the await.
StillGenerated(c) == "generated"
NowCalling(c) == "calling"

CallTools(C, st) ==
  LET now == Runnable(C, st)
  IN /\ status' = [c \in ToolCallIds |->
                     IF c \in now THEN NowCalling(c) ELSE st[c]]
     /\ thread' = [c \in ToolCallIds |->
                     IF c \in now THEN "running" ELSE thread[c]]
     /\ runs' = [c \in ToolCallIds |->
                     IF c \in now THEN runs[c] + 1 ELSE runs[c]]

CallNone(st) == status' = st /\ UNCHANGED <<thread, runs>>

\* streamResponseAfterToolCall for call c, the statuses being st: the stream
\* that goes on, if one does
GoesOn(c, st) == c \in CurrentCalls /\ AllToolsDone(st)
Continuation(c, st) == IF GoesOn(c, st) THEN started + 1 ELSE 0

\* and what happens up to its first await; points is where streams are after it
AfterToolCall(c, st, points) ==
  LET t == Continuation(c, st)
  IN /\ history' = IF c \in CurrentCalls THEN Append(history, ToolMessage(c))
                   ELSE history
     /\ IF GoesOn(c, st)
        THEN /\ started < MaxStreams
             /\ started' = t
             /\ isStreaming' = TRUE
             /\ pc' = [points EXCEPT ![t] = "compile"]
             /\ signal' = [signal EXCEPT ![t] = epoch]
        ELSE pc' = points /\ UNCHANGED <<started, isStreaming, signal>>

\* The stream runs the calls C and awaits them.
RunCalls(s, C, st, p) ==
  /\ CallTools(C, st)
  /\ autoRan' = autoRan \cup Runnable(C, st)
  /\ pc' = [pc EXCEPT ![s] = p]
  /\ asked' = [asked EXCEPT ![s] = Runnable(C, st)]
  /\ UNCHANGED <<history, isStreaming, signal, heir, started>>

Return(s, st, streaming) ==
  /\ CallNone(st)
  /\ pc' = [pc EXCEPT ![s] = "over"]
  /\ isStreaming' = streaming
  /\ UNCHANGED <<history, autoRan, signal, asked, heir, started>>

\* One turn of the loop over originalToolCalls
LoopTurn(s, c, st, left) ==
  /\ AfterToolCall(c, st, [pc EXCEPT ![s] = "loop"])
  /\ asked' = [asked EXCEPT ![s] = left]
  /\ heir' = [heir EXCEPT ![s] = Continuation(c, st)]

\* Step 4, given originalToolCalls and the calls for which the policies are
\* to run them or to ask
Execute(s, st, orig, toRun, toAsk) ==
  LET readonly == {c \in toRun : kind[c] = "readonly"}
      pending == Pending(st)
  IN IF orig = {} \/ (toAsk # {} /\ readonly = {}) THEN Return(s, st, FALSE)
     ELSE IF Halted(s) THEN Return(s, st, isStreaming)
     ELSE IF toAsk # {} THEN RunCalls(s, readonly, st, "executingSome")
     ELSE IF pending # {} THEN RunCalls(s, pending, st, "executing")
     ELSE /\ CallNone(st)
          /\ UNCHANGED autoRan
          /\ LoopTurn(s, FirstOf(orig), st, orig \ {FirstOf(orig)})

\* Steps 1 and 2, from the end of the stream: generating calls are generated.
AfterStream(s, st) ==
  LET marked == [c \in ToolCallIds |->
                   IF c \in CurrentCalls /\ st[c] = "generating"
                   THEN "generated" ELSE st[c]]
  IN IF Halted(s)
     THEN Return(s, st, isStreaming) /\ UNCHANGED original
     ELSE /\ original' = [original EXCEPT ![s] = CurrentCalls]
          /\ IF Pending(marked) = {}
             THEN Execute(s, marked, CurrentCalls, {}, {})
             ELSE /\ CallNone(marked)
                  /\ pc' = [pc EXCEPT ![s] = "preprocess"]
                  /\ asked' = [asked EXCEPT ![s] = Pending(marked)]
                  /\ UNCHANGED <<history, isStreaming, autoRan, signal, heir,
                                 started>>

\* An error that the wrapper of the stream catches
Throw(s) ==
  /\ CancelStream
  /\ pc' = [pc EXCEPT ![s] = "over"]
  /\ mishap' = TRUE

-----------------------------------------------------------------------------
(***************************************************************************)
(* Streams                                                                 *)
(***************************************************************************)
\* resolveEditorContent has returned: the user message is put at its index,
\* and streamNormalInput starts.
Resolved(s) ==
  LET i == inputIndex[s]
  IN /\ pc[s] = "resolving"
     /\ history' = IF i \in DOMAIN history
                   THEN [history EXCEPT ![i].role = "user", ![i].text = TRUE]
                   ELSE IF i = 1 THEN <<UserMessage>> ELSE history
     /\ isStreaming' = TRUE
     /\ signal' = [signal EXCEPT ![s] = epoch]
     /\ pc' = [pc EXCEPT ![s] = "compile"]
     /\ UNCHANGED <<epoch, callVars, kid, inputIndex, original, asked, heir,
                    started, counters, userVars, mishap>>

\* llm/compileChat has returned.
Compiled(s) ==
  /\ pc[s] = "compile"
  /\ pc' = [pc EXCEPT ![s] = "reading"]
  /\ UNCHANGED <<history, isStreaming, epoch, callVars, kid, signal, inputIndex,
                 original, asked, heir, started, counters, userVars, mishap>>

StillStreaming(s) ==
  /\ pc[s] = "compile"
  /\ pc' = [pc EXCEPT ![s] = "over"]
  /\ mishap' = TRUE
  /\ UNCHANGED <<history, isStreaming, epoch, callVars, kid, signal, inputIndex,
                 original, asked, heir, started, counters, userVars>>

NotEnoughContext(s) ==
  /\ pc[s] = "compile"
  /\ pc' = [pc EXCEPT ![s] = "over"]
  /\ isStreaming' = FALSE
  /\ mishap' = TRUE
  /\ UNCHANGED <<history, epoch, callVars, kid, signal, inputIndex, original,
                 asked, heir, started, counters, userVars>>

\* The compilation, the stream, or a step that has no handler of its own fails.
StreamFails(s) ==
  /\ pc[s] \in {"resolving", "compile", "reading"}
  /\ Throw(s)
  /\ UNCHANGED <<kind, verdict, runs, autoRan, thread, applying, kid, signal,
                 inputIndex, original, asked, heir, started, counters, userVars>>

\* streamUpdate, of some text or of a tool call
Answered(item) ==
  IF history = <<>> THEN <<>>
  ELSE LET i == Len(history)
       IN IF history[i].role = "assistant"
          THEN [history EXCEPT ![i].calls = @ \cup item.calls,
                               ![i].text = @ \/ item.text]
          ELSE Append(history, item)

Text(s) ==
  /\ pc[s] = "reading" /\ isStreaming
  /\ history' = Answered([role |-> "assistant", calls |-> {}, text |-> TRUE])
  /\ spoken' = spoken \cup {s}
  /\ UNCHANGED <<isStreaming, epoch, callVars, kid, streamVars, started, made,
                 silent, userVars, mishap>>

ToolCallDelta(s, k) ==
  LET c == made + 1
  IN /\ pc[s] = "reading" /\ isStreaming
     /\ made < MaxToolCalls
     /\ history' = Answered([role |-> "assistant", calls |-> {c}, text |-> FALSE])
     /\ status' = [status EXCEPT ![c] = "generating"]
     /\ kind' = [kind EXCEPT ![c] = k]
     /\ made' = c
     /\ spoken' = spoken \cup {s}
     /\ UNCHANGED <<isStreaming, epoch, verdict, runs, autoRan, thread, applying,
                    kid, streamVars, started, silent, userVars, mishap>>

\* A chunk after the stream has been stopped: it is dropped.
StoppedRead(s) ==
  /\ pc[s] = "reading" /\ ~isStreaming
  /\ epoch' = epoch + 1
  /\ pc' = [pc EXCEPT ![s] = "over"]
  /\ UNCHANGED <<history, isStreaming, callVars, kid, signal, inputIndex,
                 original, asked, heir, started, counters, userVars, mishap>>

\* The bound on streams that end without an answer, each of which repeats the
\* loop over the calls before it
CountSilent(s) ==
  /\ silent' = IF s \in spoken THEN silent ELSE silent + 1
  /\ silent' <= MaxSilent

StreamEnds(s) ==
  /\ pc[s] = "reading"
  /\ CountSilent(s)
  /\ AfterStream(s, status)
  /\ UNCHANGED <<epoch, kind, verdict, applying, kid, inputIndex, made, spoken,
                 userVars, mishap>>

\* "premature close" while tool calls are streamed
PrematureClose(s) ==
  /\ pc[s] = "reading"
  /\ CurrentCalls # {}
  /\ CountSilent(s)
  /\ AfterStream(s, [c \in ToolCallIds |->
                       IF c \in CurrentCalls THEN "errored" ELSE status[c]])
  /\ UNCHANGED <<epoch, kind, verdict, applying, kid, inputIndex, made, spoken,
                 userVars, mishap>>

\* One answer to tools/preprocessArgs; the last one ends step 2.
Preprocessed(s, c, valid) ==
  LET st == IF valid THEN status ELSE [status EXCEPT ![c] = "errored"]
      next == Pending(st)
  IN /\ pc[s] = "preprocess" /\ c \in asked[s]
     /\ IF asked[s] # {c}
        THEN /\ CallNone(st)
             /\ asked' = [asked EXCEPT ![s] = @ \ {c}]
             /\ UNCHANGED <<history, isStreaming, autoRan, pc, signal, heir,
                            started>>
        ELSE IF Halted(s) THEN Return(s, st, isStreaming)
        ELSE IF next = {} THEN Execute(s, st, original[s], {}, {})
        ELSE /\ CallNone(st)
             /\ asked' = [asked EXCEPT ![s] = next]
             /\ pc' = [pc EXCEPT ![s] = "policy"]
             /\ UNCHANGED <<history, isStreaming, autoRan, signal, heir, started>>
     /\ UNCHANGED <<epoch, kind, verdict, applying, kid, inputIndex, original,
                    counters, userVars, mishap>>

\* evaluateToolPolicies has its answers: it marks the calls that are disabled;
\* edit tools are always allowed.
NothingRefused(C, policy) == {}
Refused(C, policy) == {c \in C : policy[c] = "off"}

PoliciesEvaluated(s, policy) ==
  LET of(p) == {c \in asked[s] : policy[c] = p}
      st == [c \in ToolCallIds |->
               IF c \in Refused(asked[s], policy) THEN "errored" ELSE status[c]]
  IN /\ pc[s] = "policy"
     /\ \A c \in asked[s] : kind[c] = "edit" => policy[c] = "run"
     /\ verdict' = [c \in ToolCallIds |->
                      IF c \in asked[s] THEN policy[c] ELSE verdict[c]]
     /\ Execute(s, st, original[s], of("run"), of("ask"))
     /\ UNCHANGED <<epoch, kind, applying, kid, inputIndex, original, counters,
                    userVars, mishap>>

CallOver(c) == thread[c] # "running" /\ (kid[c] # 0 => pc[kid[c]] = "over")

\* All the calls that it awaits have returned.
Executed(s) ==
  /\ pc[s] \in {"executing", "executingSome"}
  /\ \A c \in asked[s] : CallOver(c)
  /\ pc' = [pc EXCEPT ![s] = "over"]
  /\ isStreaming' = (isStreaming /\ pc[s] = "executing")
  /\ UNCHANGED <<history, epoch, callVars, kid, signal, inputIndex, original,
                 asked, heir, started, counters, userVars, mishap>>

\* The next turn of the loop, when the stream that the last one awaited has
\* ended
LoopStep(s) ==
  /\ pc[s] = "loop"
  /\ heir[s] # 0 => pc[heir[s]] = "over"
  /\ IF asked[s] = {}
     THEN /\ pc' = [pc EXCEPT ![s] = "over"]
          /\ UNCHANGED <<history, isStreaming, signal, asked, heir, started>>
     ELSE LET c == FirstOf(asked[s])
          IN LoopTurn(s, c, status, asked[s] \ {c})
  /\ UNCHANGED <<epoch, callVars, kid, inputIndex, original, counters, userVars,
                 mishap>>

-----------------------------------------------------------------------------
(***************************************************************************)
(* Tool calls                                                              *)
(***************************************************************************)
Settled(c, result) ==
  [status EXCEPT ![c] = IF Known(c) THEN result ELSE @]

\* callToolById has the result of the tool.
ToolReturns(c, result) ==
  LET st == Settled(c, result)
  IN /\ thread[c] = "running"
     /\ status' = st
     /\ thread' = [thread EXCEPT ![c] = "ended"]
     /\ AfterToolCall(c, st, pc)
     /\ kid' = [kid EXCEPT ![c] = Continuation(c, st)]
     /\ UNCHANGED <<epoch, kind, verdict, runs, autoRan, applying, inputIndex,
                    original, asked, heir, counters, userVars, mishap>>

\* An edit tool opens its diff and returns.
EditOpens(c) ==
  /\ thread[c] = "running" /\ kind[c] = "edit"
  /\ thread' = [thread EXCEPT ![c] = "ended"]
  /\ applying' = applying \cup {c}
  /\ isStreaming' = FALSE
  /\ UNCHANGED <<history, epoch, status, kind, verdict, runs, autoRan, kid,
                 streamVars, started, counters, userVars, mishap>>

\* handleApplyStateUpdate, closed: the diff is closed in the editor, or it could
\* not be applied, which applyForEditTool reports if the call is still calling.
EditCloses(c, failed) ==
  LET st == IF failed THEN Settled(c, "errored")
            ELSE IF status[c] = "errored" THEN status ELSE Settled(c, "done")
  IN /\ c \in applying
     /\ failed => status[c] = "calling"
     /\ applying' = applying \ {c}
     /\ IF status[c] = "canceled"
        THEN UNCHANGED <<history, isStreaming, status, pc, signal, started>>
        ELSE status' = st /\ AfterToolCall(c, st, pc)
     /\ UNCHANGED <<epoch, kind, verdict, runs, autoRan, thread, kid, inputIndex,
                    original, asked, heir, counters, userVars, mishap>>

\* The request tools/call fails: callToolById throws, and with it the stream
\* that awaits it, if there is one.
ToolRequestFails(c) ==
  /\ thread[c] = "running" /\ kind[c] # "edit"
  /\ thread' = [thread EXCEPT ![c] = "ended"]
  /\ kid' = [kid EXCEPT ![c] = 0]
  /\ mishap' = TRUE
  /\ \/ \E s \in Streams :
          /\ pc[s] \in {"executing", "executingSome"} /\ c \in asked[s]
          /\ Throw(s)
     \/ /\ \A s \in Streams :
             pc[s] \in {"executing", "executingSome"} => c \notin asked[s]
        /\ UNCHANGED <<history, isStreaming, epoch, status, pc>>
  /\ UNCHANGED <<kind, verdict, runs, autoRan, applying, signal, inputIndex,
                 original, asked, heir, started, counters, userVars>>

-----------------------------------------------------------------------------
(***************************************************************************)
(* The user                                                                *)
(***************************************************************************)
\* sendInput and streamResponse, up to resolveEditorContent
Submit ==
  /\ ~isStreaming
  /\ \/ "hasty" \in setup
     \/ /\ \A s \in Streams : pc[s] \in {"none", "over"}
        /\ \A c \in ToolCallIds : thread[c] # "running"
  /\ submits < MaxSubmits /\ started < MaxStreams
  /\ submits' = submits + 1
  /\ status' = [c \in ToolCallIds |->
                  IF c \in Pending(status) THEN "canceled" ELSE status[c]]
  /\ history' = history \o <<UserMessage, EmptyAnswer>>
  /\ isStreaming' = TRUE
  /\ started' = started + 1
  /\ pc' = [pc EXCEPT ![started + 1] = "resolving"]
  /\ inputIndex' = [inputIndex EXCEPT ![started + 1] = Len(history) + 1]
  /\ UNCHANGED <<epoch, kind, verdict, runs, autoRan, thread, applying, kid,
                 signal, original, asked, heir, counters, stops, mishap, setup>>

Stop ==
  /\ stops < MaxStops
  /\ "early" \in setup \/ \A s \in Streams : pc[s] # "resolving"
  /\ stops' = stops + 1
  /\ CancelStream
  /\ mishap' = TRUE
  /\ UNCHANGED <<kind, verdict, runs, autoRan, thread, applying, kid, streamVars,
                 started, counters, submits, setup>>

\* The buttons are there when nothing streams; the shortcuts act on the first
\* pending call, at any time.
FirstPending(c) == c \in Pending(status) /\ c = FirstOf(Pending(status))
OffersShortcut(c) == FirstPending(c) /\ ("keys" \in setup \/ ~isStreaming)
OffersButton(c) == c \in Pending(status) /\ ~isStreaming

Accept(c) ==
  /\ OffersButton(c) \/ OffersShortcut(c)
  /\ CallTools({c}, status)
  /\ UNCHANGED <<history, isStreaming, epoch, kind, verdict, autoRan, applying,
                 kid, streamVars, started, counters, userVars, mishap>>

\* cancelToolCallThunk
Reject(c) ==
  LET st == [status EXCEPT ![c] = "canceled"]
  IN /\ OffersButton(c)
     /\ status' = st
     /\ AfterToolCall(c, st, pc)
     /\ UNCHANGED <<epoch, kind, verdict, runs, autoRan, thread, applying, kid,
                    inputIndex, original, asked, heir, counters, userVars, mishap>>

\* The shortcut only cancels the call.
RejectByKey(c) ==
  /\ OffersShortcut(c)
  /\ status' = [status EXCEPT ![c] = "canceled"]
  /\ UNCHANGED <<history, isStreaming, epoch, kind, verdict, runs, autoRan,
                 thread, applying, kid, streamVars, started, counters, userVars,
                 mishap>>

-----------------------------------------------------------------------------
StreamStep(s) ==
  \/ Resolved(s) \/ Compiled(s) \/ NotEnoughContext(s) \/ StreamFails(s)
  \/ StoppedRead(s) \/ StreamEnds(s) \/ PrematureClose(s)
  \/ \E c \in ToolCallIds, valid \in BOOLEAN : Preprocessed(s, c, valid)
  \/ \E policy \in [asked[s] -> Policies] : PoliciesEvaluated(s, policy)
  \/ Executed(s) \/ LoopStep(s)

ToolStep(c) ==
  \/ \E result \in {"done", "errored"} : ToolReturns(c, result)
  \/ EditOpens(c)
  \/ ToolRequestFails(c)

ToolsNext ==
  \/ \E s \in Streams : StreamStep(s) \/ Text(s) \/ \E k \in Kinds : ToolCallDelta(s, k)
  \/ \E c \in ToolCallIds : ToolStep(c) \/ Accept(c) \/ Reject(c) \/ RejectByKey(c)
  \/ \E c \in ToolCallIds, failed \in BOOLEAN : EditCloses(c, failed)
  \/ Submit \/ Stop

ToolsProgress ==
  \/ \E s \in Streams : StreamStep(s)
  \/ \E c \in ToolCallIds : ToolStep(c)

\* While requests of streams and of tools are under way, one of them is answered
\* in the end, and the model stops talking; the user need not do anything.
ToolsFairness == WF_toolVars(ToolsProgress)

ToolsSpec == ToolsInit /\ [][ToolsNext]_toolVars
FairToolsSpec == ToolsSpec /\ ToolsFairness

-----------------------------------------------------------------------------
\* No tool runs twice for one call, whoever approves it (callToolById.ts:53,
\* setToolCallCalling before the first await).
RunsOnce == \A c \in ToolCallIds : runs[c] <= 1

\* A tool that runs without the user has been allowed to by its own policy,
\* even though the calls to run are read again after the policies are known
\* (streamNormalInput.ts:375).  A thunk that was stopped and still runs may
\* break that, so it is said of conversations that nobody stops.
RunsAsAllowed ==
  (setup \subseteq {"goOn"} /\ stops = 0) => \A c \in autoRan : verdict[c] = "run"

\* Two streams never answer at the same time: however the calls of a message
\* end, and in whichever order, one of them continues the conversation
\* (streamResponseAfterToolCall.ts:76).  Again, until somebody stops one.
Live(s) ==
  pc[s] \in {"compile", "reading", "preprocess", "policy"} /\ signal[s] = epoch
OneLiveStream ==
  (setup \subseteq {"goOn"} /\ stops = 0)
    => \A s, t \in Streams : Live(s) /\ Live(t) => s = t

\* When nothing is under way any more, nothing was stopped and no request
\* failed, the last message does not wait with all its calls finished: its
\* results have been given to the model.
Quiet ==
  /\ ~isStreaming /\ applying = {}
  /\ \A s \in Streams : pc[s] \in {"none", "over"}
  /\ \A c \in ToolCallIds : thread[c] # "running"
NothingHangs ==
  (setup \subseteq {"goOn"} /\ ~mishap /\ Quiet /\ CurrentCalls # {})
    => \E c \in CurrentCalls : status[c] \in {"generated", "canceled"}

\* The view never shows a stream for ever: every request that is answered
\* leads to the end of the stream or to a call that the user has to approve.
StreamSettles == setup \subseteq {"goOn"} => (isStreaming ~> ~isStreaming)
=============================================================================
