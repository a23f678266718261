--------------------------- MODULE ToolCalls_proofs ---------------------------
(***************************************************************************)
(* Theorems about ToolCalls, for any number of calls, streams, messages    *)
(* and stops: the types, that no tool runs twice for one call, that tools  *)
(* run as their policies allow, that two streams never answer at once, and *)
(* that finished calls never wait for nobody.                              *)
(***************************************************************************)
EXTENDS ToolCalls, WellFoundedInduction, TLAPS

\* Only a call that waits can be run, and it waits from when it is made until
\* it runs, ends or is canceled.
Waiting == {"generating", "generated"}

CallsTyped ==
  /\ status \in [ToolCallIds -> Statuses] /\ runs \in [ToolCallIds -> Nat]
  /\ made \in Nat

\* A call that waits has not run, and one that is still to be made neither
\* waits nor has run.
WaitsUnrun ==
  \A c \in ToolCallIds :
    /\ status[c] \in Waiting => runs[c] = 0
    /\ c > made => status[c] \notin Waiting /\ runs[c] = 0

CallsInv == CallsTyped /\ WaitsUnrun /\ RunsOnce

\* Statuses st in which no call waits that did not wait before
NoneRevived(st) ==
  /\ st \in [ToolCallIds -> Statuses]
  /\ \A c \in ToolCallIds : st[c] \in Waiting => status[c] \in Waiting

LEMMA CallsInit == ToolsInit => CallsInv
BY ToolCallsAssumption
   DEF ToolsInit, CallsInv, CallsTyped, WaitsUnrun, RunsOnce, Statuses, Waiting,
       ToolCallIds

LEMMA SameStatus == ASSUME CallsInv PROVE NoneRevived(status)
BY DEF NoneRevived, CallsInv, CallsTyped

LEMMA OneEnds ==
  ASSUME CallsInv, NEW c \in ToolCallIds, NEW r \in {"done", "errored", "canceled"}
  PROVE  NoneRevived([status EXCEPT ![c] = r])
BY DEF NoneRevived, CallsInv, CallsTyped, Statuses, Waiting

\* A step on the statuses that runs nothing
LEMMA NothingRuns ==
  ASSUME CallsInv, NoneRevived(status'), runs' = runs, made' = made
  PROVE  CallsInv'
BY DEF CallsInv, CallsTyped, WaitsUnrun, RunsOnce, NoneRevived

\* One that runs calls: they wait before it and not after it.
LEMMA CallToolsOnce ==
  ASSUME CallsInv, NEW C, NEW st, NoneRevived(st), CallTools(C, st), made' = made
  PROVE  CallsInv'
<1> DEFINE now == Runnable(C, st)
<1>1. /\ status' = [c \in ToolCallIds |->
                      IF c \in now THEN "calling" ELSE st[c]]
      /\ runs' = [c \in ToolCallIds |->
                    IF c \in now THEN runs[c] + 1 ELSE runs[c]]
  BY DEF CallTools, NowCalling
<1>2. \A c \in ToolCallIds :
        c \in now => status[c] \in Waiting /\ runs[c] = 0 /\ ~(c > made)
  BY DEF Runnable, NoneRevived, Waiting, CallsInv, WaitsUnrun
<1>3. CallsTyped'
  BY <1>1 DEF CallsInv, CallsTyped, NoneRevived, Statuses
<1>4. WaitsUnrun' /\ RunsOnce'
  <2>1. ASSUME NEW c \in ToolCallIds, c \in now
        PROVE  status'[c] \notin Waiting /\ runs'[c] = 1 /\ ~(c > made)
    BY <1>1, <1>2, <2>1 DEF Waiting
  <2>2. ASSUME NEW c \in ToolCallIds, c \notin now
        PROVE  status'[c] = st[c] /\ runs'[c] = runs[c]
    BY <1>1, <2>2
  <2>3. QED
    BY <2>1, <2>2 DEF CallsInv, WaitsUnrun, RunsOnce, NoneRevived
<1>5. QED
  BY <1>3, <1>4 DEF CallsInv

LEMMA CallNoneOnce ==
  ASSUME CallsInv, NEW st, NoneRevived(st), CallNone(st), made' = made
  PROVE  CallsInv'
BY NothingRuns DEF CallNone

-----------------------------------------------------------------------------
(***************************************************************************)
(* The steps of a stream                                                   *)
(***************************************************************************)
\* Whatever step 4 comes to, it runs some of the calls or none.
LEMMA ExecuteOnce ==
  ASSUME CallsInv, NEW s, NEW st, NoneRevived(st), made' = made,
         NEW orig, NEW toRun, NEW toAsk, Execute(s, st, orig, toRun, toAsk)
  PROVE  CallsInv'
<1>1. (\E C : CallTools(C, st)) \/ CallNone(st)
  BY Zenon DEF Execute, Return, RunCalls
<1>2. QED
  BY <1>1, CallToolsOnce, CallNoneOnce

LEMMA AfterStreamOnce ==
  ASSUME CallsInv, NEW s, NEW st, NoneRevived(st), made' = made, AfterStream(s, st)
  PROVE  CallsInv'
<1> DEFINE marked == [c \in ToolCallIds |->
                        IF c \in CurrentCalls /\ st[c] = "generating"
                        THEN "generated" ELSE st[c]]
<1>1. NoneRevived(marked)
  BY DEF NoneRevived, Statuses, Waiting
<1>2. \/ CallNone(st) \/ CallNone(marked)
      \/ Execute(s, marked, CurrentCalls, {}, {})
  BY Zenon DEF AfterStream, Return
<1>3. QED
  BY <1>1, <1>2, CallNoneOnce, ExecuteOnce

LEMMA PreprocessedOnce ==
  ASSUME CallsInv, NEW s, NEW c \in ToolCallIds, NEW valid \in BOOLEAN,
         Preprocessed(s, c, valid)
  PROVE  CallsInv'
<1> DEFINE st == IF valid THEN status ELSE [status EXCEPT ![c] = "errored"]
<1>1. NoneRevived(st)
  BY SameStatus, OneEnds
<1>2. (CallNone(st) \/ Execute(s, st, original[s], {}, {})) /\ made' = made
  BY Zenon DEF Preprocessed, Return, counters
<1> HIDE DEF st
<1>3. QED
  BY <1>1, <1>2, CallNoneOnce, ExecuteOnce

LEMMA PoliciesOnce ==
  ASSUME CallsInv, NEW s, NEW policy, PoliciesEvaluated(s, policy)
  PROVE  CallsInv'
<1> DEFINE st == [c \in ToolCallIds |->
                    IF c \in Refused(asked[s], policy) THEN "errored"
                    ELSE status[c]]
<1>1. NoneRevived(st)
  BY DEF NoneRevived, CallsInv, CallsTyped, Statuses, Waiting
<1>2. /\ \E toRun, toAsk : Execute(s, st, original[s], toRun, toAsk)
      /\ made' = made
  BY Zenon DEF PoliciesEvaluated, counters
<1> HIDE DEF st
<1>3. QED
  BY <1>1, <1>2, ExecuteOnce

\* cancelStream only cancels.
LEMMA CancelOnce ==
  ASSUME CallsInv, CancelStream, runs' = runs, made' = made
  PROVE  CallsInv'
<1>1. NoneRevived(ClearedStatus)
  BY DEF ClearedStatus, NoneRevived, CallsInv, CallsTyped, Statuses, Waiting
<1>2. QED
  BY <1>1, NothingRuns DEF CancelStream

LEMMA StreamStepOnce ==
  ASSUME CallsInv, NEW s \in Streams, StreamStep(s)
  PROVE  CallsInv'
<1>1. CASE Resolved(s) \/ Compiled(s) \/ NotEnoughContext(s) \/ StoppedRead(s)
           \/ Executed(s) \/ LoopStep(s)
  <2>1. UNCHANGED <<status, runs, made>>
    BY <1>1 DEF Resolved, Compiled, NotEnoughContext, StoppedRead, Executed,
                LoopStep, callVars, counters
  <2>2. QED
    BY <2>1, SameStatus, NothingRuns
<1>2. CASE StreamFails(s)
  BY <1>2, CancelOnce DEF StreamFails, Throw, counters
<1>3. CASE StreamEnds(s)
  BY <1>3, SameStatus, AfterStreamOnce DEF StreamEnds
<1>4. CASE PrematureClose(s)
  <2> DEFINE st == [c \in ToolCallIds |->
                      IF c \in CurrentCalls THEN "errored" ELSE status[c]]
  <2>1. NoneRevived(st)
    BY DEF NoneRevived, CallsInv, CallsTyped, Statuses, Waiting
  <2>2. AfterStream(s, st) /\ made' = made
    BY <1>4 DEF PrematureClose
  <2> HIDE DEF st
  <2>3. QED
    BY <2>1, <2>2, AfterStreamOnce
<1>5. CASE \E c \in ToolCallIds, valid \in BOOLEAN : Preprocessed(s, c, valid)
  BY <1>5, PreprocessedOnce
<1>6. CASE \E policy \in [asked[s] -> Policies] : PoliciesEvaluated(s, policy)
  BY <1>6, PoliciesOnce
<1>7. QED
  BY <1>1, <1>2, <1>3, <1>4, <1>5, <1>6 DEF StreamStep

\* The call that a stream receives is a new one.
LEMMA ToolCallDeltaOnce ==
  ASSUME CallsInv, NEW s \in Streams, NEW k \in Kinds, ToolCallDelta(s, k)
  PROVE  CallsInv'
<1>1. /\ made + 1 \in ToolCallIds /\ made' = made + 1 /\ runs' = runs
      /\ status' = [status EXCEPT ![made + 1] = "generating"]
  BY ToolCallsAssumption
     DEF ToolCallDelta, CallsInv, CallsTyped, ToolCallIds
<1>2. runs[made + 1] = 0
  BY <1>1 DEF CallsInv, CallsTyped, WaitsUnrun
<1>3. CallsTyped'
  BY <1>1 DEF CallsInv, CallsTyped, Statuses
<1>4. \A c \in ToolCallIds : c # made + 1 => status'[c] = status[c]
  BY <1>1 DEF CallsInv, CallsTyped
<1>5. WaitsUnrun' /\ RunsOnce'
  <2>1. ASSUME NEW c \in ToolCallIds, c > made'
        PROVE  status'[c] \notin Waiting /\ runs'[c] = 0
    BY <1>1, <1>4, <2>1 DEF CallsInv, CallsTyped, WaitsUnrun, ToolCallIds
  <2>2. ASSUME NEW c \in ToolCallIds, status'[c] \in Waiting
        PROVE  runs'[c] = 0
    BY <1>1, <1>2, <1>4, <2>2 DEF CallsInv, WaitsUnrun
  <2>3. QED
    BY <1>1, <2>1, <2>2 DEF WaitsUnrun, RunsOnce, CallsInv
<1>6. QED
  BY <1>3, <1>5 DEF CallsInv

-----------------------------------------------------------------------------
(***************************************************************************)
(* Tool calls and the user                                                 *)
(***************************************************************************)
LEMMA SettledOnce ==
  ASSUME CallsInv, NEW c \in ToolCallIds, NEW r \in {"done", "errored"}
  PROVE  NoneRevived(Settled(c, r))
BY DEF Settled, NoneRevived, CallsInv, CallsTyped, Statuses, Waiting

LEMMA ToolStepOnce ==
  ASSUME CallsInv, NEW c \in ToolCallIds, ToolStep(c)
  PROVE  CallsInv'
<1>1. ASSUME NEW r \in {"done", "errored"}, ToolReturns(c, r) PROVE CallsInv'
  BY <1>1, SettledOnce, NothingRuns DEF ToolReturns, counters
<1>2. CASE EditOpens(c)
  BY <1>2, SameStatus, NothingRuns DEF EditOpens, counters
<1>3. CASE ToolRequestFails(c)
  <2>1. runs' = runs /\ made' = made
    BY <1>3 DEF ToolRequestFails, counters
  <2>2. CancelStream \/ status' = status
    BY <1>3 DEF ToolRequestFails, Throw
  <2>3. QED
    BY <2>1, <2>2, CancelOnce, SameStatus, NothingRuns
<1>4. QED
  BY <1>1, <1>2, <1>3 DEF ToolStep

LEMMA EditClosesOnce ==
  ASSUME CallsInv, NEW c \in ToolCallIds, NEW failed \in BOOLEAN,
         EditCloses(c, failed)
  PROVE  CallsInv'
<1>1. /\ runs' = runs /\ made' = made
      /\ \/ status' = status
         \/ \E r \in {"done", "errored"} : status' = Settled(c, r)
  BY DEF EditCloses, counters
<1>2. QED
  BY <1>1, SettledOnce, SameStatus, NothingRuns

LEMMA UserOnce ==
  ASSUME CallsInv,
         \/ \E c \in ToolCallIds : Accept(c) \/ Reject(c) \/ RejectByKey(c)
         \/ Submit \/ Stop
  PROVE  CallsInv'
<1>1. ASSUME NEW c \in ToolCallIds, Accept(c) PROVE CallsInv'
  <2>1. CallTools({c}, status) /\ made' = made
    BY <1>1 DEF Accept, counters
  <2>2. QED
    BY <2>1, SameStatus, CallToolsOnce
<1>2. ASSUME NEW c \in ToolCallIds, Reject(c) \/ RejectByKey(c) PROVE CallsInv'
  <2>1. /\ runs' = runs /\ made' = made
        /\ status' = [status EXCEPT ![c] = "canceled"]
    BY <1>2 DEF Reject, RejectByKey, counters
  <2>2. QED
    BY <2>1, OneEnds, NothingRuns
<1>3. CASE Submit
  <2>1. NoneRevived(status')
    BY <1>3 DEF Submit, NoneRevived, CallsInv, CallsTyped, Statuses, Waiting
  <2>2. QED
    BY <1>3, <2>1, NothingRuns DEF Submit, counters
<1>4. CASE Stop
  BY <1>4, CancelOnce DEF Stop, counters
<1>5. QED
  BY <1>1, <1>2, <1>3, <1>4

LEMMA CallsNext ==
  ASSUME CallsInv, [ToolsNext]_toolVars
  PROVE  CallsInv'
<1>1. ASSUME NEW s \in Streams, Text(s) PROVE CallsInv'
  BY <1>1, SameStatus, NothingRuns DEF Text, callVars
<1>2. CASE UNCHANGED toolVars
  BY <1>2, SameStatus, NothingRuns DEF toolVars, callVars, counters
<1>3. QED
  BY <1>1, <1>2, StreamStepOnce, ToolCallDeltaOnce, ToolStepOnce, EditClosesOnce,
     UserOnce DEF ToolsNext

\* callToolById runs a call at most once, however many streams, buttons and
\* shortcuts reach it, with any of the habits that the chat view allows.
THEOREM RunsOnceHolds == ToolsSpec => []RunsOnce
<1>1. CallsInv => RunsOnce
  BY DEF CallsInv
<1>2. QED
  BY <1>1, CallsInit, CallsNext, PTL DEF ToolsSpec

-----------------------------------------------------------------------------
(***************************************************************************)
(* The messages                                                            *)
(***************************************************************************)
\* The operators of the model on the messages, of any sequence h of them
AnswersIn(h) == {i \in DOMAIN h : h[i].role = "assistant"}
CallingIn(h) == {i \in AnswersIn(h) : h[i].calls # {}}
InputsIn(h) == {i \in DOMAIN h : h[i].role \in {"user", "tool"}}

\* The answer whose calls are the current ones
Heads(h, i) ==
  /\ i \in CallingIn(h) /\ \A k \in CallingIn(h) : k <= i
  /\ \A j \in DOMAIN h : j > i =>
       /\ h[j].role # "user"
       /\ h[j].role = "tool" => \A k \in AnswersIn(h) : ~(k > j)
CurrentIn(h) == {c \in ToolCallIds : \E i \in DOMAIN h : Heads(h, i) /\ c \in h[i].calls}

LEMMA LeastOf ==
  ASSUME NEW S \in SUBSET Nat, S # {}
  PROVE  \E m \in S : \A x \in S : m <= x
<1> DEFINE Less == {ss \in Nat \X Nat : ss[1] < ss[2]}
<1>1. IsWellFoundedOn(Less, Nat)
  BY NatLessThanWellFounded DEF OpToRel
<1>2. \A x, y \in Nat : <<x, y>> \in Less <=> x < y
  OBVIOUS
<1> HIDE DEF Less
<1>3. PICK m \in S : \A x \in S : ~(<<x, m>> \in Less)
  BY <1>1, WFMin
<1>4. \A x \in S : x \in Nat /\ m \in Nat /\ ~(x < m)
  BY <1>2, <1>3
<1>5. QED
  BY <1>4

LEMMA FirstIn ==
  ASSUME NEW S \in SUBSET Nat, S # {}
  PROVE  FirstOf(S) \in S /\ \A x \in S : FirstOf(S) <= x
BY LeastOf DEF FirstOf

LEMMA LastIn ==
  ASSUME NEW S \in SUBSET Nat, S # {}, NEW n \in Nat, \A x \in S : x <= n
  PROVE  LastOf(S) \in S /\ \A x \in S : x <= LastOf(S)
<1> DEFINE T == {n - x : x \in S}
<1>1. \A x \in S : x \in Nat /\ n - x \in Nat
  OBVIOUS
<1>2. T \in SUBSET Nat /\ T # {}
  BY <1>1
<1>3. PICK m \in T : \A y \in T : m <= y
  BY <1>2, LeastOf
<1>4. PICK x \in S : m = n - x
  BY <1>3
<1>5. \A y \in S : y <= x
  <2> TAKE y \in S
  <2>1. n - y \in T
    OBVIOUS
  <2>2. m <= n - y
    BY <1>3, <2>1
  <2>3. QED
    BY <2>2, <1>1, <1>4
<1>6. QED
  BY <1>5 DEF LastOf

LEMMA Indices ==
  ASSUME NEW h \in Seq(Items)
  PROVE  /\ Len(h) \in Nat /\ DOMAIN h = 1..Len(h)
         /\ \A i \in DOMAIN h : h[i] \in Items /\ h[i].calls \subseteq ToolCallIds
<1>1. Len(h) \in Nat /\ DOMAIN h = 1..Len(h)
  OBVIOUS
<1>2. ASSUME NEW i \in 1..Len(h) PROVE h[i] \in Items
  OBVIOUS
<1>3. ASSUME NEW x \in Items PROVE x.calls \subseteq ToolCallIds
  BY DEF Items
<1>4. QED
  BY <1>1, <1>2, <1>3

LEMMA LastIndex ==
  ASSUME NEW h \in Seq(Items), NEW S \in SUBSET DOMAIN h, S # {}
  PROVE  LastOf(S) \in S /\ \A x \in S : x <= LastOf(S)
<1>1. S \in SUBSET Nat /\ Len(h) \in Nat /\ \A x \in S : x <= Len(h)
  BY Indices
<1>2. QED
  BY <1>1, LastIn

LEMMA SameOperators ==
  /\ Answers = AnswersIn(history) /\ CallingAnswers = CallingIn(history)
  /\ LastInput = InputsIn(history)
  /\ Answers' = AnswersIn(history') /\ CallingAnswers' = CallingIn(history')
  /\ LastInput' = InputsIn(history')
BY DEF Answers, CallingAnswers, LastInput, AnswersIn, CallingIn, InputsIn

LEMMA OneHeads ==
  ASSUME NEW h \in Seq(Items), NEW i, NEW k, Heads(h, i), Heads(h, k)
  PROVE  i = k
<1>1. i \in Nat /\ k \in Nat
  BY Indices DEF Heads, CallingIn, AnswersIn
<1>2. i <= k /\ k <= i
  BY DEF Heads
<1>3. QED
  BY <1>1, <1>2

\* CurrentCalls, without CHOOSE
LEMMA CurrentWithout ==
  ASSUME NEW h \in Seq(Items)
  PROVE  CurrentIn(h) =
           IF CallingIn(h) = {} THEN {}
           ELSE LET i == LastOf(CallingIn(h))
                    after == {j \in DOMAIN h : j > i}
                IN IF \E j \in after : \/ h[j].role = "user"
                                       \/ /\ h[j].role = "tool"
                                          /\ \E k \in AnswersIn(h) : k > j
                   THEN {} ELSE h[i].calls
<1>1. CASE CallingIn(h) = {}
  BY <1>1 DEF CurrentIn, Heads
<1>2. CASE CallingIn(h) # {}
  <2> DEFINE i == LastOf(CallingIn(h))
  <2>1. CallingIn(h) \in SUBSET DOMAIN h
    BY DEF CallingIn, AnswersIn
  <2>2. i \in CallingIn(h) /\ \A x \in CallingIn(h) : x <= i
    BY <1>2, <2>1, LastIndex
  <2>3. i \in DOMAIN h /\ h[i].calls \subseteq ToolCallIds
    BY <2>1, <2>2, Indices
  <2> HIDE DEF i
  <2>4. CASE \E j \in DOMAIN h : j > i /\ (\/ h[j].role = "user"
                                          \/ /\ h[j].role = "tool"
                                             /\ \E k \in AnswersIn(h) : k > j)
    <3>1. ASSUME NEW k, Heads(h, k) PROVE k = i
      <4>1. k \in Nat /\ i \in Nat /\ k \in CallingIn(h)
        BY <2>3, <3>1, Indices DEF Heads, CallingIn, AnswersIn
      <4>2. k <= i /\ i <= k
        BY <2>2, <3>1, <4>1 DEF Heads
      <4>3. QED
        BY <4>1, <4>2
    <3>2. ~Heads(h, i)
      BY <2>4 DEF Heads
    <3>3. CurrentIn(h) = {}
      BY <3>1, <3>2 DEF CurrentIn
    <3>4. QED
      BY <1>2, <2>4, <3>3 DEF i
  <2>5. CASE ~\E j \in DOMAIN h : j > i /\ (\/ h[j].role = "user"
                                           \/ /\ h[j].role = "tool"
                                              /\ \E k \in AnswersIn(h) : k > j)
    <3>1. Heads(h, i)
      BY <2>2, <2>5 DEF Heads
    <3>2. CurrentIn(h) = h[i].calls
      BY <2>3, <3>1, OneHeads DEF CurrentIn
    <3>3. QED
      BY <1>2, <2>5, <3>2 DEF i
  <2>6. QED
    BY <2>4, <2>5
<1>3. QED
  BY <1>1, <1>2

LEMMA CurrentSame ==
  ASSUME history \in Seq(Items)
  PROVE  CurrentCalls = CurrentIn(history)
BY CurrentWithout, SameOperators DEF CurrentCalls

LEMMA CurrentSameNext ==
  ASSUME history' \in Seq(Items)
  PROVE  CurrentCalls' = CurrentIn(history')
BY CurrentWithout, SameOperators DEF CurrentCalls

LEMMA CurrentTyped ==
  ASSUME history \in Seq(Items)
  PROVE  CurrentCalls \subseteq ToolCallIds
BY CurrentSame DEF CurrentIn

-----------------------------------------------------------------------------
(***************************************************************************)
(* Types                                                                   *)
(***************************************************************************)
LEMMA ItemTyped ==
  /\ UserMessage \in Items /\ EmptyAnswer \in Items
  /\ \A c \in ToolCallIds : ToolMessage(c) \in Items
  /\ \A C \in SUBSET ToolCallIds, b \in BOOLEAN :
       [role |-> "assistant", calls |-> C, text |-> b] \in Items
BY DEF UserMessage, EmptyAnswer, ToolMessage, Items

LEMMA ClearedTyped ==
  ASSUME history \in Seq(Items)
  PROVE  Cleared \in Seq(Items)
<1>1. Len(history) \in Nat /\ DOMAIN history = 1..Len(history)
  BY Indices
<1>2. ValidAnswers \in SUBSET DOMAIN history /\ LastInput \in SUBSET DOMAIN history
  BY DEF ValidAnswers, LastInput
<1>3. \A n \in 0..Len(history) : SubSeq(history, 1, n) \in Seq(Items)
  OBVIOUS
<1>4. CASE Len(history) < 2 \/ LastInput = {}
  BY <1>4 DEF Cleared
<1>5. CASE ~(Len(history) < 2 \/ LastInput = {}) /\ ValidAnswers # {}
  <2>1. LastOf(ValidAnswers) \in 0..Len(history)
    BY <1>1, <1>2, <1>5, LastIndex
  <2>2. Cleared = SubSeq(history, 1, LastOf(ValidAnswers))
    BY <1>5 DEF Cleared
  <2>3. QED
    BY <1>3, <2>1, <2>2
<1>6. CASE ~(Len(history) < 2 \/ LastInput = {}) /\ ValidAnswers = {}
  <2>1. LastOf(LastInput) \in 1..Len(history)
    BY <1>1, <1>2, <1>6, LastIndex
  <2>2. PICK n \in 0..Len(history) : Cleared = SubSeq(history, 1, n)
    BY <1>1, <1>6, <2>1 DEF Cleared
  <2>3. QED
    BY <1>3, <2>2
<1>7. QED
  BY <1>4, <1>5, <1>6

LEMMA ClearedStatusTyped ==
  ASSUME status \in [ToolCallIds -> Statuses]
  PROVE  ClearedStatus \in [ToolCallIds -> Statuses]
BY DEF ClearedStatus, Statuses

LEMMA MergedTyped ==
  ASSUME NEW x \in Items, NEW C \in SUBSET ToolCallIds, NEW b \in BOOLEAN
  PROVE  [x EXCEPT !.calls = @ \cup C, !.text = @ \/ b] \in Items
<1> DEFINE D == x.calls \cup C
           t == x.text \/ b
<1>1. D \in SUBSET ToolCallIds /\ t \in BOOLEAN
  BY DEF Items
<1>2. [x EXCEPT !.calls = @ \cup C, !.text = @ \/ b]
        = [x EXCEPT !.calls = D, !.text = t]
  BY DEF Items
<1>3. [x EXCEPT !.calls = D, !.text = t] \in Items
  <2> HIDE DEF D, t
  <2>1. QED
    BY <1>1 DEF Items
<1>4. QED
  BY <1>2, <1>3, Zenon

LEMMA AppendTyped ==
  ASSUME NEW h \in Seq(Items), NEW x \in Items
  PROVE  Append(h, x) \in Seq(Items)
OBVIOUS

LEMMA AnsweredTyped ==
  ASSUME history \in Seq(Items), NEW C \in SUBSET ToolCallIds, NEW b \in BOOLEAN
  PROVE  Answered([role |-> "assistant", calls |-> C, text |-> b]) \in Seq(Items)
<1> DEFINE item == [role |-> "assistant", calls |-> C, text |-> b]
           i == Len(history)
<1>1. item \in Items
  BY ItemTyped
<1>2. item.calls = C /\ item.text = b
  OBVIOUS
<1>3. CASE history = <<>>
  BY <1>3 DEF Answered
<1>4. CASE history # <<>> /\ history[i].role = "assistant"
  <2>1. i \in 1..Len(history) /\ history[i] \in Items
    BY <1>4, Indices
  <2> DEFINE new == [history[i] EXCEPT !.calls = @ \cup C, !.text = @ \/ b]
  <2>2. new \in Items
    BY <2>1, MergedTyped
  <2>3. Answered(item) = [history EXCEPT ![i] = new]
    BY <1>2, <1>4, <2>1 DEF Answered
  <2> HIDE DEF new
  <2>4. QED
    BY <2>1, <2>2, <2>3
<1>5. CASE history # <<>> /\ history[i].role # "assistant"
  <2>1. Answered(item) = Append(history, item)
    BY <1>5 DEF Answered
  <2>2. Append(history, item) \in Seq(Items)
    <3> HIDE DEF item
    <3>1. QED
      BY <1>1, AppendTyped
  <2>3. QED
    BY <2>1, <2>2, Zenon
<1>6. QED
  BY <1>3, <1>4, <1>5

\* What a continuation changes
AfterTyped ==
  /\ history' \in Seq(Items) /\ isStreaming' \in BOOLEAN
  /\ pc' \in [Streams -> Points] /\ signal' \in [Streams -> 0..epoch]
  /\ started' \in 0..MaxStreams

LEMMA AfterToolCallTyped ==
  ASSUME ToolsTypeOK, NEW c \in ToolCallIds, NEW st,
         NEW points \in [Streams -> Points], AfterToolCall(c, st, points)
  PROVE  AfterTyped /\ Continuation(c, st) \in Streams \cup {0}
<1>1. /\ history \in Seq(Items) /\ isStreaming \in BOOLEAN /\ epoch \in Nat
      /\ signal \in [Streams -> 0..epoch] /\ started \in 0..MaxStreams
      /\ MaxStreams \in Nat
  BY ToolCallsAssumption DEF ToolsTypeOK
<1>2. history' \in Seq(Items)
  <2>1. history' = history \/ history' = Append(history, ToolMessage(c))
    BY DEF AfterToolCall
  <2>2. ToolMessage(c) \in Items
    BY ItemTyped
  <2>3. QED
    BY <1>1, <2>1, <2>2
<1>3. CASE GoesOn(c, st)
  <2>1. /\ started < MaxStreams /\ started' = started + 1 /\ isStreaming' = TRUE
        /\ pc' = [points EXCEPT ![started + 1] = "compile"]
        /\ signal' = [signal EXCEPT ![started + 1] = epoch]
        /\ Continuation(c, st) = started + 1
    BY <1>3 DEF AfterToolCall, Continuation
  <2>2. started + 1 \in Streams
    BY <1>1, <2>1 DEF Streams
  <2>3. pc' \in [Streams -> Points]
    BY <2>1 DEF Points
  <2>4. signal' \in [Streams -> 0..epoch]
    <3>1. epoch \in 0..epoch
      BY <1>1
    <3> DEFINE E == 0..epoch
    <3> HIDE DEF E
    <3>2. signal \in [Streams -> E] /\ epoch \in E
      BY <1>1, <3>1 DEF E
    <3>3. signal' \in [Streams -> E]
      BY <2>1, <3>2
    <3>4. QED
      BY <3>3 DEF E
  <2>5. QED
    BY <1>1, <1>2, <2>1, <2>2, <2>3, <2>4 DEF AfterTyped
<1>4. CASE ~GoesOn(c, st)
  BY <1>1, <1>2, <1>4 DEF AfterToolCall, Continuation, AfterTyped
<1>5. QED
  BY <1>3, <1>4

\* What a step of a stream changes, its calls and itself
StepTyped ==
  /\ AfterTyped
  /\ status' \in [ToolCallIds -> Statuses]
  /\ thread' \in [ToolCallIds -> {"none", "running", "ended"}]
  /\ runs' \in [ToolCallIds -> Nat]
  /\ autoRan' \subseteq ToolCallIds
  /\ asked' \in [Streams -> SUBSET ToolCallIds]
  /\ heir' \in [Streams -> Streams \cup {0}]

LEMMA SameAfterTyped ==
  ASSUME ToolsTypeOK, UNCHANGED <<history, isStreaming, pc, signal, started>>
  PROVE  AfterTyped
BY DEF ToolsTypeOK, AfterTyped

LEMMA CallToolsTyped ==
  ASSUME ToolsTypeOK, NEW C, NEW st \in [ToolCallIds -> Statuses], CallTools(C, st)
  PROVE  /\ status' \in [ToolCallIds -> Statuses]
         /\ thread' \in [ToolCallIds -> {"none", "running", "ended"}]
         /\ runs' \in [ToolCallIds -> Nat]
BY DEF CallTools, NowCalling, ToolsTypeOK, Statuses

LEMMA CallNoneTyped ==
  ASSUME ToolsTypeOK, NEW st \in [ToolCallIds -> Statuses], CallNone(st)
  PROVE  /\ status' \in [ToolCallIds -> Statuses]
         /\ thread' \in [ToolCallIds -> {"none", "running", "ended"}]
         /\ runs' \in [ToolCallIds -> Nat]
BY DEF CallNone, ToolsTypeOK

LEMMA RunCallsTyped ==
  ASSUME ToolsTypeOK, NEW s \in Streams, NEW C \in SUBSET ToolCallIds,
         NEW st \in [ToolCallIds -> Statuses],
         NEW p \in Points, RunCalls(s, C, st, p)
  PROVE  StepTyped
<1>1. Runnable(C, st) \in SUBSET ToolCallIds
  BY DEF Runnable
<1>2. /\ autoRan' \subseteq ToolCallIds
      /\ asked' \in [Streams -> SUBSET ToolCallIds]
      /\ heir' \in [Streams -> Streams \cup {0}]
  BY <1>1 DEF RunCalls, ToolsTypeOK
<1>3. AfterTyped
  BY DEF RunCalls, ToolsTypeOK, AfterTyped
<1>4. QED
  BY <1>2, <1>3, CallToolsTyped DEF RunCalls, StepTyped

LEMMA ReturnTyped ==
  ASSUME ToolsTypeOK, NEW s \in Streams, NEW st \in [ToolCallIds -> Statuses],
         NEW streaming \in BOOLEAN, Return(s, st, streaming)
  PROVE  StepTyped
<1>1. AfterTyped
  BY DEF Return, ToolsTypeOK, AfterTyped, Points
<1>2. QED
  BY <1>1, CallNoneTyped DEF Return, ToolsTypeOK, StepTyped

LEMMA LoopTurnTyped ==
  ASSUME ToolsTypeOK, NEW s \in Streams, NEW c \in ToolCallIds, NEW st,
         NEW left \in SUBSET ToolCallIds, LoopTurn(s, c, st, left)
  PROVE  /\ AfterTyped /\ asked' \in [Streams -> SUBSET ToolCallIds]
         /\ heir' \in [Streams -> Streams \cup {0}]
<1>1. [pc EXCEPT ![s] = "loop"] \in [Streams -> Points]
  BY DEF ToolsTypeOK, Points
<1>2. AfterTyped /\ Continuation(c, st) \in Streams \cup {0}
  BY <1>1, AfterToolCallTyped DEF LoopTurn
<1>3. QED
  BY <1>2 DEF LoopTurn, ToolsTypeOK

LEMMA ExecuteTyped ==
  ASSUME ToolsTypeOK, NEW s \in Streams, NEW st \in [ToolCallIds -> Statuses],
         NEW orig \in SUBSET ToolCallIds, NEW toRun \in SUBSET ToolCallIds, NEW toAsk,
         Execute(s, st, orig, toRun, toAsk)
  PROVE  StepTyped
<1> DEFINE readonly == {c \in toRun : kind[c] = "readonly"}
           pending == Pending(st)
<1>1. /\ readonly \in SUBSET ToolCallIds /\ pending \in SUBSET ToolCallIds
      /\ isStreaming \in BOOLEAN
  BY CurrentTyped DEF Pending, ToolsTypeOK
<1>2. \/ Return(s, st, FALSE) \/ Return(s, st, isStreaming)
      \/ RunCalls(s, readonly, st, "executingSome")
      \/ RunCalls(s, pending, st, "executing")
      \/ /\ orig # {} /\ CallNone(st) /\ autoRan' = autoRan
         /\ LoopTurn(s, FirstOf(orig), st, orig \ {FirstOf(orig)})
  BY Zenon DEF Execute
<1> HIDE DEF readonly, pending
<1>3. CASE Return(s, st, FALSE) \/ Return(s, st, isStreaming)
  BY <1>1, <1>3, ReturnTyped
<1>4. CASE RunCalls(s, readonly, st, "executingSome")
  BY <1>1, <1>4, RunCallsTyped DEF Points
<1>5. CASE RunCalls(s, pending, st, "executing")
  BY <1>1, <1>5, RunCallsTyped DEF Points
<1>6. CASE /\ orig # {} /\ CallNone(st) /\ autoRan' = autoRan
           /\ LoopTurn(s, FirstOf(orig), st, orig \ {FirstOf(orig)})
  <2>1. orig \in SUBSET Nat
    BY DEF ToolCallIds
  <2>2. FirstOf(orig) \in ToolCallIds
    BY <1>6, <2>1, FirstIn
  <2>3. /\ AfterTyped /\ asked' \in [Streams -> SUBSET ToolCallIds]
        /\ heir' \in [Streams -> Streams \cup {0}]
    BY <1>6, <2>2, LoopTurnTyped
  <2>4. QED
    BY <1>6, <2>3, CallNoneTyped DEF StepTyped, ToolsTypeOK
<1>7. QED
  BY <1>2, <1>3, <1>4, <1>5, <1>6

LEMMA AfterStreamTyped ==
  ASSUME ToolsTypeOK, NEW s \in Streams, NEW st \in [ToolCallIds -> Statuses],
         AfterStream(s, st)
  PROVE  StepTyped /\ original' \in [Streams -> SUBSET ToolCallIds]
<1> DEFINE marked == [c \in ToolCallIds |->
                        IF c \in CurrentCalls /\ st[c] = "generating"
                        THEN "generated" ELSE st[c]]
<1>1. marked \in [ToolCallIds -> Statuses]
  BY DEF Statuses
<1>2. /\ CurrentCalls \in SUBSET ToolCallIds /\ isStreaming \in BOOLEAN
      /\ Pending(marked) \in SUBSET ToolCallIds
      /\ {} \in SUBSET ToolCallIds
  BY CurrentTyped DEF ToolsTypeOK, Pending
<1>3. \/ Return(s, st, isStreaming) /\ original' = original
      \/ /\ original' = [original EXCEPT ![s] = CurrentCalls]
         /\ \/ Execute(s, marked, CurrentCalls, {}, {})
            \/ /\ CallNone(marked) /\ pc' = [pc EXCEPT ![s] = "preprocess"]
               /\ asked' = [asked EXCEPT ![s] = Pending(marked)]
               /\ UNCHANGED <<history, isStreaming, autoRan, signal, heir, started>>
  BY Zenon DEF AfterStream
<1> HIDE DEF marked
<1>4. original' \in [Streams -> SUBSET ToolCallIds]
  BY <1>2, <1>3 DEF ToolsTypeOK
<1>5. CASE Return(s, st, isStreaming)
  BY <1>2, <1>4, <1>5, ReturnTyped
<1>6. CASE Execute(s, marked, CurrentCalls, {}, {})
  BY <1>1, <1>2, <1>4, <1>6, ExecuteTyped
<1>7. CASE /\ CallNone(marked) /\ pc' = [pc EXCEPT ![s] = "preprocess"]
           /\ asked' = [asked EXCEPT ![s] = Pending(marked)]
           /\ UNCHANGED <<history, isStreaming, autoRan, signal, heir, started>>
  <2>1. AfterTyped
    BY <1>7 DEF AfterTyped, ToolsTypeOK, Points
  <2>2. asked' \in [Streams -> SUBSET ToolCallIds]
    BY <1>2, <1>7 DEF ToolsTypeOK
  <2>3. QED
    BY <1>1, <1>4, <1>7, <2>1, <2>2, CallNoneTyped DEF StepTyped, ToolsTypeOK
<1>8. QED
  BY <1>3, <1>5, <1>6, <1>7

\* What the other variables are after a step that does not cancel
RestTyped ==
  /\ epoch' = epoch /\ kind' \in [ToolCallIds -> Kinds]
  /\ verdict' \in [ToolCallIds -> Policies \cup {"none"}]
  /\ applying' \subseteq ToolCallIds
  /\ kid' \in [ToolCallIds -> Streams \cup {0}]
  /\ inputIndex' \in [Streams -> Nat]
  /\ original' \in [Streams -> SUBSET ToolCallIds]
  /\ spoken' \subseteq Streams /\ silent' \in 0..MaxSilent
  /\ made' \in 0..MaxToolCalls
  /\ submits' \in 0..MaxSubmits /\ stops' \in 0..MaxStops
  /\ mishap' \in BOOLEAN /\ setup' \in Setups

LEMMA StepKeepsTypes ==
  ASSUME ToolsTypeOK, StepTyped, RestTyped
  PROVE  ToolsTypeOK'
BY DEF ToolsTypeOK, StepTyped, AfterTyped, RestTyped

LEMMA CountSilentTyped ==
  ASSUME ToolsTypeOK, NEW s, CountSilent(s)
  PROVE  silent' \in 0..MaxSilent
BY ToolCallsAssumption DEF CountSilent, ToolsTypeOK

\* cancelStream, whatever else the step does to streams and calls
LEMMA CancelTyped ==
  ASSUME ToolsTypeOK, CancelStream
  PROVE  /\ history' \in Seq(Items) /\ isStreaming' \in BOOLEAN /\ epoch' \in Nat
         /\ status' \in [ToolCallIds -> Statuses]
         /\ signal \in [Streams -> 0..epoch']
<1>1. epoch \in Nat /\ epoch' = epoch + 1 /\ isStreaming' = FALSE
  BY DEF CancelStream, ToolsTypeOK
<1>2. \A s \in Streams : signal[s] \in 0..epoch'
  BY <1>1 DEF ToolsTypeOK
<1>3. signal \in [Streams -> 0..epoch']
  BY <1>2 DEF ToolsTypeOK
<1>4. /\ Cleared \in Seq(Items) /\ ClearedStatus \in [ToolCallIds -> Statuses]
      /\ history' = Cleared /\ status' = ClearedStatus
  BY ClearedTyped, ClearedStatusTyped DEF CancelStream, ToolsTypeOK
<1>5. epoch' \in Nat /\ isStreaming' \in BOOLEAN
  <2>1. epoch' \in Nat
    BY <1>1
  <2>2. isStreaming' \in BOOLEAN
    BY <1>1, Zenon
  <2>3. QED
    BY <2>1, <2>2, Zenon
<1>6. /\ history' \in Seq(Items) /\ status' \in [ToolCallIds -> Statuses]
  BY <1>4, Zenon
<1>7. QED
  BY <1>3, <1>5, <1>6, Zenon

\* One that has an open end: the stream or the call that it is about.
LEMMA CancelKeepsTypes ==
  ASSUME ToolsTypeOK, CancelStream, pc' \in [Streams -> Points],
         mishap' = TRUE, stops' \in 0..MaxStops,
         thread' \in [ToolCallIds -> {"none", "running", "ended"}],
         kid' \in [ToolCallIds -> Streams \cup {0}],
         UNCHANGED <<kind, verdict, runs, autoRan, applying, signal, inputIndex,
                     original, asked, heir, started, counters, submits, setup>>
  PROVE  ToolsTypeOK'
<1>1. /\ history' \in Seq(Items) /\ isStreaming' \in BOOLEAN /\ epoch' \in Nat
      /\ status' \in [ToolCallIds -> Statuses]
      /\ signal' \in [Streams -> 0..epoch']
  BY CancelTyped
<1>2. QED
  BY <1>1 DEF ToolsTypeOK, counters

LEMMA SameRestTyped ==
  ASSUME ToolsTypeOK,
         UNCHANGED <<epoch, kind, applying, kid, inputIndex, counters, userVars,
                     mishap>>
  PROVE  /\ verdict' = verdict /\ original' = original => RestTyped
         /\ verdict' \in [ToolCallIds -> Policies \cup {"none"}]
              /\ original' = original => RestTyped
BY DEF ToolsTypeOK, RestTyped, counters, userVars

LEMMA StreamEndTyped ==
  ASSUME ToolsTypeOK, NEW s \in Streams, StreamEnds(s) \/ PrematureClose(s)
  PROVE  ToolsTypeOK'
<1> DEFINE st == [c \in ToolCallIds |->
                    IF c \in CurrentCalls THEN "errored" ELSE status[c]]
<1>1. /\ AfterStream(s, status) \/ AfterStream(s, st)
      /\ CountSilent(s)
      /\ UNCHANGED <<epoch, kind, verdict, applying, kid, inputIndex, made, spoken,
                     userVars, mishap>>
  BY DEF StreamEnds, PrematureClose
<1>2. /\ status \in [ToolCallIds -> Statuses]
      /\ st \in [ToolCallIds -> Statuses]
  BY DEF ToolsTypeOK, Statuses
<1>3. StepTyped /\ original' \in [Streams -> SUBSET ToolCallIds]
  <2> HIDE DEF st
  <2>1. QED
    BY <1>1, <1>2, AfterStreamTyped
<1>4. RestTyped
  BY <1>1, <1>3, CountSilentTyped DEF RestTyped, ToolsTypeOK, userVars
<1>5. QED
  BY <1>3, <1>4, StepKeepsTypes

LEMMA PreprocessedTyped ==
  ASSUME ToolsTypeOK, NEW s \in Streams, NEW c \in ToolCallIds, NEW valid \in BOOLEAN,
         Preprocessed(s, c, valid)
  PROVE  ToolsTypeOK'
<1> DEFINE st == IF valid THEN status ELSE [status EXCEPT ![c] = "errored"]
           next == Pending(st)
<1>1. st \in [ToolCallIds -> Statuses]
  BY DEF ToolsTypeOK, Statuses
<1>2. next \in SUBSET ToolCallIds /\ original[s] \in SUBSET ToolCallIds
      /\ isStreaming \in BOOLEAN /\ {} \in SUBSET ToolCallIds
  BY CurrentTyped DEF Pending, ToolsTypeOK
<1>3. \/ /\ CallNone(st) /\ asked' = [asked EXCEPT ![s] = @ \ {c}]
         /\ UNCHANGED <<history, isStreaming, autoRan, pc, signal, heir, started>>
      \/ Return(s, st, isStreaming)
      \/ Execute(s, st, original[s], {}, {})
      \/ /\ CallNone(st) /\ asked' = [asked EXCEPT ![s] = next]
         /\ pc' = [pc EXCEPT ![s] = "policy"]
         /\ UNCHANGED <<history, isStreaming, autoRan, signal, heir, started>>
  BY Zenon DEF Preprocessed
<1>4. RestTyped
  BY SameRestTyped DEF Preprocessed
<1> HIDE DEF st, next
<1>5. CASE Return(s, st, isStreaming) \/ Execute(s, st, original[s], {}, {})
  BY <1>1, <1>2, <1>4, <1>5, ReturnTyped, ExecuteTyped, StepKeepsTypes
<1>6. CASE /\ CallNone(st) /\ UNCHANGED <<history, isStreaming, autoRan, signal,
                                          heir, started>>
           /\ \/ asked' = [asked EXCEPT ![s] = @ \ {c}]
              \/ asked' = [asked EXCEPT ![s] = next]
           /\ pc' = pc \/ pc' = [pc EXCEPT ![s] = "policy"]
  <2>1. asked' \in [Streams -> SUBSET ToolCallIds]
    <3>1. /\ asked \in [Streams -> SUBSET ToolCallIds]
          /\ asked[s] \ {c} \in SUBSET ToolCallIds
      BY DEF ToolsTypeOK
    <3>2. CASE asked' = [asked EXCEPT ![s] = @ \ {c}]
      BY <3>1, <3>2
    <3>3. CASE asked' = [asked EXCEPT ![s] = next]
      BY <1>2, <3>1, <3>3
    <3>4. QED
      BY <1>6, <3>2, <3>3
  <2>2. AfterTyped
    BY <1>6 DEF AfterTyped, ToolsTypeOK, Points
  <2>3. StepTyped
    BY <1>1, <1>6, <2>1, <2>2, CallNoneTyped DEF StepTyped, ToolsTypeOK
  <2>4. QED
    BY <1>4, <2>3, StepKeepsTypes
<1>7. QED
  BY <1>3, <1>5, <1>6

LEMMA PoliciesTyped ==
  ASSUME ToolsTypeOK, NEW s \in Streams, NEW policy \in [asked[s] -> Policies],
         PoliciesEvaluated(s, policy)
  PROVE  ToolsTypeOK'
<1> DEFINE of(p) == {c \in asked[s] : policy[c] = p}
           st == [c \in ToolCallIds |->
                    IF c \in Refused(asked[s], policy) THEN "errored" ELSE status[c]]
<1>1. st \in [ToolCallIds -> Statuses]
  BY DEF ToolsTypeOK, Statuses
<1>2. of("run") \in SUBSET ToolCallIds /\ original[s] \in SUBSET ToolCallIds
  BY DEF ToolsTypeOK
<1>3. Execute(s, st, original[s], of("run"), of("ask"))
  BY Zenon DEF PoliciesEvaluated
<1>4. verdict' \in [ToolCallIds -> Policies \cup {"none"}]
  <2>1. \A c \in asked[s] : policy[c] \in Policies
    OBVIOUS
  <2>2. verdict' = [c \in ToolCallIds |->
                      IF c \in asked[s] THEN policy[c] ELSE verdict[c]]
    BY Zenon DEF PoliciesEvaluated
  <2>3. QED
    BY <2>1, <2>2 DEF ToolsTypeOK
<1>5. RestTyped
  BY <1>4, SameRestTyped DEF PoliciesEvaluated
<1> HIDE DEF st, of
<1>6. StepTyped
  BY <1>1, <1>2, <1>3, ExecuteTyped
<1>7. QED
  BY <1>5, <1>6, StepKeepsTypes

LEMMA StreamStepTyped ==
  ASSUME ToolsTypeOK, NEW s \in Streams, StreamStep(s)
  PROVE  ToolsTypeOK'
<1>1. CASE Resolved(s)
  <2> DEFINE i == inputIndex[s]
  <2>1. history' \in Seq(Items)
    <3>1. history \in Seq(Items) /\ i \in Nat /\ <<UserMessage>> \in Seq(Items)
      BY ItemTyped DEF ToolsTypeOK
    <3>2. CASE i \in DOMAIN history
      <4> DEFINE new == [history[i] EXCEPT !.role = "user", !.text = TRUE]
      <4>0. history[i] \in Items /\ i \in 1..Len(history)
        BY <3>1, <3>2, Indices
      <4>1. new \in Items /\ i \in 1..Len(history)
        <5>1. ASSUME NEW x \in Items PROVE [x EXCEPT !.role = "user", !.text = TRUE] \in Items
          BY DEF Items
        <5>2. QED
          BY <4>0, <5>1
      <4>2. history' = [history EXCEPT ![i] = new]
        BY <1>1, <3>2 DEF Resolved
      <4> HIDE DEF new
      <4>3. QED
        BY <3>1, <4>1, <4>2
    <3>3. CASE i \notin DOMAIN history
      BY <1>1, <3>1, <3>3 DEF Resolved
    <3>4. QED
      BY <3>2, <3>3
  <2>2. signal' \in [Streams -> 0..epoch'] /\ epoch' = epoch
    <3>1. epoch \in 0..epoch /\ signal \in [Streams -> 0..epoch]
      BY DEF ToolsTypeOK
    <3> DEFINE E == 0..epoch
    <3> HIDE DEF E
    <3>2. signal \in [Streams -> E] /\ epoch \in E
      BY <3>1 DEF E
    <3>3. signal' \in [Streams -> E]
      BY <1>1, <3>2 DEF Resolved
    <3>4. QED
      BY <1>1, <3>3 DEF E, Resolved
  <2>3. pc' \in [Streams -> Points] /\ isStreaming' \in BOOLEAN
    BY <1>1 DEF Resolved, ToolsTypeOK, Points
  <2>4. QED
    BY <1>1, <2>1, <2>2, <2>3 DEF Resolved, ToolsTypeOK, callVars, counters, userVars
<1>2. CASE Compiled(s) \/ NotEnoughContext(s)
  <2>1. pc' \in [Streams -> Points] /\ isStreaming' \in BOOLEAN /\ mishap' \in BOOLEAN
    BY <1>2 DEF Compiled, NotEnoughContext, ToolsTypeOK, Points
  <2>2. UNCHANGED <<history, epoch, callVars, kid, signal, inputIndex, original,
                    asked, heir, started, counters, userVars>>
    BY <1>2 DEF Compiled, NotEnoughContext
  <2>3. QED
    BY <2>1, <2>2 DEF ToolsTypeOK, callVars, counters, userVars
<1>3. CASE StreamFails(s)
  <2>1. pc' \in [Streams -> Points]
    BY <1>3 DEF StreamFails, Throw, ToolsTypeOK, Points
  <2>2. QED
    BY <1>3, <2>1, CancelKeepsTypes
       DEF StreamFails, Throw, ToolsTypeOK, userVars
<1>4. CASE StoppedRead(s)
  <2>1. \A t \in Streams : signal[t] \in 0..epoch + 1
    BY DEF ToolsTypeOK
  <2>2. signal' \in [Streams -> 0..epoch'] /\ epoch' \in Nat
    BY <1>4, <2>1 DEF StoppedRead, ToolsTypeOK
  <2>3. pc' \in [Streams -> Points]
    BY <1>4 DEF StoppedRead, ToolsTypeOK, Points
  <2>4. QED
    BY <1>4, <2>2, <2>3 DEF StoppedRead, ToolsTypeOK, callVars, counters, userVars
<1>5. CASE StreamEnds(s) \/ PrematureClose(s)
  BY <1>5, StreamEndTyped
<1>6. CASE \E c \in ToolCallIds, valid \in BOOLEAN : Preprocessed(s, c, valid)
  BY <1>6, PreprocessedTyped
<1>7. CASE \E policy \in [asked[s] -> Policies] : PoliciesEvaluated(s, policy)
  BY <1>7, PoliciesTyped
<1>8. CASE Executed(s)
  <2>1. pc' \in [Streams -> Points] /\ isStreaming' \in BOOLEAN
    BY <1>8 DEF Executed, ToolsTypeOK, Points
  <2>2. QED
    BY <1>8, <2>1 DEF Executed, ToolsTypeOK, callVars, counters, userVars
<1>9. CASE LoopStep(s)
  <2>1. RestTyped
    BY <1>9, SameRestTyped DEF LoopStep, callVars
  <2>2. /\ status' \in [ToolCallIds -> Statuses]
        /\ thread' \in [ToolCallIds -> {"none", "running", "ended"}]
        /\ runs' \in [ToolCallIds -> Nat] /\ autoRan' \subseteq ToolCallIds
    BY <1>9 DEF LoopStep, callVars, ToolsTypeOK
  <2>3. AfterTyped /\ asked' \in [Streams -> SUBSET ToolCallIds]
        /\ heir' \in [Streams -> Streams \cup {0}]
    <3>1. CASE asked[s] = {}
      BY <1>9, <3>1 DEF LoopStep, AfterTyped, ToolsTypeOK, Points
    <3>2. CASE asked[s] # {}
      <4>1. asked[s] \in SUBSET ToolCallIds /\ asked[s] \in SUBSET Nat
        BY DEF ToolsTypeOK, ToolCallIds
      <4>2. FirstOf(asked[s]) \in ToolCallIds
        BY <3>2, <4>1, FirstIn
      <4>3. LoopTurn(s, FirstOf(asked[s]), status, asked[s] \ {FirstOf(asked[s])})
        BY <1>9, <3>2 DEF LoopStep
      <4>4. asked[s] \ {FirstOf(asked[s])} \in SUBSET ToolCallIds
        BY <4>1
      <4>5. QED
        BY <4>2, <4>3, <4>4, LoopTurnTyped
    <3>3. QED
      BY <3>1, <3>2
  <2>4. QED
    BY <2>1, <2>2, <2>3, StepKeepsTypes DEF StepTyped
<1>10. QED
  BY <1>1, <1>2, <1>3, <1>4, <1>5, <1>6, <1>7, <1>8, <1>9 DEF StreamStep

LEMMA AnswerTyped ==
  ASSUME ToolsTypeOK, NEW s \in Streams,
         Text(s) \/ \E k \in Kinds : ToolCallDelta(s, k)
  PROVE  ToolsTypeOK'
<1>1. CASE Text(s)
  <2>1. history' \in Seq(Items)
    BY <1>1, AnsweredTyped DEF Text, ToolsTypeOK
  <2>2. spoken' \subseteq Streams
    BY <1>1 DEF Text, ToolsTypeOK
  <2>3. QED
    BY <1>1, <2>1, <2>2 DEF Text, ToolsTypeOK, callVars, streamVars, userVars
<1>2. ASSUME NEW k \in Kinds, ToolCallDelta(s, k) PROVE ToolsTypeOK'
  <2>1. made + 1 \in ToolCallIds /\ made + 1 \in 0..MaxToolCalls
    BY <1>2, ToolCallsAssumption DEF ToolCallDelta, ToolsTypeOK, ToolCallIds
  <2>2. history' \in Seq(Items)
    BY <1>2, <2>1, AnsweredTyped DEF ToolCallDelta, ToolsTypeOK
  <2>3. /\ spoken' \subseteq Streams /\ made' \in 0..MaxToolCalls
        /\ status' \in [ToolCallIds -> Statuses]
        /\ kind' \in [ToolCallIds -> Kinds]
    BY <1>2, <2>1 DEF ToolCallDelta, ToolsTypeOK, Statuses
  <2>4. QED
    BY <1>2, <2>2, <2>3 DEF ToolCallDelta, ToolsTypeOK, streamVars, userVars
<1>3. QED
  BY <1>1, <1>2

LEMMA SettledTyped ==
  ASSUME ToolsTypeOK, NEW c \in ToolCallIds, NEW r \in {"done", "errored"}
  PROVE  Settled(c, r) \in [ToolCallIds -> Statuses]
BY DEF Settled, ToolsTypeOK, Statuses

\* A step that gives one call its end, and lets the conversation continue
LEMMA ResultTyped ==
  ASSUME ToolsTypeOK, NEW c \in ToolCallIds, NEW st \in [ToolCallIds -> Statuses],
         AfterToolCall(c, st, pc), status' = st,
         thread' \in [ToolCallIds -> {"none", "running", "ended"}],
         applying' \subseteq ToolCallIds,
         kid' = kid \/ kid' = [kid EXCEPT ![c] = Continuation(c, st)],
         UNCHANGED <<epoch, kind, verdict, runs, autoRan, inputIndex, original,
                     asked, heir, counters, userVars, mishap>>
  PROVE  ToolsTypeOK'
<1>1. AfterTyped /\ Continuation(c, st) \in Streams \cup {0}
  BY AfterToolCallTyped DEF ToolsTypeOK
<1>2. kid' \in [ToolCallIds -> Streams \cup {0}]
  BY <1>1 DEF ToolsTypeOK
<1>3. QED
  BY <1>1, <1>2 DEF AfterTyped, ToolsTypeOK, counters, userVars

LEMMA ToolStepTyped ==
  ASSUME ToolsTypeOK, NEW c \in ToolCallIds, ToolStep(c)
  PROVE  ToolsTypeOK'
<1>1. ASSUME NEW r \in {"done", "errored"}, ToolReturns(c, r) PROVE ToolsTypeOK'
  <2>1. /\ AfterToolCall(c, Settled(c, r), pc) /\ status' = Settled(c, r)
        /\ kid' = [kid EXCEPT ![c] = Continuation(c, Settled(c, r))]
        /\ UNCHANGED <<epoch, kind, verdict, runs, autoRan, applying, inputIndex,
                       original, asked, heir, counters, userVars, mishap>>
    BY <1>1 DEF ToolReturns
  <2>2. /\ thread' \in [ToolCallIds -> {"none", "running", "ended"}]
        /\ applying' \subseteq ToolCallIds
    BY <1>1 DEF ToolReturns, ToolsTypeOK
  <2>3. QED
    BY <2>1, <2>2, SettledTyped, ResultTyped
<1>2. CASE EditOpens(c)
  <2>1. /\ thread' \in [ToolCallIds -> {"none", "running", "ended"}]
        /\ applying' \subseteq ToolCallIds /\ isStreaming' \in BOOLEAN
    BY <1>2 DEF EditOpens, ToolsTypeOK
  <2>2. QED
    BY <1>2, <2>1 DEF EditOpens, ToolsTypeOK, streamVars, counters, userVars
<1>3. CASE ToolRequestFails(c)
  <2>1. /\ thread' \in [ToolCallIds -> {"none", "running", "ended"}]
        /\ kid' \in [ToolCallIds -> Streams \cup {0}] /\ mishap' = TRUE
        /\ UNCHANGED <<kind, verdict, runs, autoRan, applying, signal, inputIndex,
                       original, asked, heir, started, counters, userVars>>
    BY <1>3 DEF ToolRequestFails, ToolsTypeOK
  <2>2. CASE \E s \in Streams : Throw(s)
    <3>1. CancelStream /\ pc' \in [Streams -> Points]
      BY <2>2 DEF Throw, ToolsTypeOK, Points
    <3>2. QED
      BY <2>1, <3>1, CancelKeepsTypes DEF userVars, ToolsTypeOK
  <2>3. CASE UNCHANGED <<history, isStreaming, epoch, status, pc>>
    BY <2>1, <2>3 DEF ToolsTypeOK, counters, userVars
  <2>4. QED
    BY <1>3, <2>2, <2>3 DEF ToolRequestFails
<1>4. QED
  BY <1>1, <1>2, <1>3 DEF ToolStep

LEMMA EditClosesTyped ==
  ASSUME ToolsTypeOK, NEW c \in ToolCallIds, NEW failed \in BOOLEAN,
         EditCloses(c, failed)
  PROVE  ToolsTypeOK'
<1> DEFINE st == IF failed THEN Settled(c, "errored")
                 ELSE IF status[c] = "errored" THEN status ELSE Settled(c, "done")
<1>1. st \in [ToolCallIds -> Statuses]
  BY SettledTyped DEF ToolsTypeOK
<1>2. /\ applying' \subseteq ToolCallIds
      /\ thread' \in [ToolCallIds -> {"none", "running", "ended"}]
      /\ UNCHANGED <<epoch, kind, verdict, runs, autoRan, thread, kid, inputIndex,
                     original, asked, heir, counters, userVars, mishap>>
  BY DEF EditCloses, ToolsTypeOK
<1>3. \/ UNCHANGED <<history, isStreaming, status, pc, signal, started>>
      \/ status' = st /\ AfterToolCall(c, st, pc)
  BY DEF EditCloses
<1> HIDE DEF st
<1>4. CASE UNCHANGED <<history, isStreaming, status, pc, signal, started>>
  BY <1>2, <1>4 DEF ToolsTypeOK, counters, userVars
<1>5. CASE status' = st /\ AfterToolCall(c, st, pc)
  BY <1>1, <1>2, <1>5, ResultTyped
<1>6. QED
  BY <1>3, <1>4, <1>5

LEMMA UserTyped ==
  ASSUME ToolsTypeOK,
         \/ \E c \in ToolCallIds : Accept(c) \/ Reject(c) \/ RejectByKey(c)
         \/ Submit \/ Stop
  PROVE  ToolsTypeOK'
<1>1. ASSUME NEW c \in ToolCallIds, Accept(c) PROVE ToolsTypeOK'
  <2>1. /\ status' \in [ToolCallIds -> Statuses]
        /\ thread' \in [ToolCallIds -> {"none", "running", "ended"}]
        /\ runs' \in [ToolCallIds -> Nat]
    BY <1>1, CallToolsTyped DEF Accept, ToolsTypeOK
  <2>2. QED
    BY <1>1, <2>1 DEF Accept, ToolsTypeOK, streamVars, counters, userVars
<1>2. ASSUME NEW c \in ToolCallIds, Reject(c) PROVE ToolsTypeOK'
  <2> DEFINE st == [status EXCEPT ![c] = "canceled"]
  <2>1. st \in [ToolCallIds -> Statuses]
    BY DEF ToolsTypeOK, Statuses
  <2>2. /\ AfterToolCall(c, st, pc) /\ status' = st
        /\ UNCHANGED <<epoch, kind, verdict, runs, autoRan, thread, applying, kid,
                       inputIndex, original, asked, heir, counters, userVars, mishap>>
    BY <1>2 DEF Reject
  <2>3. /\ thread' \in [ToolCallIds -> {"none", "running", "ended"}]
        /\ applying' \subseteq ToolCallIds
    BY <2>2 DEF ToolsTypeOK
  <2> HIDE DEF st
  <2>4. QED
    BY <2>1, <2>2, <2>3, ResultTyped
<1>3. ASSUME NEW c \in ToolCallIds, RejectByKey(c) PROVE ToolsTypeOK'
  <2>1. status' \in [ToolCallIds -> Statuses]
    BY <1>3 DEF RejectByKey, ToolsTypeOK, Statuses
  <2>2. QED
    BY <1>3, <2>1 DEF RejectByKey, ToolsTypeOK, streamVars, counters, userVars
<1>4. CASE Submit
  <2>1. started' \in 0..MaxStreams /\ submits' \in 0..MaxSubmits /\ started' \in Streams
    BY <1>4, ToolCallsAssumption DEF Submit, ToolsTypeOK, Streams
  <2>2. history' \in Seq(Items) /\ isStreaming' \in BOOLEAN
    <3>1. <<UserMessage, EmptyAnswer>> \in Seq(Items)
      BY ItemTyped
    <3>2. history \in Seq(Items) /\ history' = history \o <<UserMessage, EmptyAnswer>>
          /\ isStreaming' = TRUE
      BY <1>4 DEF Submit, ToolsTypeOK
    <3>3. QED
      BY <3>1, <3>2
  <2>3. status' \in [ToolCallIds -> Statuses] /\ pc' \in [Streams -> Points]
    BY <1>4 DEF Submit, ToolsTypeOK, Statuses, Points
  <2>4. inputIndex' \in [Streams -> Nat]
    <3>1. Len(history) + 1 \in Nat
      BY DEF ToolsTypeOK
    <3>2. QED
      BY <1>4, <3>1 DEF Submit, ToolsTypeOK
  <2>5. QED
    BY <1>4, <2>1, <2>2, <2>3, <2>4 DEF Submit, ToolsTypeOK, counters
<1>5. CASE Stop
  <2>1. stops' \in 0..MaxStops
    BY <1>5, ToolCallsAssumption DEF Stop, ToolsTypeOK
  <2>2. QED
    BY <1>5, <2>1, CancelKeepsTypes DEF Stop, ToolsTypeOK, streamVars
<1>6. QED
  BY <1>1, <1>2, <1>3, <1>4, <1>5

LEMMA TypesInit == ToolsInit => ToolsTypeOK
<1> SUFFICES ASSUME ToolsInit PROVE ToolsTypeOK
  OBVIOUS
<1>0. <<>> \in Seq(Items) /\ FALSE \in BOOLEAN
  OBVIOUS
<1>1. /\ status \in [ToolCallIds -> Statuses] /\ kind \in [ToolCallIds -> Kinds]
      /\ verdict \in [ToolCallIds -> Policies \cup {"none"}]
      /\ runs \in [ToolCallIds -> Nat]
      /\ thread \in [ToolCallIds -> {"none", "running", "ended"}]
      /\ kid \in [ToolCallIds -> Streams \cup {0}]
  BY DEF ToolsInit, Statuses, Kinds, Policies
<1>2. /\ pc \in [Streams -> Points] /\ signal \in [Streams -> 0..epoch]
      /\ inputIndex \in [Streams -> Nat]
      /\ original \in [Streams -> SUBSET ToolCallIds]
      /\ asked \in [Streams -> SUBSET ToolCallIds]
      /\ heir \in [Streams -> Streams \cup {0}]
  BY DEF ToolsInit, Points
<1>3. /\ history = <<>> /\ isStreaming = FALSE /\ mishap = FALSE
      /\ epoch = 0 /\ autoRan = {} /\ applying = {} /\ spoken = {} /\ silent = 0
      /\ started = 0 /\ made = 0 /\ submits = 0 /\ stops = 0 /\ setup \in Setups
  BY DEF ToolsInit
<1>4. /\ silent \in 0..MaxSilent /\ started \in 0..MaxStreams /\ epoch \in Nat
      /\ made \in 0..MaxToolCalls /\ submits \in 0..MaxSubmits
      /\ stops \in 0..MaxStops
  BY <1>3, ToolCallsAssumption
<1>5. /\ autoRan \subseteq ToolCallIds /\ applying \subseteq ToolCallIds
      /\ spoken \subseteq Streams
  BY <1>3
<1>6. history \in Seq(Items) /\ isStreaming \in BOOLEAN /\ mishap \in BOOLEAN
  BY <1>0, <1>3, Zenon
<1>7. QED
  BY <1>1, <1>2, <1>3, <1>4, <1>5, <1>6 DEF ToolsTypeOK

LEMMA TypesNext == ASSUME ToolsTypeOK, [ToolsNext]_toolVars PROVE ToolsTypeOK'
<1>1. CASE UNCHANGED toolVars
  BY <1>1 DEF toolVars, ToolsTypeOK, callVars, streamVars, counters, userVars
<1>2. CASE ToolsNext
  BY <1>2, StreamStepTyped, AnswerTyped, ToolStepTyped, EditClosesTyped, UserTyped
     DEF ToolsNext
<1>3. QED
  BY <1>1, <1>2

\* Whatever streams, tools and the user do, the state of the conversation has
\* its types: among others, the messages stay messages when they are cut off
\* and streamed into, and no stream holds an abort signal that is yet to be.
THEOREM ToolsTypeCorrect == ToolsSpec => []ToolsTypeOK
BY TypesInit, TypesNext, PTL DEF ToolsSpec

-----------------------------------------------------------------------------
(***************************************************************************)
(* What is said to the model: the calls of the messages, as they change    *)
(***************************************************************************)
GivenIn(h) == {i \in CallingIn(h) : \E j \in InputsIn(h) : i < j}

\* The calls of the last answer that a message or a result follows
GivenCalls(h) ==
  {c \in ToolCallIds :
     \E i \in GivenIn(h) : c \in h[i].calls /\ \A k \in GivenIn(h) : k <= i}

\* Those of the answers that nothing follows yet
FreshCalls(h) ==
  {c \in ToolCallIds :
     \E i \in CallingIn(h) : c \in h[i].calls /\ \A j \in InputsIn(h) : j < i}

\* A result is the last thing that was said to the model.
ToolLast(h) ==
  \E k \in InputsIn(h) : h[k].role = "tool" /\ \A j \in InputsIn(h) : j <= k

LEMMA InDomain ==
  ASSUME NEW h \in Seq(Items)
  PROVE  /\ AnswersIn(h) \subseteq Nat /\ InputsIn(h) \subseteq Nat
         /\ CallingIn(h) \subseteq AnswersIn(h) /\ GivenIn(h) \subseteq CallingIn(h)
         /\ AnswersIn(h) \subseteq DOMAIN h /\ InputsIn(h) \subseteq DOMAIN h
         /\ \A i \in AnswersIn(h), j \in InputsIn(h) : i # j
BY Indices DEF AnswersIn, InputsIn, CallingIn, GivenIn

LEMMA HeadsCalls ==
  ASSUME NEW h \in Seq(Items), NEW i, Heads(h, i)
  PROVE  CurrentIn(h) = h[i].calls
<1>1. i \in DOMAIN h /\ h[i].calls \subseteq ToolCallIds
  BY Indices DEF Heads, CallingIn, AnswersIn
<1>2. QED
  BY <1>1, OneHeads DEF CurrentIn

LEMMA GivenLast ==
  ASSUME NEW h \in Seq(Items), NEW i \in GivenIn(h), \A k \in GivenIn(h) : k <= i
  PROVE  GivenCalls(h) = h[i].calls
<1>1. i \in Nat /\ h[i].calls \subseteq ToolCallIds /\ GivenIn(h) \subseteq Nat
  BY InDomain, Indices
<1>2. \A k \in GivenIn(h) : i <= k => k = i
  BY <1>1
<1>3. QED
  BY <1>1, <1>2 DEF GivenCalls

\* The current calls have been answered in part, or not at all.
LEMMA CurrentKinds ==
  ASSUME NEW h \in Seq(Items)
  PROVE  CurrentIn(h) \subseteq FreshCalls(h) \/ CurrentIn(h) = GivenCalls(h)
<1>1. CASE CurrentIn(h) = {}
  BY <1>1
<1>2. CASE CurrentIn(h) # {}
  <2>1. PICK i \in DOMAIN h : Heads(h, i)
    BY <1>2 DEF CurrentIn
  <2>2. CurrentIn(h) = h[i].calls /\ i \in CallingIn(h) /\ i \in Nat
        /\ h[i].calls \subseteq ToolCallIds
    BY <2>1, HeadsCalls, InDomain, Indices DEF Heads
  <2>3. CASE i \in GivenIn(h)
    <3>1. \A k \in GivenIn(h) : k <= i
      BY <2>1 DEF Heads, GivenIn
    <3>2. QED
      BY <2>2, <2>3, <3>1, GivenLast
  <2>4. CASE i \notin GivenIn(h)
    <3>1. \A j \in InputsIn(h) : ~(i < j) /\ j \in Nat /\ i # j
      BY <2>2, <2>4, InDomain DEF GivenIn
    <3>2. \A j \in InputsIn(h) : j < i
      BY <2>2, <3>1
    <3>3. QED
      BY <2>2, <3>2 DEF FreshCalls
  <2>5. QED
    BY <2>3, <2>4
<1>3. QED
  BY <1>1, <1>2

\* The result of a current call
LEMMA ResultAppended ==
  ASSUME NEW h \in Seq(Items), NEW c \in CurrentIn(h), NEW hh,
         hh = Append(h, ToolMessage(c))
  PROVE  /\ CurrentIn(hh) = CurrentIn(h) /\ GivenCalls(hh) = CurrentIn(h)
         /\ FreshCalls(hh) = {} /\ ToolLast(hh)
         /\ \A i \in DOMAIN hh : \/ i \in DOMAIN h /\ hh[i] = h[i]
                                 \/ hh[i].calls = {c}
<1> DEFINE n == Len(h) + 1
<1>1. c \in ToolCallIds
  BY DEF CurrentIn
<1>2. ToolMessage(c) \in Items /\ ToolMessage(c).role = "tool"
      /\ ToolMessage(c).calls = {c}
  BY <1>1, ItemTyped DEF ToolMessage
<1>3. hh \in Seq(Items)
  BY <1>2, AppendTyped
<1>4. /\ Len(h) \in Nat /\ DOMAIN h = 1..Len(h) /\ DOMAIN hh = 1..n
      /\ hh[n] = ToolMessage(c) /\ \A i \in DOMAIN h : hh[i] = h[i]
  BY <1>2, Indices
<1>5. hh[n].role = "tool" /\ hh[n].calls = {c} /\ n \in DOMAIN hh /\ n \in Nat
      /\ (\A i \in DOMAIN h : i \in Nat /\ i < n /\ i \in DOMAIN hh)
      /\ (\A i \in DOMAIN hh : i = n \/ i \in DOMAIN h)
  BY <1>2, <1>4
<1> HIDE DEF n
<1>6. AnswersIn(hh) = AnswersIn(h)
  BY <1>4, <1>5 DEF AnswersIn
<1>7. CallingIn(hh) = CallingIn(h)
  BY <1>4, <1>6 DEF CallingIn, AnswersIn
<1>8. InputsIn(hh) = InputsIn(h) \cup {n}
  BY <1>4, <1>5 DEF InputsIn
<1>9. CallingIn(h) \subseteq DOMAIN h /\ InputsIn(h) \subseteq DOMAIN h
      /\ AnswersIn(h) \subseteq DOMAIN h
  BY InDomain
<1>10. GivenIn(hh) = CallingIn(h)
  BY <1>5, <1>7, <1>8, <1>9 DEF GivenIn
<1>11. PICK i \in DOMAIN h : Heads(h, i) /\ c \in h[i].calls
  BY DEF CurrentIn
<1>12. CurrentIn(h) = h[i].calls
  BY <1>11, HeadsCalls
<1>13. Heads(hh, i)
  <2>1. i \in CallingIn(hh) /\ \A k \in CallingIn(hh) : k <= i
    BY <1>7, <1>11 DEF Heads
  <2>2. ASSUME NEW j \in DOMAIN h, j > i
        PROVE  /\ hh[j].role # "user"
               /\ hh[j].role = "tool" => \A k \in AnswersIn(hh) : ~(k > j)
    BY <1>4, <1>6, <1>11, <2>2 DEF Heads
  <2>3. \A k \in AnswersIn(hh) : ~(k > n)
    BY <1>5, <1>6, <1>9
  <2>4. QED
    BY <1>5, <2>1, <2>2, <2>3 DEF Heads
<1>14. CurrentIn(hh) = CurrentIn(h)
  BY <1>3, <1>4, <1>12, <1>13, HeadsCalls
<1>15. GivenCalls(hh) = CurrentIn(h)
  <2>1. i \in GivenIn(hh) /\ \A k \in GivenIn(hh) : k <= i
    BY <1>10, <1>11 DEF Heads
  <2>2. QED
    BY <1>3, <1>4, <1>12, <2>1, GivenLast
<1>16. FreshCalls(hh) = {}
  <2>1. \A k \in CallingIn(hh) : n \in InputsIn(hh) /\ ~(n < k)
    BY <1>5, <1>7, <1>8, <1>9
  <2>2. QED
    BY <2>1 DEF FreshCalls
<1>17. ToolLast(hh)
  BY <1>5, <1>8, <1>9 DEF ToolLast
<1>18. QED
  BY <1>4, <1>5, <1>14, <1>15, <1>16, <1>17

\* The model answers: the calls D are added to the last message, or come in a
\* message of their own.
Extended(h, hh, D) ==
  /\ hh \in Seq(Items) /\ Len(hh) > 0 /\ hh[Len(hh)].role = "assistant"
  /\ \A i \in DOMAIN h : i < Len(hh) => hh[i] = h[i]
  /\ \/ /\ Len(h) = Len(hh) /\ h[Len(hh)].role = "assistant"
        /\ hh[Len(hh)].calls = h[Len(hh)].calls \cup D
     \/ Len(h) = Len(hh) - 1 /\ hh[Len(hh)].calls = D

LEMMA AnsweredExtends ==
  ASSUME history \in Seq(Items), NEW D \in SUBSET ToolCallIds, NEW b \in BOOLEAN,
         NEW hh, hh = Answered([role |-> "assistant", calls |-> D, text |-> b])
  PROVE  (hh = history /\ history = <<>>) \/ Extended(history, hh, D)
<1> DEFINE item == [role |-> "assistant", calls |-> D, text |-> b]
           n == Len(history)
<1>1. item \in Items /\ item.role = "assistant" /\ item.calls = D
  BY ItemTyped
<1>2. hh \in Seq(Items)
  BY AnsweredTyped
<1>3. n \in Nat /\ DOMAIN history = 1..n
  BY Indices
<1>4. CASE history = <<>>
  BY <1>4 DEF Answered
<1>5. CASE history # <<>> /\ history[n].role = "assistant"
  <2>1. n > 0 /\ n \in DOMAIN history /\ history[n] \in Items
    BY <1>3, <1>5, Indices
  <2>2. hh = [history EXCEPT ![n].calls = @ \cup item.calls, ![n].text = @ \/ item.text]
    BY <1>5 DEF Answered
  <2>3. /\ Len(hh) = n /\ \A i \in DOMAIN history : i < n => hh[i] = history[i]
        /\ hh[n].role = "assistant" /\ hh[n].calls = history[n].calls \cup D
    <3> HIDE DEF item
    <3>1. DOMAIN hh = 1..n /\ hh \in Seq(Items)
      BY <1>2, <1>3, <2>2
    <3>2. Len(hh) = n
      BY <1>3, <3>1
    <3>3. \A i \in DOMAIN history : i < n => hh[i] = history[i]
      BY <1>3, <2>2
    <3>4. ASSUME NEW x \in Items
          PROVE  /\ [x EXCEPT !.calls = @ \cup item.calls,
                              !.text = @ \/ item.text].role = x.role
                 /\ [x EXCEPT !.calls = @ \cup item.calls,
                              !.text = @ \/ item.text].calls = x.calls \cup item.calls
      BY DEF Items
    <3>5. hh[n] = [history[n] EXCEPT !.calls = @ \cup item.calls,
                                     !.text = @ \/ item.text]
      BY <2>1, <2>2
    <3>6. QED
      BY <1>1, <1>5, <2>1, <3>2, <3>3, <3>4, <3>5
  <2>4. QED
    BY <1>2, <1>3, <1>5, <2>1, <2>3 DEF Extended
<1>6. CASE history # <<>> /\ history[n].role # "assistant"
  <2>1. hh = Append(history, item)
    BY <1>6 DEF Answered
  <2>2. /\ Len(hh) = n + 1 /\ hh[n + 1] = item
        /\ \A i \in DOMAIN history : hh[i] = history[i]
    <3> HIDE DEF item
    <3>1. QED
      BY <1>1, <1>3, <2>1
  <2>3. /\ Len(hh) > 0 /\ Len(history) = Len(hh) - 1
        /\ hh[Len(hh)].role = "assistant" /\ hh[Len(hh)].calls = D
        /\ \A i \in DOMAIN history : i < Len(hh) => hh[i] = history[i]
    <3> HIDE DEF item
    <3>1. QED
      BY <1>1, <1>3, <2>2
  <2>4. QED
    BY <1>2, <2>3 DEF Extended
<1>7. QED
  BY <1>4, <1>5, <1>6

LEMMA Extends ==
  ASSUME NEW h \in Seq(Items), NEW hh, NEW D \in SUBSET ToolCallIds,
         Extended(h, hh, D)
  PROVE  /\ GivenCalls(hh) = GivenCalls(h) /\ (ToolLast(h) => ToolLast(hh))
         /\ FreshCalls(hh) \subseteq FreshCalls(h) \cup D
         /\ CurrentIn(hh) \subseteq CurrentIn(h) \cup D
         /\ D = {} => CurrentIn(hh) = CurrentIn(h) \/ CurrentIn(hh) = {}
         /\ D # {} => D \subseteq CurrentIn(hh)
         /\ \A S : (D \subseteq S /\ \A i \in DOMAIN h : h[i].calls \subseteq S)
                     => \A i \in DOMAIN hh : hh[i].calls \subseteq S
<1> DEFINE n == Len(hh)
<1>0. /\ hh \in Seq(Items) /\ n > 0 /\ hh[n].role = "assistant"
      /\ \A i \in DOMAIN h : i < n => hh[i] = h[i]
      /\ \/ /\ Len(h) = n /\ h[n].role = "assistant"
            /\ hh[n].calls = h[n].calls \cup D
         \/ Len(h) = n - 1 /\ hh[n].calls = D
  BY DEF Extended
<1>1. /\ hh \in Seq(Items) /\ n \in Nat /\ n \in DOMAIN hh /\ hh[n].role = "assistant"
      /\ \A i \in DOMAIN h : i \in Nat /\ i \in DOMAIN hh /\ (i = n \/ i < n)
      /\ \A i \in DOMAIN hh : i \in Nat /\ (i = n \/ (i < n /\ i \in DOMAIN h))
  BY Indices DEF Extended
<1>a. (n \in DOMAIN h => Len(h) = n) /\ (n \notin DOMAIN h => Len(h) = n - 1)
      /\ ~(n = n - 1)
  BY Indices DEF Extended
<1> HIDE DEF n
<1>2. \A i \in DOMAIN hh : i < n => i \in DOMAIN h /\ hh[i] = h[i]
  BY <1>0, <1>1
<1>3. n \in DOMAIN h => h[n].role = "assistant" /\ hh[n].calls = h[n].calls \cup D
  BY <1>0, <1>a
<1>4. n \notin DOMAIN h => hh[n].calls = D
  BY <1>0, <1>a
<1>5. InputsIn(hh) = InputsIn(h) /\ \A j \in InputsIn(h) : j < n /\ j \in Nat /\ hh[j] = h[j]
  BY <1>1, <1>2, <1>3 DEF InputsIn
<1>6. AnswersIn(hh) = AnswersIn(h) \cup {n} /\ (n \in DOMAIN h => AnswersIn(hh) = AnswersIn(h))
  BY <1>1, <1>2, <1>3 DEF AnswersIn
<1>7. \A i \in DOMAIN hh : i < n => (i \in CallingIn(hh) <=> i \in CallingIn(h))
  BY <1>1, <1>2, <1>6 DEF CallingIn, AnswersIn
<1>8. CallingIn(h) \subseteq DOMAIN h /\ CallingIn(hh) \subseteq DOMAIN hh
  BY DEF CallingIn, AnswersIn
<1>9. GivenIn(hh) = GivenIn(h) /\ \A i \in GivenIn(h) : hh[i] = h[i]
  <2>1. ASSUME NEW i \in GivenIn(hh)
        PROVE  i < n /\ i \in DOMAIN hh /\ i \in CallingIn(hh)
    <3>1. i \in CallingIn(hh) /\ i \in DOMAIN hh /\ i \in Nat
      BY <1>1, <1>8 DEF GivenIn
    <3>2. PICK j \in InputsIn(hh) : i < j
      BY DEF GivenIn
    <3>3. QED
      BY <1>1, <1>5, <3>1, <3>2
  <2>2. ASSUME NEW i \in GivenIn(h)
        PROVE  i < n /\ i \in DOMAIN hh /\ i \in CallingIn(h)
    <3>1. i \in CallingIn(h) /\ i \in DOMAIN hh /\ i \in Nat
      BY <1>1, <1>8 DEF GivenIn
    <3>2. PICK j \in InputsIn(h) : i < j
      BY DEF GivenIn
    <3>3. QED
      BY <1>1, <1>5, <3>1, <3>2
  <2>3. QED
    BY <2>1, <2>2, <1>2, <1>5, <1>7 DEF GivenIn
<1>10. GivenCalls(hh) = GivenCalls(h)
  BY <1>9 DEF GivenCalls
<1>11. ToolLast(h) => ToolLast(hh)
  BY <1>5 DEF ToolLast
<1>12. n \in CallingIn(hh) /\ hh[n].calls # D => n \in CallingIn(h) /\ hh[n].calls = h[n].calls \cup D
  BY <1>1, <1>3, <1>4 DEF CallingIn, AnswersIn
<1>13. FreshCalls(hh) \subseteq FreshCalls(h) \cup D
  <2> SUFFICES ASSUME NEW c \in FreshCalls(hh), c \notin D PROVE c \in FreshCalls(h)
    OBVIOUS
  <2>1. PICK i \in CallingIn(hh) : c \in hh[i].calls /\ \A j \in InputsIn(hh) : j < i
    BY DEF FreshCalls
  <2>2. c \in ToolCallIds
    BY DEF FreshCalls
  <2>3. i \in CallingIn(h) /\ c \in h[i].calls
    BY <1>1, <1>2, <1>7, <1>8, <1>12, <2>1
  <2>4. QED
    BY <1>5, <2>1, <2>2, <2>3 DEF FreshCalls
<1>14. D # {} => D \subseteq CurrentIn(hh) /\ CurrentIn(hh) \subseteq CurrentIn(h) \cup D
  <2> SUFFICES ASSUME D # {}
               PROVE  D \subseteq CurrentIn(hh) /\ CurrentIn(hh) \subseteq CurrentIn(h) \cup D
    OBVIOUS
  <2>1. n \in CallingIn(hh)
    BY <1>1, <1>3, <1>4 DEF CallingIn, AnswersIn
  <2>2. Heads(hh, n)
    BY <1>1, <1>8, <2>1 DEF Heads
  <2>3. CurrentIn(hh) = hh[n].calls
    BY <1>1, <2>2, HeadsCalls
  <2>4. CASE hh[n].calls # D
    <3>1. n \in CallingIn(h) /\ hh[n].calls = h[n].calls \cup D
      BY <1>12, <2>1, <2>4
    <3>2. Heads(h, n)
      <4>1. \A j \in DOMAIN h : j <= n /\ ~(j > n)
        BY <1>1
      <4>2. QED
        BY <1>8, <3>1, <4>1 DEF Heads
    <3>3. CurrentIn(h) = h[n].calls
      BY <3>2, HeadsCalls
    <3>4. QED
      BY <2>3, <3>1, <3>3
  <2>5. QED
    BY <2>3, <2>4
<1>15. D = {} => CurrentIn(hh) = CurrentIn(h) \/ CurrentIn(hh) = {}
  <2> SUFFICES ASSUME D = {}, CurrentIn(hh) # {} PROVE CurrentIn(hh) = CurrentIn(h)
    OBVIOUS
  <2>1. PICK i \in DOMAIN hh : Heads(hh, i)
    BY DEF CurrentIn
  <2>2. CurrentIn(hh) = hh[i].calls /\ i \in CallingIn(hh)
    BY <1>1, <2>1, HeadsCalls DEF Heads
  <2>3. i \in CallingIn(h) /\ hh[i].calls = h[i].calls
    <3>1. CASE i < n
      BY <1>2, <1>7, <2>2, <3>1
    <3>2. CASE i = n
      BY <1>3, <1>4, <1>6, <2>2, <3>2 DEF CallingIn, AnswersIn
    <3>3. QED
      BY <1>1, <3>1, <3>2
  <2>4. CallingIn(h) \subseteq CallingIn(hh)
    <3>1. ASSUME NEW k \in CallingIn(h) PROVE k \in CallingIn(hh)
      <4>1. k \in DOMAIN hh /\ k \in DOMAIN h
        BY <1>1, <1>8
      <4>2. CASE k < n
        BY <1>7, <4>1, <4>2
      <4>3. CASE k = n
        BY <1>3, <1>6, <4>1, <4>3 DEF CallingIn
      <4>4. QED
        BY <1>1, <4>1, <4>2, <4>3
    <3>2. QED
      BY <3>1
  <2>5. ASSUME NEW j \in DOMAIN h, j > i
        PROVE  /\ h[j].role # "user"
               /\ h[j].role = "tool" => \A k \in AnswersIn(h) : ~(k > j)
    <3>1. j \in DOMAIN hh
      BY <1>1
    <3>2. hh[j].role # "user" /\ (hh[j].role = "tool" => \A k \in AnswersIn(hh) : ~(k > j))
      BY <2>1, <2>5, <3>1 DEF Heads
    <3>3. CASE j < n
      BY <1>2, <1>6, <3>1, <3>2, <3>3
    <3>4. CASE j = n
      BY <1>3, <3>4
    <3>5. QED
      BY <1>1, <3>3, <3>4
  <2>6. Heads(h, i)
    BY <2>1, <2>3, <2>4, <2>5 DEF Heads
  <2>7. QED
    BY <2>2, <2>3, <2>6, HeadsCalls
<1>16. ASSUME NEW S, D \subseteq S, \A i \in DOMAIN h : h[i].calls \subseteq S,
              NEW i \in DOMAIN hh
       PROVE  hh[i].calls \subseteq S
  <2>1. CASE i < n
    BY <1>2, <1>16, <2>1
  <2>2. CASE i = n
    BY <1>3, <1>4, <1>16, <2>2
  <2>3. QED
    BY <1>1, <2>1, <2>2
<1>17. QED
  BY <1>10, <1>11, <1>13, <1>14, <1>15, <1>16

\* The messages are cut off, and what was said to the model is not.
LEMMA CutKeeps ==
  ASSUME NEW h \in Seq(Items), NEW n \in 0..Len(h), NEW hh, hh = SubSeq(h, 1, n),
         \A j \in InputsIn(h) : j <= n
  PROVE  /\ GivenCalls(hh) = GivenCalls(h)
         /\ FreshCalls(hh) \subseteq FreshCalls(h)
         /\ ToolLast(h) => ToolLast(hh)
         /\ \A i \in DOMAIN h : Heads(h, i) /\ i <= n => CurrentIn(hh) = CurrentIn(h)
<1>1. /\ hh \in Seq(Items) /\ n \in Nat /\ DOMAIN hh \subseteq DOMAIN h
      /\ \A i \in DOMAIN h : i \in Nat /\ (i \in DOMAIN hh <=> i <= n)
      /\ \A i \in DOMAIN hh : hh[i] = h[i]
  BY Indices
<1>2. InputsIn(hh) = InputsIn(h)
  BY <1>1 DEF InputsIn
<1>3. AnswersIn(hh) \subseteq AnswersIn(h) /\ CallingIn(hh) \subseteq CallingIn(h)
  BY <1>1 DEF AnswersIn, CallingIn
<1>4. \A i \in CallingIn(h) : i <= n => i \in CallingIn(hh) /\ i \in DOMAIN hh
  BY <1>1 DEF AnswersIn, CallingIn
<1>5. /\ CallingIn(h) \subseteq DOMAIN h /\ InputsIn(h) \subseteq DOMAIN h
      /\ CallingIn(hh) \subseteq DOMAIN hh
  BY DEF CallingIn, AnswersIn, InputsIn
<1>6. GivenIn(hh) = GivenIn(h) /\ \A i \in GivenIn(h) : hh[i] = h[i]
  <2>1. ASSUME NEW i \in GivenIn(h) PROVE i \in CallingIn(hh) /\ i \in DOMAIN hh
    <3>1. i \in CallingIn(h) /\ i \in Nat
      BY <1>1, <1>5 DEF GivenIn
    <3>2. PICK j \in InputsIn(h) : i < j
      BY DEF GivenIn
    <3>3. j \in Nat /\ j <= n
      BY <1>1, <1>5, <3>2
    <3>4. QED
      BY <1>1, <1>4, <3>1, <3>2, <3>3
  <2>2. QED
    BY <1>1, <1>2, <1>3, <2>1 DEF GivenIn
<1>7. GivenCalls(hh) = GivenCalls(h)
  BY <1>6 DEF GivenCalls
<1>8. FreshCalls(hh) \subseteq FreshCalls(h)
  BY <1>1, <1>2, <1>3, <1>5 DEF FreshCalls
<1>9. ToolLast(h) => ToolLast(hh)
  <2>1. \A j \in InputsIn(h) : j \in DOMAIN hh
    BY <1>1, <1>5
  <2>2. QED
    BY <1>1, <1>2, <2>1 DEF ToolLast
<1>10. ASSUME NEW i \in DOMAIN h, Heads(h, i), i <= n
       PROVE  CurrentIn(hh) = CurrentIn(h)
  <2>1. i \in CallingIn(h) /\ i \in CallingIn(hh) /\ hh[i] = h[i]
    BY <1>1, <1>4, <1>10 DEF Heads
  <2>2. \A k \in CallingIn(hh) : k <= i
    BY <1>3, <1>10 DEF Heads
  <2>3. \A j \in DOMAIN hh : j > i =>
          /\ hh[j].role # "user"
          /\ hh[j].role = "tool" => \A k \in AnswersIn(hh) : ~(k > j)
    BY <1>1, <1>3, <1>10 DEF Heads
  <2>4. Heads(hh, i)
    BY <2>1, <2>2, <2>3 DEF Heads
  <2>5. QED
    BY <1>1, <1>10, <2>1, <2>4, HeadsCalls
<1>11. QED
  BY <1>7, <1>8, <1>9, <1>10

\* clearDanglingMessages takes back no result, and no answer with a call that
\* is past generating and still current.
LEMMA ClearedCuts ==
  ASSUME ToolsTypeOK
  PROVE  \E n \in 0..Len(history) :
           /\ Cleared = SubSeq(history, 1, n)
           /\ ToolLast(history) => \A j \in InputsIn(history) : j <= n
           /\ \A c \in CurrentCalls : status[c] # "generating" =>
                /\ \A j \in InputsIn(history) : j <= n
                /\ \E i \in DOMAIN history : Heads(history, i) /\ i <= n
<1> DEFINE h == history
<1>1. /\ h \in Seq(Items) /\ Len(h) \in Nat /\ DOMAIN h = 1..Len(h)
      /\ CurrentCalls = CurrentIn(h) /\ LastInput = InputsIn(h)
  BY CurrentSame, SameOperators, Indices DEF ToolsTypeOK
<1>2. ValidAnswers \in SUBSET DOMAIN h /\ InputsIn(h) \in SUBSET DOMAIN h
  BY DEF ValidAnswers, InputsIn
<1>3. ASSUME NEW c \in CurrentCalls
      PROVE  \E i \in DOMAIN h : Heads(h, i) /\ c \in h[i].calls
  BY <1>1, <1>3 DEF CurrentIn
<1>4. CASE Len(h) < 2 \/ LastInput = {}
  <2>1. Cleared = SubSeq(h, 1, Len(h))
    <3>1. Cleared = h
      BY <1>4 DEF Cleared
    <3>2. h = SubSeq(h, 1, Len(h))
      BY <1>1
    <3>3. QED
      BY <3>1, <3>2
  <2>2. \A i \in DOMAIN h : i <= Len(h)
    BY <1>1
  <2>3. Len(h) \in 0..Len(h)
    BY <1>1
  <2>4. QED
    BY <1>1, <1>2, <1>3, <2>1, <2>2, <2>3
<1>5. CASE ~(Len(h) < 2 \/ LastInput = {}) /\ ValidAnswers # {}
  <2> DEFINE n == LastOf(ValidAnswers)
  <2>1. n \in ValidAnswers /\ \A x \in ValidAnswers : x <= n
    BY <1>1, <1>2, <1>5, LastIndex
  <2>2. Cleared = SubSeq(h, 1, n)
    BY <1>5 DEF Cleared
  <2>3. n \in 0..Len(h) /\ n \in Nat
    BY <1>1, <1>2, <2>1
  <2>4. \A j \in InputsIn(h) : j <= n /\ j \in Nat
    <3>1. \A i \in ValidAnswers : \A j \in InputsIn(h) : j < i
      BY <1>1 DEF ValidAnswers
    <3> HIDE DEF n
    <3>2. QED
      BY <1>1, <1>2, <2>1, <2>3, <3>1
  <2> HIDE DEF n
  <2>5. ASSUME NEW c \in CurrentCalls, status[c] # "generating"
        PROVE  \E i \in DOMAIN h : Heads(h, i) /\ i <= n
    <3>1. PICK i \in DOMAIN h : Heads(h, i) /\ c \in h[i].calls
      BY <1>3
    <3>2. i \in Nat
      BY <1>1
    <3>3. CASE \E j \in InputsIn(h) : ~(j < i)
      BY <2>3, <2>4, <3>1, <3>2, <3>3
    <3>4. CASE \A j \in InputsIn(h) : j < i
      <4>1. i \in ValidAnswers
        BY <1>1, <2>5, <3>1, <3>4 DEF ValidAnswers
      <4>2. QED
        BY <2>1, <3>1, <4>1
    <3>5. QED
      BY <3>3, <3>4
  <2>6. QED
    BY <2>2, <2>3, <2>4, <2>5
<1>6. CASE ~(Len(h) < 2 \/ LastInput = {}) /\ ValidAnswers = {}
  <2> DEFINE l == LastOf(LastInput)
             n == IF h[l].role = "user" THEN l - 1 ELSE l
  <2>1. l \in InputsIn(h) /\ \A x \in InputsIn(h) : x <= l
    BY <1>1, <1>2, <1>6, LastIndex
  <2>2. Cleared = SubSeq(h, 1, n)
    BY <1>6 DEF Cleared
  <2>3. l \in 1..Len(h) /\ l \in Nat
    BY <1>1, <1>2, <2>1
  <2> HIDE DEF l
  <2>4. n \in 0..Len(h)
    BY <1>1, <2>3
  <2>5. ToolLast(h) => n = l
    <3> SUFFICES ASSUME ToolLast(h) PROVE n = l
      OBVIOUS
    <3>1. PICK k \in InputsIn(h) : h[k].role = "tool" /\ \A j \in InputsIn(h) : j <= k
      BY DEF ToolLast
    <3>2. k <= l /\ l <= k /\ k \in Nat
      BY <1>1, <1>2, <2>1, <3>1
    <3>3. k = l
      BY <2>3, <3>2
    <3>4. QED
      BY <3>1, <3>3
  <2>6. ASSUME NEW c \in CurrentCalls, status[c] # "generating"
        PROVE  n = l /\ \E i \in DOMAIN h : Heads(h, i) /\ i <= n
    <3>1. PICK i \in DOMAIN h : Heads(h, i) /\ c \in h[i].calls
      BY <1>3
    <3>2. i \in Nat
      BY <1>1
    <3>3. i \notin ValidAnswers
      BY <1>6
    <3>4. PICK j \in InputsIn(h) : ~(j < i)
      BY <1>1, <2>6, <3>1, <3>3 DEF ValidAnswers
    <3>5. j \in Nat /\ i # j /\ j <= l
      BY <1>1, <1>2, <2>1, <3>1, <3>4, InDomain DEF Heads
    <3>6. l > i
      BY <2>3, <3>2, <3>4, <3>5
    <3>7. h[l].role # "user"
      BY <1>2, <2>1, <3>1, <3>6 DEF Heads
    <3>8. QED
      BY <2>3, <3>1, <3>2, <3>6, <3>7
  <2> HIDE DEF n
  <2>7. QED
    BY <2>1, <2>2, <2>4, <2>5, <2>6
<1>7. QED
  BY <1>4, <1>5, <1>6

LEMMA Submitted ==
  ASSUME NEW h \in Seq(Items), NEW hh, hh = h \o <<UserMessage, EmptyAnswer>>
  PROVE  /\ CurrentIn(hh) = {}
         /\ Len(h) + 1 \in DOMAIN hh /\ hh[Len(h) + 1] = UserMessage
         /\ \A i \in DOMAIN hh : \/ i \in DOMAIN h /\ hh[i] = h[i]
                                 \/ hh[i].calls = {}
<1> DEFINE n == Len(h)
<1>1. /\ UserMessage \in Items /\ EmptyAnswer \in Items /\ UserMessage.calls = {}
      /\ UserMessage.role = "user" /\ EmptyAnswer.calls = {}
  BY ItemTyped DEF UserMessage, EmptyAnswer
<1>2. /\ hh \in Seq(Items) /\ n \in Nat /\ Len(hh) = n + 2 /\ DOMAIN hh = 1..n + 2
      /\ hh[n + 1] = UserMessage /\ hh[n + 2] = EmptyAnswer
      /\ DOMAIN h = 1..n /\ \A i \in DOMAIN h : hh[i] = h[i]
  BY <1>1, Indices
<1>3. /\ n + 1 \in DOMAIN hh /\ n + 1 \in Nat
      /\ \A i \in DOMAIN hh : i \in Nat /\ (i \in DOMAIN h \/ i = n + 1 \/ i = n + 2)
      /\ \A i \in DOMAIN h : i < n + 1
  BY <1>2
<1>4. ASSUME NEW i \in DOMAIN hh PROVE ~Heads(hh, i)
  <2>1. CASE i \in DOMAIN h
    BY <1>1, <1>2, <1>3, <2>1 DEF Heads
  <2>2. CASE i = n + 1 \/ i = n + 2
    BY <1>1, <1>2, <2>2 DEF Heads, CallingIn
  <2>3. QED
    BY <1>3, <2>1, <2>2
<1>5. QED
  BY <1>1, <1>2, <1>3, <1>4 DEF CurrentIn

-----------------------------------------------------------------------------
(***************************************************************************)
(* The inductive invariant of a conversation that nobody stops             *)
(***************************************************************************)
Undisturbed == setup \subseteq {"goOn"} /\ stops = 0

\* A stream that is to give an answer, or to decide what becomes of its calls;
\* one that waits for calls; one that goes on with the results of its calls
Working(s) == pc[s] \in {"resolving", "compile", "reading", "preprocess", "policy"}
Awaiting(s) == pc[s] \in {"executing", "executingSome"}
Looping(s) == pc[s] = "loop"

\* A loop over the calls whose results the model has been given last
Behind(s) == Looping(s) /\ original[s] \cap GivenCalls(history) # {}

InOrder ==
  \A s \in Streams : /\ pc[s] # "none" => s <= started
                     /\ Working(s) => s = started

\* While a stream works, no tool runs and no current call is left to a diff.
WorksAlone ==
  \A s \in Streams : Working(s) =>
    /\ isStreaming
    /\ \A c \in ToolCallIds : thread[c] # "running"
    /\ \A e \in Streams : pc[e] # "executingSome"
    /\ \A c \in CurrentCalls : status[c] # "calling"

\* Its policies are asked for the calls that will be run.
Reviewed ==
  \A s \in Streams :
    /\ pc[s] = "policy" => asked[s] = Pending(status)
    /\ pc[s] \in {"preprocess", "policy"} =>
         /\ original[s] = CurrentCalls /\ asked[s] \subseteq CurrentCalls
         /\ \A c \in CurrentCalls : status[c] # "generating"

CallsMade ==
  /\ \A i \in DOMAIN history : history[i].calls \subseteq 1..made
  /\ \A s \in Streams : original[s] \subseteq 1..made

MessageThere ==
  \A s \in Streams : pc[s] = "resolving" =>
    /\ inputIndex[s] \in DOMAIN history
    /\ history[inputIndex[s]] = UserMessage
    /\ CurrentCalls = {}

\* Calls run without the user while another one waits for the user.
SomeWait ==
  \A e \in Streams : pc[e] = "executingSome" =>
    /\ isStreaming
    /\ \E d \in CurrentCalls : status[d] = "generated"
    /\ \A t \in Streams : pc[t] = "executingSome" => t = e
    /\ \A c \in ToolCallIds : thread[c] = "running" =>
         /\ c \in asked[e] /\ kind[c] = "readonly"
         /\ \A t \in Streams : Awaiting(t) /\ c \in asked[t] => t = e

RunsCurrent ==
  \A c \in ToolCallIds :
    /\ thread[c] = "running" => c \in CurrentCalls /\ status[c] = "calling"
    /\ c \in applying =>
         /\ c \in 1..made /\ status[c] = "calling" /\ thread[c] # "running"

AwaitedRun ==
  \A s \in Streams : Awaiting(s) =>
    \A c \in asked[s] : status[c] \notin Waiting /\ c \in 1..made

LoopsGive ==
  \A s \in Streams : Looping(s) =>
    /\ ToolLast(history)
    /\ original[s] \cap FreshCalls(history) = {}
    /\ asked[s] \subseteq original[s]

BehindSettled ==
  \A s \in Streams : Behind(s) =>
    \A c \in GivenCalls(history) : status[c] \notin Waiting \cup {"calling"}

\* Of the loops over the same calls, each awaits the next one, and the last one
\* the stream that works, if there is one: none but it can go on.
ChainOfLoops ==
  \A p, q \in Streams : Behind(p) /\ q > p /\ (Behind(q) \/ Working(q)) =>
    \E h \in Streams : /\ h = heir[p] /\ p < h /\ h <= q
                       /\ Behind(h) \/ Working(h)

AutoAllowed ==
  \A c \in autoRan : verdict[c] = "run" /\ status[c] \notin Waiting /\ c \in 1..made

Conv ==
  /\ InOrder /\ WorksAlone /\ Reviewed /\ CallsMade /\ MessageThere /\ SomeWait
  /\ RunsCurrent /\ AwaitedRun /\ LoopsGive /\ BehindSettled /\ ChainOfLoops
  /\ AutoAllowed

-----------------------------------------------------------------------------
(***************************************************************************)
(* Steps of the stream that works                                          *)
(***************************************************************************)
LEMMA StreamIds == Streams \subseteq Nat /\ ToolCallIds \subseteq Nat
BY DEF Streams, ToolCallIds

LEMMA SameHistory ==
  ASSUME ToolsTypeOK, history' = history
  PROVE  CurrentCalls' = CurrentCalls
BY CurrentSame, CurrentSameNext DEF ToolsTypeOK

LEMMA CurrentMade ==
  ASSUME ToolsTypeOK, CallsMade
  PROVE  /\ CurrentCalls \subseteq 1..made /\ CurrentCalls \subseteq ToolCallIds
         /\ GivenCalls(history) \subseteq 1..made
         /\ GivenCalls(history) \subseteq ToolCallIds
<1>1. CurrentCalls = CurrentIn(history)
  BY CurrentSame DEF ToolsTypeOK
<1>2. \A i \in CallingIn(history) : i \in DOMAIN history
  BY DEF CallingIn, AnswersIn
<1>3. \A i \in GivenIn(history) : i \in DOMAIN history
  BY <1>2 DEF GivenIn
<1>4. QED
  BY <1>1, <1>3 DEF CurrentIn, GivenCalls, CallsMade

LEMMA TheWorker ==
  ASSUME ToolsTypeOK, Conv, NEW s \in Streams, Working(s)
  PROVE  /\ s = started /\ isStreaming /\ ~Looping(s) /\ ~Awaiting(s)
         /\ \A t \in Streams : Working(t) => t = s
         /\ \A t \in Streams : pc[t] # "none" => t <= s
         /\ \A c \in ToolCallIds : thread[c] # "running"
         /\ \A e \in Streams : pc[e] # "executingSome"
         /\ \A c \in CurrentCalls : status[c] # "calling"
BY DEF Conv, InOrder, WorksAlone, Working, Looping, Awaiting

\* Statuses st that a stream leaves of its calls before it runs any
Handled(st) ==
  /\ st \in [ToolCallIds -> Statuses]
  /\ \A d \in ToolCallIds :
       \/ st[d] = status[d]
       \/ d \in CurrentCalls /\ st[d] = "errored"
       \/ d \in CurrentCalls /\ st[d] = "generated" /\ status[d] = "generating"

LEMMA HandledKeeps ==
  ASSUME ToolsTypeOK, Conv, NEW s \in Streams, Working(s), NEW st, Handled(st)
  PROVE  /\ \A d \in ToolCallIds : status[d] \notin Waiting => st[d] \notin Waiting
         /\ \A d \in CurrentCalls : st[d] # "calling"
         /\ \A d \in applying : st[d] = "calling" /\ d \notin CurrentCalls
         /\ \A p \in Streams : Behind(p) => \A c \in GivenCalls(history) :
              st[c] \notin Waiting \cup {"calling"}
<1>1. CurrentCalls \subseteq ToolCallIds /\ GivenCalls(history) \subseteq ToolCallIds
      /\ applying \subseteq ToolCallIds
  BY CurrentMade DEF Conv, ToolsTypeOK
<1>2. \A c \in CurrentCalls : status[c] # "calling"
  BY TheWorker
<1>3. \A d \in CurrentCalls : st[d] # "calling"
  BY <1>1, <1>2 DEF Handled
<1>4. \A d \in ToolCallIds : status[d] \notin Waiting => st[d] \notin Waiting
  BY DEF Handled, Waiting
<1>5. \A d \in applying : st[d] = "calling" /\ d \notin CurrentCalls
  BY <1>1, <1>2 DEF Handled, Conv, RunsCurrent
<1>6. ASSUME NEW p \in Streams, Behind(p), NEW c \in GivenCalls(history)
      PROVE  st[c] \notin Waiting \cup {"calling"}
  <2>1. status[c] \notin Waiting \cup {"calling"}
    BY <1>6 DEF Conv, BehindSettled
  <2>2. QED
    BY <1>1, <2>1, <1>4 DEF Handled, Waiting
<1>7. QED
  BY <1>3, <1>4, <1>5, <1>6

\* The stream s goes on to x, and leaves st of its calls.
WorkerMoves(s, st, x) ==
  /\ x \in {"compile", "reading", "preprocess", "policy", "over"}
  /\ pc' = [pc EXCEPT ![s] = x]
  /\ x # "over" => isStreaming'
  /\ history' = history /\ status' = st
  /\ UNCHANGED <<thread, applying, kind, started, autoRan, made, heir, inputIndex>>
  /\ \A t \in Streams : t # s => asked'[t] = asked[t] /\ original'[t] = original[t]
  /\ original'[s] \subseteq 1..made
  /\ \A c \in autoRan : verdict'[c] = "run"
  /\ x = "policy" => asked'[s] = Pending(st)
  /\ x \in {"preprocess", "policy"} =>
       /\ original'[s] = CurrentCalls /\ asked'[s] \subseteq CurrentCalls
       /\ \A c \in CurrentCalls : st[c] # "generating"

LEMMA WorkerMovesConv ==
  ASSUME ToolsTypeOK, Conv, NEW s \in Streams, Working(s), NEW st, Handled(st), NEW x,
         WorkerMoves(s, st, x)
  PROVE  Conv'
<1>1. /\ s = started /\ isStreaming /\ ~Looping(s) /\ ~Awaiting(s)
      /\ \A t \in Streams : Working(t) => t = s
      /\ \A t \in Streams : pc[t] # "none" => t <= s
      /\ \A c \in ToolCallIds : thread[c] # "running"
      /\ \A e \in Streams : pc[e] # "executingSome"
  BY TheWorker
<1>2. /\ \A d \in ToolCallIds : status[d] \notin Waiting => st[d] \notin Waiting
      /\ \A d \in CurrentCalls : st[d] # "calling"
      /\ \A d \in applying : st[d] = "calling" /\ d \notin CurrentCalls
      /\ \A p \in Streams : Behind(p) => \A c \in GivenCalls(history) :
           st[c] \notin Waiting \cup {"calling"}
  BY HandledKeeps
<1>3. /\ CurrentCalls' = CurrentCalls /\ history' = history /\ status' = st
      /\ thread' = thread /\ applying' = applying /\ kind' = kind
      /\ started' = started /\ autoRan' = autoRan /\ made' = made /\ heir' = heir
      /\ inputIndex' = inputIndex
  BY SameHistory DEF WorkerMoves
<1>4. /\ pc \in [Streams -> Points] /\ autoRan \subseteq ToolCallIds
      /\ asked \in [Streams -> SUBSET ToolCallIds]
      /\ applying \subseteq ToolCallIds
  BY DEF ToolsTypeOK
<1>5. pc'[s] = x /\ \A t \in Streams : t # s => pc'[t] = pc[t]
  BY <1>4 DEF WorkerMoves
<1>6. /\ \A t \in Streams : t # s => asked'[t] = asked[t] /\ original'[t] = original[t]
      /\ x \in {"compile", "reading", "preprocess", "policy", "over"}
      /\ x # "over" => isStreaming'
  BY DEF WorkerMoves
<1>7. /\ \A t \in Streams : Working(t)' => t = s /\ x # "over"
      /\ \A t \in Streams : Looping(t)' => t # s /\ Looping(t)
      /\ \A t \in Streams : Awaiting(t)' => t # s /\ Awaiting(t)
      /\ \A t \in Streams : Looping(t) => t # s /\ Looping(t)'
  BY <1>1, <1>5, <1>6 DEF Working, Looping, Awaiting
<1>8. \A t \in Streams : Behind(t)' <=> Behind(t)
  BY <1>3, <1>6, <1>7 DEF Behind
<1>9. InOrder'
  BY <1>1, <1>3, <1>5, <1>7, StreamIds DEF InOrder
<1>10. WorksAlone'
  BY <1>1, <1>2, <1>3, <1>5, <1>6, <1>7 DEF WorksAlone
<1>11. Reviewed'
  <2>1. (x = "policy" => asked'[s] = Pending(status)')
    BY <1>3 DEF WorkerMoves, Pending
  <2>2. \A t \in Streams : t # s => pc[t] \notin {"preprocess", "policy"}
    BY <1>1 DEF Working
  <2>3. QED
    BY <1>3, <1>5, <2>1, <2>2 DEF Reviewed, WorkerMoves
<1>12. CallsMade'
  <2>1. \A t \in Streams : original'[t] \subseteq 1..made
    BY <1>6 DEF Conv, CallsMade, WorkerMoves
  <2>2. QED
    BY <1>3, <2>1 DEF Conv, CallsMade
<1>13. MessageThere'
  BY <1>1, <1>5, <1>6 DEF MessageThere, Working
<1>14. SomeWait'
  BY <1>1, <1>5, <1>6 DEF SomeWait
<1>15. RunsCurrent'
  BY <1>1, <1>2, <1>3, <1>4 DEF RunsCurrent, Conv
<1>16. AwaitedRun'
  BY <1>2, <1>3, <1>4, <1>6, <1>7 DEF AwaitedRun, Conv
<1>17. LoopsGive'
  BY <1>3, <1>6, <1>7 DEF LoopsGive, Conv
<1>18. BehindSettled'
  BY <1>2, <1>3, <1>8 DEF BehindSettled
<1>19. ChainOfLoops'
  <2> SUFFICES ASSUME NEW p \in Streams, NEW q \in Streams, Behind(p), q > p,
                      Behind(q) \/ (q = s /\ x # "over")
               PROVE  \E h \in Streams : /\ h = heir[p] /\ p < h /\ h <= q
                                         /\ Behind(h)' \/ Working(h)'
    BY <1>3, <1>7, <1>8 DEF ChainOfLoops
  <2>1. PICK h \in Streams : /\ h = heir[p] /\ p < h /\ h <= q
                             /\ Behind(h) \/ Working(h)
    BY DEF Conv, ChainOfLoops
  <2>2. CASE Behind(h)
    BY <1>8, <2>1, <2>2
  <2>3. CASE Working(h)
    <3>1. h = s /\ s <= q
      BY <1>1, <2>1, <2>3
    <3>2. Behind(q) => q <= s
      BY <1>1 DEF Behind, Looping
    <3>3. q = s
      BY <3>1, <3>2, StreamIds
    <3>4. x # "over"
      BY <1>1, <3>3 DEF Behind
    <3>5. Working(s)'
      BY <1>5, <1>6, <3>4 DEF Working
    <3>6. QED
      BY <2>1, <3>1, <3>5
  <2>4. QED
    BY <2>1, <2>2, <2>3
<1>20. AutoAllowed'
  BY <1>2, <1>3, <1>4 DEF AutoAllowed, Conv, WorkerMoves
<1>21. QED
  BY <1>9, <1>10, <1>11, <1>12, <1>13, <1>14, <1>15, <1>16, <1>17, <1>18, <1>19,
     <1>20 DEF Conv

\* The stream s runs the calls C of its message.
LEMMA RunCallsConv ==
  ASSUME ToolsTypeOK, Conv, NEW s \in Streams, Working(s), NEW st, Handled(st),
         NEW C \in SUBSET CurrentCalls, NEW p \in {"executing", "executingSome"},
         RunCalls(s, C, st, p),
         UNCHANGED <<kind, applying, inputIndex, made>>,
         \A t \in Streams : t # s => original'[t] = original[t],
         original'[s] \subseteq 1..made,
         \A c \in autoRan \cup Runnable(C, st) : verdict'[c] = "run",
         p = "executingSome" => /\ \A c \in C : kind[c] = "readonly"
                                /\ \E d \in CurrentCalls : st[d] = "generated" /\ d \notin C
  PROVE  Conv'
<1> DEFINE now == Runnable(C, st)
<1>1. /\ s = started /\ isStreaming /\ ~Looping(s) /\ ~Awaiting(s)
      /\ \A t \in Streams : Working(t) => t = s
      /\ \A t \in Streams : pc[t] # "none" => t <= s
      /\ \A c \in ToolCallIds : thread[c] # "running"
      /\ \A e \in Streams : pc[e] # "executingSome"
  BY TheWorker
<1>2. /\ \A d \in ToolCallIds : status[d] \notin Waiting => st[d] \notin Waiting
      /\ \A d \in CurrentCalls : st[d] # "calling"
      /\ \A d \in applying : st[d] = "calling" /\ d \notin CurrentCalls
      /\ \A q \in Streams : Behind(q) => \A c \in GivenCalls(history) :
           st[c] \notin Waiting \cup {"calling"}
  BY HandledKeeps
<1>3. /\ CurrentCalls' = CurrentCalls /\ history' = history
      /\ applying' = applying /\ kind' = kind /\ isStreaming' = isStreaming
      /\ started' = started /\ made' = made /\ heir' = heir
      /\ inputIndex' = inputIndex /\ autoRan' = autoRan \cup now
  BY SameHistory DEF RunCalls
<1>4. /\ pc \in [Streams -> Points] /\ autoRan \subseteq ToolCallIds
      /\ asked \in [Streams -> SUBSET ToolCallIds]
      /\ applying \subseteq ToolCallIds /\ thread \in [ToolCallIds -> {"none", "running", "ended"}]
  BY DEF ToolsTypeOK
<1>5. /\ pc'[s] = p /\ \A t \in Streams : t # s => pc'[t] = pc[t]
      /\ asked'[s] = now /\ \A t \in Streams : t # s => asked'[t] = asked[t]
  BY <1>4 DEF RunCalls
<1>6. /\ CurrentCalls \subseteq 1..made /\ CurrentCalls \subseteq ToolCallIds
      /\ GivenCalls(history) \subseteq ToolCallIds
  BY CurrentMade DEF Conv
<1>7. /\ now \subseteq C /\ now \subseteq CurrentCalls
      /\ \A c \in now : st[c] = "generated"
  BY DEF Runnable
<1>8. \A c \in now : status[c] \in Waiting
  BY <1>2, <1>6, <1>7 DEF Waiting
<1>9. /\ \A c \in ToolCallIds : status'[c] = IF c \in now THEN "calling" ELSE st[c]
      /\ \A c \in ToolCallIds : thread'[c] = IF c \in now THEN "running" ELSE thread[c]
  BY DEF RunCalls, CallTools, NowCalling
<1> HIDE DEF now
<1>10. \A c \in ToolCallIds : thread'[c] = "running" => c \in now
  BY <1>1, <1>9
<1>11. /\ \A t \in Streams : ~Working(t)'
       /\ \A t \in Streams : Looping(t)' <=> Looping(t)
       /\ \A t \in Streams : Looping(t) => t # s
       /\ \A t \in Streams : Awaiting(t)' => t = s \/ Awaiting(t)
       /\ \A t \in Streams : pc'[t] = "executingSome" => t = s /\ p = "executingSome"
  BY <1>1, <1>5 DEF Working, Looping, Awaiting
<1>12. \A t \in Streams : Behind(t)' <=> Behind(t)
  BY <1>3, <1>11 DEF Behind
<1>13. \A d \in ToolCallIds : status[d] \notin Waiting => status'[d] \notin Waiting
  BY <1>2, <1>9 DEF Waiting
<1>14. InOrder'
  BY <1>1, <1>3, <1>5, <1>11, StreamIds DEF InOrder
<1>15. WorksAlone' /\ Reviewed' /\ MessageThere'
  BY <1>11 DEF WorksAlone, Reviewed, MessageThere, Working
<1>16. CallsMade'
  BY <1>3 DEF Conv, CallsMade
<1>17. SomeWait'
  <2> SUFFICES ASSUME p = "executingSome"
               PROVE  /\ isStreaming' /\ \E d \in CurrentCalls' : status'[d] = "generated"
                      /\ \A t \in Streams : pc'[t] = "executingSome" => t = s
                      /\ \A c \in ToolCallIds : thread'[c] = "running" =>
                           /\ c \in asked'[s] /\ kind'[c] = "readonly"
                           /\ \A t \in Streams : Awaiting(t)' /\ c \in asked'[t] => t = s
    BY <1>11 DEF SomeWait
  <2>1. \E d \in CurrentCalls' : status'[d] = "generated"
    BY <1>3, <1>6, <1>7, <1>9
  <2>2. ASSUME NEW c \in ToolCallIds, thread'[c] = "running",
               NEW t \in Streams, Awaiting(t)', c \in asked'[t], t # s
        PROVE  FALSE
    <3>1. Awaiting(t) /\ c \in asked[t] /\ c \in now
      BY <1>5, <1>10, <1>11, <2>2
    <3>2. status[c] \notin Waiting
      BY <3>1 DEF Conv, AwaitedRun
    <3>3. QED
      BY <1>8, <3>1, <3>2
  <2>3. QED
    BY <1>1, <1>3, <1>5, <1>7, <1>10, <1>11, <2>1, <2>2
<1>18. RunsCurrent'
  <2>1. ASSUME NEW c \in ToolCallIds, thread'[c] = "running"
        PROVE  c \in CurrentCalls' /\ status'[c] = "calling"
    BY <1>3, <1>7, <1>9, <1>10, <2>1
  <2>2. ASSUME NEW c \in ToolCallIds, c \in applying'
        PROVE  c \in 1..made' /\ status'[c] = "calling" /\ thread'[c] # "running"
    BY <1>2, <1>3, <1>7, <1>9, <1>10, <2>2 DEF Conv, RunsCurrent
  <2>3. QED
    BY <2>1, <2>2 DEF RunsCurrent
<1>19. AwaitedRun'
  <2>1. \A c \in now : status'[c] = "calling" /\ c \in 1..made
    BY <1>6, <1>7, <1>9
  <2>2. QED
    BY <1>3, <1>4, <1>5, <1>11, <1>13, <2>1 DEF AwaitedRun, Conv, Waiting
<1>20. LoopsGive'
  BY <1>3, <1>5, <1>11 DEF LoopsGive, Conv
<1>21. BehindSettled'
  <2>1. ASSUME NEW q \in Streams, Behind(q), NEW c \in GivenCalls(history)
        PROVE  status'[c] \notin Waiting \cup {"calling"}
    <3>1. st[c] \notin Waiting \cup {"calling"}
      BY <1>2, <2>1
    <3>2. c \notin now
      BY <1>7, <3>1 DEF Waiting
    <3>3. QED
      BY <1>6, <1>9, <3>1, <3>2
  <2>2. QED
    BY <1>3, <1>12, <2>1 DEF BehindSettled
<1>22. ChainOfLoops'
  <2> SUFFICES ASSUME NEW a \in Streams, NEW q \in Streams, Behind(a), q > a, Behind(q)
               PROVE  \E h \in Streams : /\ h = heir[a] /\ a < h /\ h <= q
                                         /\ Behind(h)' \/ Working(h)'
    BY <1>3, <1>11, <1>12 DEF ChainOfLoops
  <2>1. PICK h \in Streams : /\ h = heir[a] /\ a < h /\ h <= q
                             /\ Behind(h) \/ Working(h)
    BY DEF Conv, ChainOfLoops
  <2>2. ~Working(h)
    <3>1. SUFFICES ASSUME Working(h) PROVE FALSE
      OBVIOUS
    <3>2. h = s /\ s <= q
      BY <1>1, <2>1, <3>1
    <3>3. q <= s /\ q # s
      BY <1>1, <1>11 DEF Behind, Looping
    <3>4. QED
      BY <3>2, <3>3, StreamIds
  <2>3. QED
    BY <1>12, <2>1, <2>2
<1>23. AutoAllowed'
  <2>1. \A c \in now : status'[c] = "calling" /\ c \in 1..made
    BY <1>6, <1>7, <1>9
  <2>2. \A c \in autoRan \cup now : verdict'[c] = "run"
    BY DEF now
  <2>3. QED
    BY <1>3, <1>4, <1>13, <2>1, <2>2 DEF AutoAllowed, Conv, Waiting
<1>24. QED
  BY <1>14, <1>15, <1>16, <1>17, <1>18, <1>19, <1>20, <1>21, <1>22, <1>23 DEF Conv

\* The result of a call is given to the model, and maybe a stream starts.
LEMMA ResultFacts ==
  ASSUME ToolsTypeOK, NEW c \in ToolCallIds, NEW st,
         NEW points \in [Streams -> Points], AfterToolCall(c, st, points)
  PROVE  /\ c \notin CurrentCalls => history' = history /\ ~GoesOn(c, st)
         /\ c \in CurrentCalls =>
              /\ CurrentCalls' = CurrentCalls /\ GivenCalls(history') = CurrentCalls
              /\ FreshCalls(history') = {} /\ ToolLast(history')
              /\ \A i \in DOMAIN history' :
                   \/ i \in DOMAIN history /\ history'[i] = history[i]
                   \/ history'[i].calls = {c}
         /\ ~GoesOn(c, st) =>
              /\ pc' = points /\ started' = started /\ isStreaming' = isStreaming
              /\ Continuation(c, st) = 0
         /\ GoesOn(c, st) =>
              /\ started + 1 \in Streams /\ started' = started + 1
              /\ isStreaming' = TRUE /\ Continuation(c, st) = started + 1
              /\ pc'[started + 1] = "compile"
              /\ \A t \in Streams : t # started + 1 => pc'[t] = points[t]
              /\ \A d \in CurrentCalls : st[d] \in {"done", "errored", "canceled"}
<1>1. history \in Seq(Items) /\ CurrentCalls = CurrentIn(history)
  BY CurrentSame DEF ToolsTypeOK
<1>2. c \notin CurrentCalls => history' = history /\ ~GoesOn(c, st)
  BY DEF AfterToolCall, GoesOn
<1>3. ASSUME c \in CurrentCalls
      PROVE  /\ CurrentCalls' = CurrentCalls /\ GivenCalls(history') = CurrentCalls
             /\ FreshCalls(history') = {} /\ ToolLast(history')
             /\ \A i \in DOMAIN history' :
                  \/ i \in DOMAIN history /\ history'[i] = history[i]
                  \/ history'[i].calls = {c}
  <2>1. history' = Append(history, ToolMessage(c))
    BY <1>3 DEF AfterToolCall
  <2>2. history' \in Seq(Items)
    BY <1>1, <2>1, ItemTyped, AppendTyped
  <2>3. CurrentCalls' = CurrentIn(history')
    BY <2>2, CurrentSameNext
  <2>4. c \in CurrentIn(history)
    BY <1>1, <1>3
  <2>5. /\ CurrentIn(history') = CurrentIn(history)
        /\ GivenCalls(history') = CurrentIn(history)
        /\ FreshCalls(history') = {} /\ ToolLast(history')
        /\ \A i \in DOMAIN history' : \/ i \in DOMAIN history /\ history'[i] = history[i]
                                      \/ history'[i].calls = {c}
    <3>1. PICK hh : hh = history'
      OBVIOUS
    <3>2. PICK h : h = history
      OBVIOUS
    <3>3. h \in Seq(Items) /\ c \in CurrentIn(h) /\ hh = Append(h, ToolMessage(c))
      BY <1>1, <2>1, <2>4, <3>1, <3>2
    <3>4. /\ CurrentIn(hh) = CurrentIn(h)
          /\ GivenCalls(hh) = CurrentIn(h)
          /\ FreshCalls(hh) = {} /\ ToolLast(hh)
          /\ \A i \in DOMAIN hh : \/ i \in DOMAIN h /\ hh[i] = h[i]
                                 \/ hh[i].calls = {c}
      <4>1. \A x \in CurrentIn(h) : \A y : y = Append(h, ToolMessage(x)) =>
              /\ CurrentIn(y) = CurrentIn(h) /\ GivenCalls(y) = CurrentIn(h)
              /\ FreshCalls(y) = {} /\ ToolLast(y)
              /\ \A i \in DOMAIN y : \/ i \in DOMAIN h /\ y[i] = h[i]
                                    \/ y[i].calls = {x}
        BY <3>3, ResultAppended, Zenon
      <4>2. QED
        BY <3>3, <4>1, Zenon
    <3>5. QED
      BY <3>1, <3>2, <3>4
  <2>6. QED
    BY <1>1, <2>3, <2>5
<1>4. ~GoesOn(c, st) =>
        /\ pc' = points /\ started' = started /\ isStreaming' = isStreaming
        /\ Continuation(c, st) = 0
  BY DEF AfterToolCall, Continuation
<1>5. ASSUME GoesOn(c, st)
      PROVE  /\ started + 1 \in Streams /\ started' = started + 1
             /\ isStreaming' = TRUE /\ Continuation(c, st) = started + 1
             /\ pc'[started + 1] = "compile"
             /\ \A t \in Streams : t # started + 1 => pc'[t] = points[t]
             /\ \A d \in CurrentCalls : st[d] \in {"done", "errored", "canceled"}
  <2>1. /\ started < MaxStreams /\ started' = started + 1 /\ isStreaming' = TRUE
        /\ Continuation(c, st) = started + 1
        /\ pc' = [points EXCEPT ![started + 1] = "compile"]
    BY <1>5 DEF AfterToolCall, Continuation
  <2>2. started + 1 \in Streams
    BY <2>1, ToolCallsAssumption DEF ToolsTypeOK, Streams
  <2>3. \A d \in CurrentCalls : st[d] \in {"done", "errored", "canceled"}
    BY <1>5 DEF GoesOn, AllToolsDone, FinishedStatuses
  <2>4. QED
    BY <2>1, <2>2, <2>3
<1>6. QED
  BY <1>2, <1>3, <1>4, <1>5, Zenon

\* The current calls of a loop: they have been given to the model before.
LEMMA LoopedCurrent ==
  ASSUME ToolsTypeOK, Conv, NEW p \in Streams, Looping(p),
         original[p] \cap CurrentCalls # {}
  PROVE  CurrentCalls = GivenCalls(history) /\ Behind(p)
<1>1. CurrentCalls \subseteq FreshCalls(history) \/ CurrentCalls = GivenCalls(history)
  BY CurrentSame, CurrentKinds DEF ToolsTypeOK
<1>2. QED
  BY <1>1 DEF Conv, LoopsGive, Behind

\* The stream s enters its loop: its calls have all ended without it.
LEMMA ForkConv ==
  ASSUME ToolsTypeOK, Conv, NEW s \in Streams, Working(s), NEW st, Handled(st),
         CurrentCalls # {}, Pending(st) = {},
         \A c \in CurrentCalls : st[c] # "generating",
         CallNone(st), autoRan' = autoRan,
         NEW c \in CurrentCalls,
         LoopTurn(s, c, st, CurrentCalls \ {c}),
         UNCHANGED <<kind, applying, inputIndex, made>>,
         \A t \in Streams : t # s => original'[t] = original[t],
         original'[s] = CurrentCalls,
         \A d \in autoRan : verdict'[d] = "run"
  PROVE  Conv'
<1> DEFINE n == started + 1
           points == [pc EXCEPT ![s] = "loop"]
<1>1. /\ s = started /\ isStreaming /\ ~Looping(s) /\ ~Awaiting(s)
      /\ \A t \in Streams : Working(t) => t = s
      /\ \A t \in Streams : pc[t] # "none" => t <= s
      /\ \A d \in ToolCallIds : thread[d] # "running"
      /\ \A e \in Streams : pc[e] # "executingSome"
  BY TheWorker
<1>2. /\ \A d \in ToolCallIds : status[d] \notin Waiting => st[d] \notin Waiting
      /\ \A d \in CurrentCalls : st[d] # "calling"
      /\ \A d \in applying : st[d] = "calling" /\ d \notin CurrentCalls
  BY HandledKeeps
<1>3. /\ CurrentCalls \subseteq 1..made /\ CurrentCalls \subseteq ToolCallIds
      /\ c \in ToolCallIds
  BY CurrentMade DEF Conv
<1>4. /\ pc \in [Streams -> Points] /\ autoRan \subseteq ToolCallIds
      /\ asked \in [Streams -> SUBSET ToolCallIds] /\ applying \subseteq ToolCallIds
      /\ heir \in [Streams -> Streams \cup {0}] /\ started \in Nat
      /\ s \in Nat /\ n \in Nat /\ n > s /\ n # s
  BY <1>1, StreamIds DEF ToolsTypeOK
<1>5. /\ status' = st /\ thread' = thread /\ kind' = kind /\ applying' = applying
      /\ inputIndex' = inputIndex /\ made' = made /\ autoRan' = autoRan
  BY DEF CallNone
<1>6. points \in [Streams -> Points] /\ points[s] = "loop"
      /\ \A t \in Streams : t # s => points[t] = pc[t]
  BY <1>4 DEF Points
<1>7. /\ AfterToolCall(c, st, points)
      /\ asked'[s] = CurrentCalls \ {c} /\ heir'[s] = Continuation(c, st)
      /\ \A t \in Streams : t # s => asked'[t] = asked[t] /\ heir'[t] = heir[t]
  BY <1>4 DEF LoopTurn
<1>8. /\ CurrentCalls' = CurrentCalls /\ GivenCalls(history') = CurrentCalls
      /\ FreshCalls(history') = {} /\ ToolLast(history')
      /\ \A i \in DOMAIN history' : \/ i \in DOMAIN history /\ history'[i] = history[i]
                                    \/ history'[i].calls = {c}
  BY <1>3, <1>6, <1>7, ResultFacts
<1>9. ~GoesOn(c, st) =>
        pc' = points /\ started' = started /\ isStreaming' = isStreaming
  BY <1>3, <1>6, <1>7, ResultFacts
<1>10. GoesOn(c, st) =>
         /\ n \in Streams /\ started' = n /\ isStreaming' = TRUE
         /\ heir'[s] = n /\ pc'[n] = "compile"
         /\ \A t \in Streams : t # n => pc'[t] = points[t]
         /\ pc[n] = "none"
  <2>1. ~(n <= s)
    BY <1>4
  <2>2. GoesOn(c, st) =>
          /\ n \in Streams /\ started' = n /\ isStreaming' = TRUE
          /\ Continuation(c, st) = n /\ pc'[n] = "compile"
          /\ \A t \in Streams : t # n => pc'[t] = points[t]
    <3> HIDE DEF points
    <3>1. QED
      BY <1>3, <1>6, <1>7, ResultFacts
  <2>3. n \in Streams => pc[n] = "none"
    BY <1>1, <2>1
  <2>4. QED
    BY <1>7, <2>2, <2>3
<1> HIDE DEF n, points
<1>11. /\ pc'[s] = "loop"
       /\ \A t \in Streams : t # s /\ t # n => pc'[t] = pc[t]
  BY <1>4, <1>6, <1>9, <1>10
<1>12. /\ \A t \in Streams : Working(t)' <=> t = n /\ GoesOn(c, st)
       /\ \A t \in Streams : Looping(t)' <=> t = s \/ Looping(t)
       /\ \A t \in Streams : Awaiting(t)' => Awaiting(t) /\ t # s
       /\ \A t \in Streams : pc'[t] # "executingSome"
  <2>1. ASSUME NEW t \in Streams
        PROVE  /\ Working(t)' <=> t = n /\ GoesOn(c, st)
               /\ Looping(t)' <=> t = s \/ Looping(t)
               /\ Awaiting(t)' => Awaiting(t) /\ t # s
               /\ pc'[t] # "executingSome"
    <3>1. CASE t = n /\ GoesOn(c, st)
      BY <1>4, <1>10, <3>1 DEF Working, Looping, Awaiting
    <3>2. CASE t = s
      BY <1>4, <1>11, <3>2 DEF Working, Looping, Awaiting
    <3>3. CASE t # s /\ ~(t = n /\ GoesOn(c, st))
      <4>1. pc'[t] = pc[t]
        BY <1>6, <1>9, <1>10, <3>3
      <4>2. QED
        BY <1>1, <3>3, <4>1 DEF Working, Looping, Awaiting
    <3>4. QED
      BY <3>1, <3>2, <3>3
  <2>2. QED
    BY <2>1
<1>13. /\ Behind(s)'
       /\ \A t \in Streams : t # s => (Behind(t)' => Behind(t) /\ CurrentCalls = GivenCalls(history))
       /\ \A t \in Streams : Behind(t) /\ CurrentCalls = GivenCalls(history) => Behind(t)'
  <2>1. Behind(s)'
    BY <1>8, <1>12 DEF Behind
  <2>2. ASSUME NEW t \in Streams, t # s, Behind(t)'
        PROVE  Behind(t) /\ CurrentCalls = GivenCalls(history)
    <3>1. Looping(t) /\ original[t] \cap CurrentCalls # {}
      BY <1>8, <1>12, <2>2 DEF Behind
    <3>2. QED
      BY <3>1, LoopedCurrent
  <2>3. ASSUME NEW t \in Streams, Behind(t), CurrentCalls = GivenCalls(history)
        PROVE  Behind(t)'
    BY <1>1, <1>8, <1>12, <2>3 DEF Behind
  <2>4. QED
    BY <2>1, <2>2, <2>3
<1>14. InOrder'
  <2>1. ASSUME NEW t \in Streams, pc'[t] # "none" PROVE t <= started'
    <3>1. CASE GoesOn(c, st)
      <4>1. started' = n /\ t \in Nat
        BY <1>10, <3>1, StreamIds
      <4>2. t = n \/ t <= s
        BY <1>1, <1>4, <1>11, <2>1, StreamIds
      <4>3. QED
        BY <1>4, <4>1, <4>2
    <3>2. CASE ~GoesOn(c, st)
      BY <1>1, <1>4, <1>6, <1>9, <2>1, <3>2, StreamIds
    <3>3. QED
      BY <3>1, <3>2
  <2>2. QED
    BY <1>10, <1>12, <2>1 DEF InOrder
<1>15. WorksAlone'
  BY <1>1, <1>2, <1>5, <1>8, <1>10, <1>12 DEF WorksAlone
<1>16. Reviewed' /\ MessageThere' /\ SomeWait'
  BY <1>10, <1>12 DEF Reviewed, MessageThere, SomeWait, Working
<1>17. CallsMade'
  <2>1. {c} \subseteq 1..made
    BY <1>3
  <2>2. QED
    BY <1>3, <1>5, <1>8, <2>1 DEF Conv, CallsMade
<1>18. RunsCurrent'
  BY <1>1, <1>2, <1>4, <1>5 DEF RunsCurrent, Conv
<1>19. AwaitedRun'
  BY <1>2, <1>4, <1>5, <1>7, <1>12 DEF AwaitedRun, Conv
<1>20. LoopsGive'
  BY <1>7, <1>8, <1>12 DEF LoopsGive, Conv
<1>21. BehindSettled'
  <2>1. \A d \in CurrentCalls : st[d] \notin Waiting \cup {"calling"}
    BY <1>2 DEF Pending, Waiting
  <2>2. QED
    BY <1>5, <1>8, <2>1 DEF BehindSettled
<1>22. ChainOfLoops'
  <2> SUFFICES ASSUME NEW p \in Streams, NEW q \in Streams, Behind(p)', q > p,
                      Behind(q)' \/ (q = n /\ GoesOn(c, st))
               PROVE  \E h \in Streams : /\ h = heir'[p] /\ p < h /\ h <= q
                                         /\ Behind(h)' \/ Working(h)'
    BY <1>12 DEF ChainOfLoops
  <2>1. p \in Nat /\ q \in Nat
    BY StreamIds
  <2>2. CASE p = s
    <3>1. q = n /\ GoesOn(c, st)
      <4>1. Behind(q) => q <= s
        BY <1>1 DEF Behind, Looping
      <4>2. ~(q <= s)
        BY <1>4, <2>1, <2>2
      <4>3. QED
        BY <1>4, <1>13, <2>2, <4>1, <4>2
    <3>2. QED
      BY <1>4, <1>10, <1>12, <2>1, <2>2, <3>1
  <2>3. CASE p # s
    <3>1. Behind(p) /\ CurrentCalls = GivenCalls(history) /\ heir'[p] = heir[p]
      BY <1>7, <1>13, <2>3
    <3>2. p < s
      BY <1>1, <1>4, <2>1, <2>3, <3>1 DEF Behind, Looping
    <3>3. PICK h \in Streams : /\ h = heir[p] /\ p < h /\ h <= s
                               /\ Behind(h) \/ Working(h)
      BY <3>1, <3>2 DEF Conv, ChainOfLoops
    <3>4. Behind(h)'
      BY <1>1, <1>13, <3>1, <3>3
    <3>5. h <= q
      <4>1. CASE q = s \/ q = n
        BY <1>4, <3>3, <4>1, StreamIds
      <4>2. CASE q # s /\ q # n
        <5>1. Behind(q)
          BY <1>13, <4>2
        <5>2. PICK k \in Streams : k = heir[p] /\ k <= q
          BY <3>1, <5>1 DEF Conv, ChainOfLoops
        <5>3. QED
          BY <3>3, <5>2
      <4>3. QED
        BY <4>1, <4>2
    <3>6. QED
      BY <3>1, <3>3, <3>4, <3>5
  <2>4. QED
    BY <2>2, <2>3
<1>23. AutoAllowed'
  BY <1>2, <1>4, <1>5 DEF AutoAllowed, Conv
<1>24. QED
  BY <1>14, <1>15, <1>16, <1>17, <1>18, <1>19, <1>20, <1>21, <1>22, <1>23 DEF Conv

LEMMA ReturnConv ==
  ASSUME ToolsTypeOK, Conv, NEW s \in Streams, Working(s), NEW st, Handled(st),
         NEW b, Return(s, st, b), UNCHANGED <<kind, applying, inputIndex, made>>,
         \A t \in Streams : t # s => original'[t] = original[t],
         original'[s] \subseteq 1..made,
         \A c \in autoRan : verdict'[c] = "run"
  PROVE  Conv'
<1>1. WorkerMoves(s, st, "over")
  BY DEF WorkerMoves, Return, CallNone
<1>2. QED
  BY <1>1, WorkerMovesConv

\* Step 4: the calls of its message are run, or the stream ends, or it goes on.
LEMMA ExecuteConv ==
  ASSUME ToolsTypeOK, Conv, NEW s \in Streams, Working(s), NEW st, Handled(st),
         \A c \in CurrentCalls : st[c] # "generating",
         NEW toRun \in SUBSET CurrentCalls, NEW toAsk,
         Execute(s, st, CurrentCalls, toRun, toAsk),
         UNCHANGED <<kind, applying, inputIndex, made>>,
         \A t \in Streams : t # s => original'[t] = original[t],
         original'[s] = CurrentCalls,
         \A c \in autoRan \cup toRun : verdict'[c] = "run",
         toAsk = {} => \A c \in Pending(st) : verdict'[c] = "run",
         toAsk # {} => \E d \in CurrentCalls : st[d] = "generated" /\ d \notin toRun
  PROVE  Conv'
<1> DEFINE readonly == {c \in toRun : kind[c] = "readonly"}
           first == FirstOf(CurrentCalls)
<1>1. CurrentCalls \subseteq 1..made /\ CurrentCalls \subseteq ToolCallIds
      /\ CurrentCalls \subseteq Nat
  BY CurrentMade DEF Conv
<1>2. CASE CurrentCalls = {} \/ (toAsk # {} /\ readonly = {})
  <2>1. Return(s, st, FALSE)
    BY <1>2, Zenon DEF Execute
  <2>2. QED
    BY <1>1, <2>1, ReturnConv
<1>3. CASE /\ ~(CurrentCalls = {} \/ (toAsk # {} /\ readonly = {})) /\ Halted(s)
  <2>1. Return(s, st, isStreaming)
    BY <1>3, Zenon DEF Execute
  <2>2. QED
    BY <1>1, <2>1, ReturnConv
<1>4. CASE /\ ~(CurrentCalls = {} \/ (toAsk # {} /\ readonly = {}))
           /\ ~Halted(s) /\ toAsk # {}
  <2>1. RunCalls(s, readonly, st, "executingSome")
    BY <1>4, Zenon DEF Execute
  <2>2. readonly \in SUBSET CurrentCalls /\ Runnable(readonly, st) \subseteq toRun
    BY DEF Runnable
  <2>3. \E d \in CurrentCalls : st[d] = "generated" /\ d \notin readonly
    BY <1>4
  <2>4. \A c \in readonly : kind[c] = "readonly"
    OBVIOUS
  <2> HIDE DEF readonly
  <2>5. \A c \in autoRan \cup Runnable(readonly, st) : verdict'[c] = "run"
    BY <2>2
  <2>6. QED
    BY <1>1, <2>1, <2>2, <2>3, <2>4, <2>5, RunCallsConv
<1>5. CASE /\ ~(CurrentCalls = {} \/ (toAsk # {} /\ readonly = {}))
           /\ ~Halted(s) /\ toAsk = {} /\ Pending(st) # {}
  <2>1. RunCalls(s, Pending(st), st, "executing")
    BY <1>5, Zenon DEF Execute
  <2>2. Pending(st) \in SUBSET CurrentCalls
        /\ \A c \in autoRan \cup Runnable(Pending(st), st) : verdict'[c] = "run"
    BY <1>5 DEF Pending, Runnable
  <2>3. QED
    BY <1>1, <2>1, <2>2, RunCallsConv
<1>6. CASE /\ ~(CurrentCalls = {} \/ (toAsk # {} /\ readonly = {}))
           /\ ~Halted(s) /\ toAsk = {} /\ Pending(st) = {}
  <2>1. /\ CallNone(st) /\ autoRan' = autoRan
        /\ LoopTurn(s, first, st, CurrentCalls \ {first})
    BY <1>6, Zenon DEF Execute
  <2>2. first \in CurrentCalls
    BY <1>1, <1>6, FirstIn
  <2> HIDE DEF first
  <2>3. QED
    BY <1>6, <2>1, <2>2, ForkConv
<1>7. QED
  BY <1>2, <1>3, <1>4, <1>5, <1>6, Zenon

\* Its message has ended.
LEMMA AfterStreamConv ==
  ASSUME ToolsTypeOK, Conv, NEW s \in Streams, pc[s] = "reading",
         NEW st \in [ToolCallIds -> Statuses],
         \A c \in ToolCallIds :
           st[c] = status[c] \/ (c \in CurrentCalls /\ st[c] = "errored"),
         AfterStream(s, st),
         UNCHANGED <<kind, verdict, applying, inputIndex, made>>
  PROVE  Conv'
<1> DEFINE marked == [c \in ToolCallIds |->
                        IF c \in CurrentCalls /\ st[c] = "generating"
                        THEN "generated" ELSE st[c]]
<1>1. Working(s) /\ Handled(st)
  BY DEF Working, Handled
<1>2. CurrentCalls \subseteq 1..made /\ CurrentCalls \subseteq ToolCallIds
  BY CurrentMade DEF Conv
<1>3. /\ \A c \in autoRan : verdict'[c] = "run"
      /\ original \in [Streams -> SUBSET ToolCallIds]
      /\ asked \in [Streams -> SUBSET ToolCallIds]
      /\ \A t \in Streams : original[t] \subseteq 1..made
  BY DEF ToolsTypeOK, Conv, AutoAllowed, CallsMade
<1>4. CASE Halted(s)
  <2>1. Return(s, st, isStreaming) /\ original' = original
    BY <1>4, Zenon DEF AfterStream
  <2>2. QED
    BY <1>1, <1>3, <2>1, ReturnConv
<1>5. CASE ~Halted(s)
  <2>1. marked \in [ToolCallIds -> Statuses]
    BY DEF Statuses
  <2>2. Handled(marked) /\ \A c \in CurrentCalls : marked[c] # "generating"
    <3>1. \A d \in ToolCallIds : marked[d] = IF d \in CurrentCalls /\ st[d] = "generating"
                                             THEN "generated" ELSE st[d]
      OBVIOUS
    <3> HIDE DEF marked
    <3>2. QED
      BY <1>2, <2>1, <3>1 DEF Handled
  <2>3. original' = [original EXCEPT ![s] = CurrentCalls]
    BY <1>5, Zenon DEF AfterStream
  <2>4. original'[s] = CurrentCalls /\ \A t \in Streams : t # s => original'[t] = original[t]
    BY <1>3, <2>3
  <2>5. CASE Pending(marked) = {}
    <3>1. Execute(s, marked, CurrentCalls, {}, {})
      BY <1>5, <2>5, Zenon DEF AfterStream
    <3> HIDE DEF marked
    <3>2. QED
      BY <1>1, <1>3, <2>2, <2>4, <2>5, <3>1, ExecuteConv
  <2>6. CASE Pending(marked) # {}
    <3>1. /\ CallNone(marked)
          /\ pc' = [pc EXCEPT ![s] = "preprocess"]
          /\ asked' = [asked EXCEPT ![s] = Pending(marked)]
          /\ UNCHANGED <<history, isStreaming, autoRan, signal, heir, started>>
      BY <1>5, <2>6, Zenon DEF AfterStream
    <3>2. isStreaming
      BY <1>5 DEF Halted
    <3> HIDE DEF marked
    <3>3. WorkerMoves(s, marked, "preprocess")
      BY <1>2, <1>3, <2>2, <2>4, <3>1, <3>2 DEF WorkerMoves, CallNone, Pending
    <3>4. QED
      BY <1>1, <2>2, <3>3, WorkerMovesConv
  <2>7. QED
    BY <2>5, <2>6
<1>6. QED
  BY <1>4, <1>5

LEMMA StreamEndConv ==
  ASSUME ToolsTypeOK, Conv, NEW s \in Streams, StreamEnds(s) \/ PrematureClose(s)
  PROVE  Conv'
<1>1. CASE StreamEnds(s)
  BY <1>1, AfterStreamConv DEF StreamEnds, ToolsTypeOK
<1>2. CASE PrematureClose(s)
  <2> DEFINE st == [c \in ToolCallIds |->
                      IF c \in CurrentCalls THEN "errored" ELSE status[c]]
  <2>1. st \in [ToolCallIds -> Statuses]
    BY DEF ToolsTypeOK, Statuses
  <2>2. \A c \in ToolCallIds :
          st[c] = status[c] \/ (c \in CurrentCalls /\ st[c] = "errored")
    OBVIOUS
  <2>3. /\ pc[s] = "reading" /\ AfterStream(s, st)
        /\ UNCHANGED <<kind, verdict, applying, inputIndex, made>>
    BY <1>2, Zenon DEF PrematureClose
  <2> HIDE DEF st
  <2>4. QED
    BY <2>1, <2>2, <2>3, AfterStreamConv
<1>3. QED
  BY <1>1, <1>2


\* The answers to tools/preprocessArgs
LEMMA PreprocessedConv ==
  ASSUME ToolsTypeOK, Conv, NEW s \in Streams, NEW c \in ToolCallIds,
         NEW valid \in BOOLEAN, Preprocessed(s, c, valid)
  PROVE  Conv'
<1> DEFINE st == IF valid THEN status ELSE [status EXCEPT ![c] = "errored"]
<1>1. /\ pc[s] = "preprocess" /\ c \in asked[s]
      /\ UNCHANGED <<kind, verdict, applying, inputIndex, original, made>>
      /\ IF asked[s] # {c}
         THEN /\ CallNone(st)
              /\ asked' = [asked EXCEPT ![s] = @ \ {c}]
              /\ UNCHANGED <<history, isStreaming, autoRan, pc, signal, heir,
                             started>>
         ELSE IF Halted(s) THEN Return(s, st, isStreaming)
         ELSE IF Pending(st) = {} THEN Execute(s, st, original[s], {}, {})
         ELSE /\ CallNone(st)
              /\ asked' = [asked EXCEPT ![s] = Pending(st)]
              /\ pc' = [pc EXCEPT ![s] = "policy"]
              /\ UNCHANGED <<history, isStreaming, autoRan, signal, heir, started>>
  <2>1. UNCHANGED <<kind, verdict, applying, inputIndex, original, made>>
    BY DEF Preprocessed, counters
  <2>2. QED
    BY <2>1, Zenon DEF Preprocessed
<1>2. Working(s) /\ isStreaming
  <2>1. Working(s)
    BY <1>1 DEF Working
  <2>2. QED
    BY <2>1 DEF Conv, WorksAlone
<1>3. /\ original[s] = CurrentCalls /\ asked[s] \subseteq CurrentCalls
      /\ \A d \in CurrentCalls : status[d] # "generating"
  BY <1>1 DEF Conv, Reviewed
<1>4. /\ Handled(st) /\ \A d \in CurrentCalls : st[d] # "generating"
  <2>1. c \in CurrentCalls /\ CurrentCalls \subseteq ToolCallIds
    BY <1>1, <1>3, CurrentTyped DEF ToolsTypeOK
  <2>2. st \in [ToolCallIds -> Statuses]
        /\ \A d \in ToolCallIds : st[d] = status[d] \/ (d = c /\ st[d] = "errored")
    BY DEF ToolsTypeOK, Statuses
  <2> HIDE DEF st
  <2>3. QED
    BY <1>3, <2>1, <2>2 DEF Handled
<1>5. /\ \A d \in autoRan : verdict'[d] = "run"
      /\ original \in [Streams -> SUBSET ToolCallIds]
      /\ asked \in [Streams -> SUBSET ToolCallIds]
      /\ pc \in [Streams -> Points]
      /\ original' = original /\ original[s] \subseteq 1..made
  BY <1>1 DEF ToolsTypeOK, Conv, AutoAllowed, CallsMade
<1> HIDE DEF st
<1>6. CASE asked[s] # {c}
  <2>1. /\ CallNone(st)
        /\ asked' = [asked EXCEPT ![s] = asked[s] \ {c}]
        /\ UNCHANGED <<history, isStreaming, autoRan, pc, heir, started>>
    BY <1>1, <1>6
  <2>2. pc' = [pc EXCEPT ![s] = "preprocess"]
    BY <1>1, <1>5, <2>1
  <2>3. asked'[s] = asked[s] \ {c} /\ \A t \in Streams : t # s => asked'[t] = asked[t]
    BY <1>5, <2>1
  <2>4. WorkerMoves(s, st, "preprocess")
    BY <1>1, <1>2, <1>3, <1>4, <1>5, <2>1, <2>2, <2>3 DEF WorkerMoves, CallNone
  <2>5. QED
    BY <1>2, <1>4, <2>4, WorkerMovesConv
<1>7. CASE asked[s] = {c} /\ Halted(s)
  <2>1. Return(s, st, isStreaming)
    BY <1>1, <1>7, Zenon
  <2>2. QED
    BY <1>1, <1>2, <1>4, <1>5, <2>1, ReturnConv
<1>8. CASE asked[s] = {c} /\ ~Halted(s) /\ Pending(st) = {}
  <2>1. Execute(s, st, CurrentCalls, {}, {})
    <3>1. Execute(s, st, original[s], {}, {})
      BY <1>1, <1>8, Zenon
    <3>2. QED
      BY <1>3, <3>1
  <2>2. QED
    BY <1>1, <1>2, <1>3, <1>4, <1>5, <1>8, <2>1, ExecuteConv
<1>9. CASE asked[s] = {c} /\ ~Halted(s) /\ Pending(st) # {}
  <2>1. /\ CallNone(st)
        /\ asked' = [asked EXCEPT ![s] = Pending(st)]
        /\ pc' = [pc EXCEPT ![s] = "policy"]
        /\ UNCHANGED <<history, isStreaming, autoRan, heir, started>>
    BY <1>1, <1>9, Zenon
  <2>2. asked'[s] = Pending(st) /\ \A t \in Streams : t # s => asked'[t] = asked[t]
    BY <1>5, <2>1
  <2>3. Pending(st) \subseteq CurrentCalls
    BY DEF Pending
  <2>4. WorkerMoves(s, st, "policy")
    BY <1>1, <1>2, <1>3, <1>4, <1>5, <2>1, <2>2, <2>3 DEF WorkerMoves, CallNone
  <2>5. QED
    BY <1>2, <1>4, <2>4, WorkerMovesConv
<1>10. QED
  BY <1>6, <1>7, <1>8, <1>9

\* The answers to tools/evaluatePolicy
LEMMA PoliciesConv ==
  ASSUME ToolsTypeOK, Conv, NEW s \in Streams, NEW policy \in [asked[s] -> Policies],
         PoliciesEvaluated(s, policy)
  PROVE  Conv'
<1> DEFINE of(p) == {c \in asked[s] : policy[c] = p}
           st == [c \in ToolCallIds |->
                    IF c \in Refused(asked[s], policy) THEN "errored" ELSE status[c]]
<1>1. /\ pc[s] = "policy"
      /\ verdict' = [c \in ToolCallIds |->
                       IF c \in asked[s] THEN policy[c] ELSE verdict[c]]
      /\ Execute(s, st, original[s], of("run"), of("ask"))
  BY Zenon DEF PoliciesEvaluated
<1>2. UNCHANGED <<kind, applying, inputIndex, original, made>>
  BY DEF PoliciesEvaluated, counters
<1>3. Working(s)
  BY <1>1 DEF Working
<1>4. /\ original[s] = CurrentCalls /\ asked[s] = Pending(status)
      /\ asked[s] \subseteq CurrentCalls
      /\ \A d \in CurrentCalls : status[d] # "generating"
  BY <1>1 DEF Conv, Reviewed
<1>5. CurrentCalls \subseteq ToolCallIds
  BY CurrentTyped DEF ToolsTypeOK
<1>6. \A d \in ToolCallIds :
        st[d] = IF d \in asked[s] /\ policy[d] = "off" THEN "errored" ELSE status[d]
  BY DEF Refused
<1>7. st \in [ToolCallIds -> Statuses]
  BY DEF ToolsTypeOK, Statuses
<1>8. of("run") \in SUBSET CurrentCalls
  BY <1>4
<1>9. \A c \in of("run") : verdict'[c] = "run"
  BY <1>1, <1>4, <1>5
<1>10. \A c \in of("ask") : c \in asked[s] /\ policy[c] = "ask" /\ c \notin of("run")
  OBVIOUS
<1>11. \A c \in asked[s] : policy[c] \in Policies
                           /\ (policy[c] = "run" => c \in of("run"))
                           /\ (policy[c] = "ask" => c \in of("ask"))
  OBVIOUS
<1> DEFINE toRun == of("run")
           toAsk == of("ask")
<1>12. /\ toRun \in SUBSET CurrentCalls /\ \A c \in toRun : verdict'[c] = "run"
       /\ \A c \in toAsk : c \in asked[s] /\ policy[c] = "ask" /\ c \notin toRun
       /\ \A c \in asked[s] : policy[c] \in Policies
                              /\ (policy[c] = "run" => c \in toRun)
                              /\ (policy[c] = "ask" => c \in toAsk)
  BY <1>8, <1>9, <1>10, <1>11
<1>13. Execute(s, st, CurrentCalls, toRun, toAsk)
  BY <1>1, <1>4
<1> HIDE DEF st, of, toRun, toAsk
<1>14. Handled(st) /\ \A d \in CurrentCalls : st[d] # "generating"
  BY <1>4, <1>5, <1>6, <1>7 DEF Handled
<1>15. \A c \in autoRan \cup toRun : verdict'[c] = "run"
  <2>1. \A c \in autoRan : c \in ToolCallIds /\ verdict[c] = "run" /\ c \notin asked[s]
    BY <1>4 DEF ToolsTypeOK, Conv, AutoAllowed, Pending, Waiting
  <2>2. \A c \in autoRan : verdict'[c] = "run"
    BY <1>1, <2>1
  <2>3. QED
    BY <1>12, <2>2
<1>16. toAsk = {} => \A c \in Pending(st) : verdict'[c] = "run"
  <2> SUFFICES ASSUME toAsk = {}, NEW c \in Pending(st) PROVE verdict'[c] = "run"
    OBVIOUS
  <2>1. c \in CurrentCalls /\ c \in ToolCallIds /\ st[c] = "generated"
    BY <1>5 DEF Pending
  <2>2. status[c] = "generated" /\ ~(c \in asked[s] /\ policy[c] = "off")
    BY <1>6, <2>1
  <2>3. c \in asked[s]
    BY <1>4, <2>1, <2>2 DEF Pending
  <2>4. c \in toRun
    BY <1>12, <2>2, <2>3 DEF Policies
  <2>5. QED
    BY <1>12, <2>4
<1>17. toAsk # {} => \E d \in CurrentCalls : st[d] = "generated" /\ d \notin toRun
  <2> SUFFICES ASSUME NEW d \in toAsk
               PROVE  d \in CurrentCalls /\ st[d] = "generated" /\ d \notin toRun
    OBVIOUS
  <2>1. d \in asked[s] /\ policy[d] = "ask" /\ d \notin toRun
    BY <1>12
  <2>2. status[d] = "generated" /\ d \in CurrentCalls /\ d \in ToolCallIds
    BY <1>4, <1>5, <2>1 DEF Pending
  <2>3. st[d] = "generated"
    BY <1>6, <2>1, <2>2
  <2>4. QED
    BY <2>1, <2>2, <2>3
<1>18. original'[s] = CurrentCalls /\ \A t \in Streams : t # s => original'[t] = original[t]
  BY <1>2, <1>4
<1>19. QED
  BY <1>2, <1>3, <1>12, <1>13, <1>14, <1>15, <1>16, <1>17, <1>18, ExecuteConv

\* An error that the wrapper of the stream s catches
LEMMA ThrowFacts ==
  ASSUME ToolsTypeOK, NEW s \in Streams, Throw(s)
  PROVE  /\ isStreaming' = FALSE /\ pc'[s] = "over"
         /\ \A t \in Streams : t # s => pc'[t] = pc[t]
         /\ \A d \in ToolCallIds :
              \/ status'[d] = status[d]
              \/ status[d] \in Waiting /\ status'[d] = "canceled"
         /\ \A i \in DOMAIN history' : i \in DOMAIN history /\ history'[i] = history[i]
         /\ ToolLast(history) =>
              /\ ToolLast(history') /\ GivenCalls(history') = GivenCalls(history)
              /\ FreshCalls(history') \subseteq FreshCalls(history)
         /\ \A c \in CurrentCalls :
              status[c] # "generating" => CurrentCalls' = CurrentCalls
<1>1. /\ isStreaming' = FALSE /\ pc' = [pc EXCEPT ![s] = "over"]
      /\ history' = Cleared /\ status' = ClearedStatus
  BY DEF Throw, CancelStream
<1>2. history \in Seq(Items) /\ Cleared \in Seq(Items)
  BY ClearedTyped DEF ToolsTypeOK
<1>3. PICK n \in 0..Len(history) :
        /\ Cleared = SubSeq(history, 1, n)
        /\ ToolLast(history) => \A j \in InputsIn(history) : j <= n
        /\ \A c \in CurrentCalls : status[c] # "generating" =>
             /\ \A j \in InputsIn(history) : j <= n
             /\ \E i \in DOMAIN history : Heads(history, i) /\ i <= n
  BY ClearedCuts
<1>4. PICK hh : hh = history'
  OBVIOUS
<1>5. hh = SubSeq(history, 1, n) /\ hh \in Seq(Items)
  BY <1>1, <1>2, <1>3, <1>4
<1>6. (\A j \in InputsIn(history) : j <= n) =>
        /\ GivenCalls(hh) = GivenCalls(history)
        /\ FreshCalls(hh) \subseteq FreshCalls(history)
        /\ ToolLast(history) => ToolLast(hh)
        /\ \A i \in DOMAIN history :
             Heads(history, i) /\ i <= n => CurrentIn(hh) = CurrentIn(history)
  BY <1>2, <1>5, CutKeeps
<1>7. \A i \in DOMAIN hh : i \in DOMAIN history /\ hh[i] = history[i]
  BY <1>2, <1>5, Indices
<1>8. CurrentCalls = CurrentIn(history) /\ CurrentCalls' = CurrentIn(hh)
  <2>1. history' \in Seq(Items)
    BY <1>1, <1>2
  <2>2. QED
    BY <1>2, <1>4, <2>1, CurrentSame, CurrentSameNext
<1>9. \A d \in ToolCallIds : \/ status'[d] = status[d]
                             \/ status[d] \in Waiting /\ status'[d] = "canceled"
  BY <1>1 DEF ClearedStatus, Waiting
<1>10. pc'[s] = "over" /\ \A t \in Streams : t # s => pc'[t] = pc[t]
  BY <1>1 DEF ToolsTypeOK
<1>11. \A c \in CurrentCalls : status[c] # "generating" => CurrentCalls' = CurrentCalls
  BY <1>3, <1>6, <1>8
<1>12. ToolLast(history) => /\ ToolLast(hh) /\ GivenCalls(hh) = GivenCalls(history)
                            /\ FreshCalls(hh) \subseteq FreshCalls(history)
  BY <1>3, <1>6
<1>13. QED
  BY <1>1, <1>4, <1>7, <1>9, <1>10, <1>11, <1>12

\* The request of the stream that works fails.
LEMMA StreamFailsConv ==
  ASSUME ToolsTypeOK, Conv, NEW s \in Streams, StreamFails(s)
  PROVE  Conv'
<1>1. /\ Working(s) /\ Throw(s)
      /\ UNCHANGED <<kind, verdict, autoRan, thread, applying, original, asked,
                     heir, started, made, inputIndex>>
  BY DEF StreamFails, Working, counters
<1>2. /\ s = started /\ ~Looping(s) /\ ~Awaiting(s)
      /\ \A t \in Streams : Working(t) => t = s
      /\ \A t \in Streams : pc[t] # "none" => t <= s
      /\ \A c \in ToolCallIds : thread[c] # "running"
      /\ \A e \in Streams : pc[e] # "executingSome"
  BY <1>1, TheWorker
<1>3. /\ pc'[s] = "over"
      /\ \A t \in Streams : t # s => pc'[t] = pc[t]
      /\ \A d \in ToolCallIds :
           \/ status'[d] = status[d]
           \/ status[d] \in Waiting /\ status'[d] = "canceled"
      /\ \A i \in DOMAIN history' : i \in DOMAIN history /\ history'[i] = history[i]
      /\ ToolLast(history) =>
           /\ ToolLast(history') /\ GivenCalls(history') = GivenCalls(history)
           /\ FreshCalls(history') \subseteq FreshCalls(history)
  BY <1>1, ThrowFacts
<1>4. \A d \in ToolCallIds :
        status[d] \notin Waiting => status'[d] = status[d]
  BY <1>3
<1>5. /\ \A t \in Streams : ~Working(t)'
      /\ \A t \in Streams : Looping(t)' <=> Looping(t)
      /\ \A t \in Streams : Looping(t) => t # s
      /\ \A t \in Streams : Awaiting(t)' => Awaiting(t)
      /\ \A t \in Streams : pc'[t] # "executingSome"
  BY <1>2, <1>3 DEF Working, Looping, Awaiting
<1>6. \A t \in Streams : Looping(t) =>
        /\ ToolLast(history') /\ GivenCalls(history') = GivenCalls(history)
        /\ FreshCalls(history') \subseteq FreshCalls(history)
  BY <1>3 DEF Conv, LoopsGive
<1>7. \A t \in Streams : Behind(t)' <=> Behind(t)
  BY <1>1, <1>5, <1>6 DEF Behind
<1>8. InOrder'
  BY <1>1, <1>2, <1>3, <1>5, StreamIds DEF InOrder
<1>9. WorksAlone' /\ Reviewed' /\ MessageThere' /\ SomeWait'
  BY <1>5 DEF WorksAlone, Reviewed, MessageThere, SomeWait, Working
<1>10. CallsMade'
  BY <1>1, <1>3 DEF Conv, CallsMade
<1>11. RunsCurrent'
  BY <1>1, <1>2, <1>4 DEF Conv, RunsCurrent, Waiting
<1>12. AwaitedRun'
  <2>1. \A t \in Streams : asked[t] \subseteq ToolCallIds
    BY DEF ToolsTypeOK
  <2>2. QED
    BY <1>1, <1>4, <1>5, <2>1 DEF Conv, AwaitedRun
<1>13. LoopsGive'
  BY <1>1, <1>5, <1>6 DEF Conv, LoopsGive
<1>14. BehindSettled'
  <2>1. GivenCalls(history) \subseteq ToolCallIds
    BY CurrentMade DEF Conv
  <2>2. ASSUME NEW t \in Streams, Behind(t), NEW c \in GivenCalls(history)
        PROVE  status'[c] \notin Waiting \cup {"calling"}
    BY <1>4, <2>1, <2>2 DEF Conv, BehindSettled
  <2>3. \A t \in Streams : Behind(t) => GivenCalls(history') = GivenCalls(history)
    BY <1>6 DEF Behind
  <2>4. QED
    BY <1>7, <2>2, <2>3 DEF BehindSettled
<1>15. ChainOfLoops'
  <2> SUFFICES ASSUME NEW p \in Streams, NEW q \in Streams, Behind(p), q > p, Behind(q)
               PROVE  \E h \in Streams : /\ h = heir[p] /\ p < h /\ h <= q
                                         /\ Behind(h)' \/ Working(h)'
    BY <1>1, <1>5, <1>7 DEF ChainOfLoops
  <2>1. PICK h \in Streams : /\ h = heir[p] /\ p < h /\ h <= q
                             /\ Behind(h) \/ Working(h)
    BY DEF Conv, ChainOfLoops
  <2>2. ~Working(h)
    <3> SUFFICES ASSUME Working(h) PROVE FALSE
      OBVIOUS
    <3>1. h = s /\ q # s /\ q <= s
      BY <1>2 DEF Behind, Looping
    <3>2. QED
      BY <2>1, <3>1, StreamIds
  <2>3. QED
    BY <1>7, <2>1, <2>2
<1>16. AutoAllowed'
  <2>1. autoRan \subseteq ToolCallIds
    BY DEF ToolsTypeOK
  <2>2. QED
    BY <1>1, <1>4, <2>1 DEF Conv, AutoAllowed
<1>17. QED
  BY <1>8, <1>9, <1>10, <1>11, <1>12, <1>13, <1>14, <1>15, <1>16 DEF Conv

\* The model has said something: the calls D are new.
LEMMA AnswerFacts ==
  ASSUME ToolsTypeOK, CallsMade, NEW D \in SUBSET ToolCallIds, D \subseteq 1..made',
         NEW b \in BOOLEAN,
         history' = Answered([role |-> "assistant", calls |-> D, text |-> b]),
         made' \in Nat, made <= made'
  PROVE  /\ GivenCalls(history') = GivenCalls(history)
         /\ ToolLast(history) => ToolLast(history')
         /\ FreshCalls(history') \subseteq FreshCalls(history) \cup D
         /\ CurrentCalls' \subseteq CurrentCalls \cup D
         /\ \A i \in DOMAIN history' : history'[i].calls \subseteq 1..made'
<1>1. /\ history \in Seq(Items) /\ history' \in Seq(Items)
      /\ CurrentCalls = CurrentIn(history) /\ CurrentCalls' = CurrentIn(history')
  <2>1. history \in Seq(Items)
    BY DEF ToolsTypeOK
  <2>2. history' \in Seq(Items)
    BY <2>1, AnsweredTyped
  <2>3. QED
    BY <2>1, <2>2, CurrentSame, CurrentSameNext
<1>2. 1..made \subseteq 1..made' /\ made \in Nat
  BY DEF ToolsTypeOK
<1>3. \A i \in DOMAIN history : history[i].calls \subseteq 1..made'
  BY <1>2 DEF CallsMade
<1>4. QED
  <2>1. PICK hh : hh = history'
    OBVIOUS
  <2>2. (hh = history /\ history = <<>>) \/ Extended(history, hh, D)
    BY <1>1, <2>1, AnsweredExtends
  <2>3. CASE hh = history
    BY <1>1, <1>3, <2>1, <2>3
  <2>4. CASE Extended(history, hh, D)
    <3>1. /\ GivenCalls(hh) = GivenCalls(history)
          /\ ToolLast(history) => ToolLast(hh)
          /\ FreshCalls(hh) \subseteq FreshCalls(history) \cup D
          /\ CurrentIn(hh) \subseteq CurrentIn(history) \cup D
          /\ \A S : (D \subseteq S /\ \A i \in DOMAIN history : history[i].calls \subseteq S)
                      => \A i \in DOMAIN hh : hh[i].calls \subseteq S
      BY <1>1, <2>4, Extends
    <3>2. \A i \in DOMAIN hh : hh[i].calls \subseteq 1..made'
      BY <1>3, <3>1
    <3>3. QED
      BY <1>1, <2>1, <3>1, <3>2
  <2>5. QED
    BY <2>2, <2>3, <2>4

LEMMA AnswerConv ==
  ASSUME ToolsTypeOK, Conv, NEW s \in Streams, pc[s] = "reading",
         NEW D \in SUBSET ToolCallIds, D \cap 1..made = {}, D \subseteq 1..made',
         NEW b \in BOOLEAN,
         history' = Answered([role |-> "assistant", calls |-> D, text |-> b]),
         made' \in Nat, made <= made',
         \A d \in ToolCallIds : IF d \in D THEN status'[d] = "generating"
                                ELSE status'[d] = status[d],
         UNCHANGED <<isStreaming, verdict, autoRan, thread, applying, pc, asked,
                     original, heir, started>>
  PROVE  Conv'
<1>1. /\ isStreaming /\ \A t \in Streams : Working(t) => t = s
      /\ \A c \in ToolCallIds : thread[c] # "running"
      /\ \A e \in Streams : pc[e] # "executingSome"
      /\ \A c \in CurrentCalls : status[c] # "calling"
  <2>1. Working(s)
    BY DEF Working
  <2>2. QED
    BY <2>1, TheWorker
<1>3. 1..made \subseteq 1..made' /\ made \in Nat
  BY DEF ToolsTypeOK
<1>5. /\ GivenCalls(history') = GivenCalls(history)
      /\ ToolLast(history) => ToolLast(history')
      /\ FreshCalls(history') \subseteq FreshCalls(history) \cup D
      /\ CurrentCalls' \subseteq CurrentCalls \cup D
      /\ \A i \in DOMAIN history' : history'[i].calls \subseteq 1..made'
  BY AnswerFacts DEF Conv
<1>6. /\ CurrentCalls \subseteq ToolCallIds /\ GivenCalls(history) \subseteq 1..made
      /\ GivenCalls(history) \subseteq ToolCallIds
  BY CurrentMade DEF Conv
<1>7. /\ asked \in [Streams -> SUBSET ToolCallIds] /\ autoRan \subseteq ToolCallIds
      /\ applying \subseteq ToolCallIds
  BY DEF ToolsTypeOK
<1>8. \A d \in ToolCallIds : d \in 1..made => status'[d] = status[d]
  OBVIOUS
<1>9. \A t \in Streams : /\ Working(t)' <=> Working(t)
                         /\ Looping(t)' <=> Looping(t)
                         /\ Awaiting(t)' <=> Awaiting(t)
  BY DEF Working, Looping, Awaiting
<1>10. \A t \in Streams : Behind(t)' <=> Behind(t)
  BY <1>5, <1>9 DEF Behind
<1>11. InOrder'
  BY <1>9 DEF Conv, InOrder
<1>12. WorksAlone'
  <2>1. ASSUME NEW c \in CurrentCalls' PROVE status'[c] # "calling"
    <3>1. CASE c \in D
      BY <3>1
    <3>2. CASE c \notin D
      <4>1. c \in CurrentCalls /\ c \in ToolCallIds
        BY <1>5, <1>6, <3>2
      <4>2. status'[c] = status[c]
        BY <3>2, <4>1
      <4>3. QED
        BY <1>1, <4>1, <4>2
    <3>3. QED
      BY <3>1, <3>2
  <2>2. QED
    BY <1>1, <2>1 DEF WorksAlone
<1>13. Reviewed' /\ MessageThere'
  BY <1>1, <1>9 DEF Reviewed, MessageThere, Working
<1>14. CallsMade'
  BY <1>3, <1>5 DEF Conv, CallsMade
<1>15. SomeWait'
  BY <1>1 DEF SomeWait
<1>16. RunsCurrent'
  BY <1>1, <1>3, <1>7, <1>8 DEF Conv, RunsCurrent
<1>17. AwaitedRun'
  BY <1>3, <1>7, <1>8, <1>9 DEF Conv, AwaitedRun
<1>18. LoopsGive'
  BY <1>5, <1>9 DEF Conv, LoopsGive, CallsMade
<1>19. BehindSettled'
  BY <1>5, <1>6, <1>8, <1>10 DEF Conv, BehindSettled
<1>20. ChainOfLoops'
  BY <1>9, <1>10 DEF Conv, ChainOfLoops
<1>21. AutoAllowed'
  BY <1>3, <1>7, <1>8 DEF Conv, AutoAllowed
<1>22. QED
  BY <1>11, <1>12, <1>13, <1>14, <1>15, <1>16, <1>17, <1>18, <1>19, <1>20, <1>21
     DEF Conv

LEMMA SaidConv ==
  ASSUME ToolsTypeOK, Conv, NEW s \in Streams,
         Text(s) \/ \E k \in Kinds : ToolCallDelta(s, k)
  PROVE  Conv'
<1>1. CASE Text(s)
  <2>1. /\ pc[s] = "reading"
        /\ history' = Answered([role |-> "assistant", calls |-> {}, text |-> TRUE])
        /\ UNCHANGED <<isStreaming, status, verdict, autoRan, thread, applying, pc,
                       asked, original, heir, started, made>>
    BY <1>1 DEF Text, callVars, streamVars
  <2>2. /\ {} \in SUBSET ToolCallIds /\ {} \cap 1..made = {} /\ {} \subseteq 1..made'
        /\ made' \in Nat /\ made <= made'
    BY <2>1 DEF ToolsTypeOK
  <2>3. \A d \in ToolCallIds : IF d \in {} THEN status'[d] = "generating"
                               ELSE status'[d] = status[d]
    BY <2>1
  <2>4. QED
    BY <2>1, <2>2, <2>3, AnswerConv
<1>2. ASSUME NEW k \in Kinds, ToolCallDelta(s, k) PROVE Conv'
  <2> DEFINE c == made + 1
  <2>1. /\ pc[s] = "reading" /\ made < MaxToolCalls /\ made' = c
        /\ history' = Answered([role |-> "assistant", calls |-> {c}, text |-> FALSE])
        /\ status' = [status EXCEPT ![c] = "generating"]
        /\ UNCHANGED <<isStreaming, verdict, autoRan, thread, applying, pc, asked,
                       original, heir, started>>
    BY <1>2 DEF ToolCallDelta, streamVars
  <2>2. /\ c \in ToolCallIds /\ {c} \cap 1..made = {} /\ {c} \subseteq 1..made'
        /\ made' \in Nat /\ made <= made'
    BY <2>1, ToolCallsAssumption DEF ToolsTypeOK, ToolCallIds
  <2>3. \A d \in ToolCallIds : IF d \in {c} THEN status'[d] = "generating"
                               ELSE status'[d] = status[d]
    BY <2>1, <2>2 DEF ToolsTypeOK
  <2> HIDE DEF c
  <2>4. {c} \in SUBSET ToolCallIds
    BY <2>2
  <2>5. QED
    BY <2>1, <2>2, <2>3, <2>4, AnswerConv
<1>3. QED
  BY <1>1, <1>2

\* The message of the user is there already.
LEMMA ResolvedKeeps ==
  ASSUME ToolsTypeOK, Conv, NEW s \in Streams, Resolved(s)
  PROVE  history' = history /\ CurrentCalls = {}
<1> DEFINE i == inputIndex[s]
<1>1. i \in DOMAIN history /\ history[i] = UserMessage /\ CurrentCalls = {}
  BY DEF Resolved, Conv, MessageThere
<1>2. history' = [history EXCEPT ![i].role = "user", ![i].text = TRUE]
  BY <1>1, Zenon DEF Resolved
<1>3. history' = history
  <2>1. [UserMessage EXCEPT !.role = "user"] = UserMessage
        /\ [UserMessage EXCEPT !.text = TRUE] = UserMessage
    <3>1. [UserMessage EXCEPT !.role = "user"] = UserMessage
      BY DEF UserMessage
    <3>2. ASSUME NEW v
          PROVE  [[role |-> "user", calls |-> {}, text |-> v] EXCEPT !.text = v]
                   = [role |-> "user", calls |-> {}, text |-> v]
      OBVIOUS
    <3>3. [UserMessage EXCEPT !.text = TRUE] = UserMessage
      BY <3>2, Zenon DEF UserMessage
    <3>4. QED
      BY <3>1, <3>3
  <2>2. PICK h : h = history
    OBVIOUS
  <2>3. h \in Seq(Items) /\ i \in DOMAIN h /\ h[i] = UserMessage
        /\ history' = [h EXCEPT ![i].role = "user", ![i].text = TRUE]
    BY <1>1, <1>2, <2>2 DEF ToolsTypeOK
  <2> HIDE DEF i
  <2>4. h = [j \in DOMAIN h |-> h[j]]
    BY <2>3
  <2>5. [h EXCEPT ![i].role = "user", ![i].text = TRUE]
          = [[h EXCEPT ![i] = [h[i] EXCEPT !.role = "user"]]
               EXCEPT ![i] = [[h[i] EXCEPT !.role = "user"] EXCEPT !.text = TRUE]]
    BY <2>3
  <2>6. QED
    BY <2>1, <2>2, <2>3, <2>4, <2>5
<1>4. QED
  BY <1>1, <1>3

LEMMA WorkerStepConv ==
  ASSUME ToolsTypeOK, Conv, NEW s \in Streams,
         Resolved(s) \/ Compiled(s) \/ NotEnoughContext(s) \/ StoppedRead(s)
  PROVE  Conv'
<1>1. Working(s) /\ Handled(status)
  BY DEF Resolved, Compiled, NotEnoughContext, StoppedRead, Working, Handled,
         ToolsTypeOK
<1>2. /\ \A c \in autoRan : verdict[c] = "run"
      /\ original[s] \subseteq 1..made /\ isStreaming
  BY <1>1 DEF Conv, AutoAllowed, CallsMade, WorksAlone
<1>3. CASE Resolved(s)
  <2>1. history' = history
    BY <1>3, ResolvedKeeps
  <2>2. WorkerMoves(s, status, "compile")
    BY <1>2, <1>3, <2>1 DEF WorkerMoves, Resolved, callVars, counters
  <2>3. QED
    BY <1>1, <2>2, WorkerMovesConv
<1>4. CASE Compiled(s)
  <2>1. WorkerMoves(s, status, "reading")
    BY <1>2, <1>4 DEF WorkerMoves, Compiled, callVars, counters
  <2>2. QED
    BY <1>1, <2>1, WorkerMovesConv
<1>5. CASE NotEnoughContext(s)
  <2>1. WorkerMoves(s, status, "over")
    BY <1>2, <1>5 DEF WorkerMoves, NotEnoughContext, callVars, counters
  <2>2. QED
    BY <1>1, <2>1, WorkerMovesConv
<1>6. CASE StoppedRead(s)
  BY <1>2, <1>6 DEF StoppedRead
<1>7. QED
  BY <1>3, <1>4, <1>5, <1>6

-----------------------------------------------------------------------------
(***************************************************************************)
(* Steps of calls and of streams that wait for them                        *)
(***************************************************************************)
\* A current call ends while no stream works: no loop is behind any more, and
\* if a stream goes on, then it works alone.
LEMMA ResultConv ==
  ASSUME ToolsTypeOK, Conv, \A s \in Streams : ~Working(s), NEW c \in CurrentCalls,
         NEW st \in [ToolCallIds -> Statuses], st[c] \notin Waiting \cup {"calling"},
         \A d \in ToolCallIds : d # c => st[d] = status[d],
         status[c] \in {"calling", "generated"},
         status[c] = "generated" => \A e \in Streams : pc[e] # "executingSome",
         AfterToolCall(c, st, pc), status' = st,
         \A d \in ToolCallIds : thread'[d] = "running" => thread[d] = "running" /\ d # c,
         applying' \subseteq applying \ {c},
         UNCHANGED <<kind, verdict, autoRan, asked, original, heir, made>>
  PROVE  Conv'
<1> DEFINE n == started + 1
<1>1. /\ CurrentCalls \subseteq 1..made /\ CurrentCalls \subseteq ToolCallIds
      /\ c \in ToolCallIds /\ c \in 1..made
  BY CurrentMade DEF Conv
<1>2. /\ pc \in [Streams -> Points] /\ autoRan \subseteq ToolCallIds
      /\ asked \in [Streams -> SUBSET ToolCallIds] /\ applying \subseteq ToolCallIds
      /\ started \in Nat /\ n \in Nat /\ n > started
  BY DEF ToolsTypeOK
<1>3. /\ CurrentCalls' = CurrentCalls /\ GivenCalls(history') = CurrentCalls
      /\ FreshCalls(history') = {} /\ ToolLast(history')
      /\ \A i \in DOMAIN history' : \/ i \in DOMAIN history /\ history'[i] = history[i]
                                    \/ history'[i].calls = {c}
  BY <1>1, <1>2, ResultFacts
<1>4. ~GoesOn(c, st) => pc' = pc /\ started' = started /\ isStreaming' = isStreaming
  BY <1>1, <1>2, ResultFacts
<1>5. GoesOn(c, st) =>
        /\ n \in Streams /\ started' = n /\ isStreaming' = TRUE /\ pc'[n] = "compile"
        /\ \A t \in Streams : t # n => pc'[t] = pc[t]
        /\ \A d \in CurrentCalls : st[d] \in {"done", "errored", "canceled"}
  BY <1>1, <1>2, ResultFacts
<1>6. \A t \in Streams : pc[t] # "none" => t <= started /\ t # n
  BY <1>2, StreamIds DEF Conv, InOrder
<1> HIDE DEF n
<1>7. /\ \A t \in Streams : Working(t)' <=> t = n /\ GoesOn(c, st)
      /\ \A t \in Streams : Looping(t)' <=> Looping(t)
      /\ \A t \in Streams : Awaiting(t)' <=> Awaiting(t)
      /\ \A t \in Streams : pc'[t] = "executingSome" => pc[t] = "executingSome"
      /\ \A t \in Streams : pc'[t] # "none" =>
           pc[t] # "none" \/ (t = n /\ GoesOn(c, st))
      /\ \A t \in Streams : pc'[t] \notin {"resolving", "preprocess", "policy"}
  <2>1. ASSUME NEW t \in Streams
        PROVE  /\ Working(t)' <=> t = n /\ GoesOn(c, st)
               /\ Looping(t)' <=> Looping(t)
               /\ Awaiting(t)' <=> Awaiting(t)
               /\ pc'[t] = "executingSome" => pc[t] = "executingSome"
               /\ pc'[t] # "none" => pc[t] # "none" \/ (t = n /\ GoesOn(c, st))
               /\ pc'[t] \notin {"resolving", "preprocess", "policy"}
    <3>1. CASE t = n /\ GoesOn(c, st)
      BY <1>5, <1>6, <3>1 DEF Working, Looping, Awaiting
    <3>2. CASE ~(t = n /\ GoesOn(c, st))
      <4>1. pc'[t] = pc[t]
        BY <1>4, <1>5, <3>2
      <4>2. QED
        BY <3>2, <4>1 DEF Working, Looping, Awaiting
    <3>3. QED
      BY <3>1, <3>2
  <2>2. QED
    BY <2>1
<1>8. ASSUME NEW t \in Streams PROVE ~Behind(t)'
  <2> SUFFICES ASSUME Behind(t)' PROVE FALSE
    OBVIOUS
  <2>1. Looping(t) /\ original[t] \cap CurrentCalls # {}
    BY <1>3, <1>7 DEF Behind
  <2>2. CurrentCalls = GivenCalls(history) /\ Behind(t)
    BY <2>1, LoopedCurrent
  <2>3. status[c] \notin Waiting \cup {"calling"}
    BY <2>2 DEF Conv, BehindSettled
  <2>4. QED
    BY <2>3 DEF Waiting
<1>9. \A d \in ToolCallIds : status[d] \notin Waiting => st[d] \notin Waiting
  BY DEF Waiting
<1>10. InOrder'
  <2>1. ASSUME NEW t \in Streams, pc'[t] # "none" PROVE t <= started'
    <3>1. CASE GoesOn(c, st)
      <4>1. started' = n /\ (t <= started \/ t = n) /\ t \in Nat
        BY <1>5, <1>6, <1>7, <2>1, <3>1, StreamIds
      <4>2. QED
        BY <1>2, <4>1
    <3>2. CASE ~GoesOn(c, st)
      BY <1>4, <1>6, <1>7, <2>1, <3>2
    <3>3. QED
      BY <3>1, <3>2
  <2>2. QED
    BY <1>5, <1>7, <2>1 DEF InOrder
<1>11. WorksAlone'
  <2> SUFFICES ASSUME GoesOn(c, st)
               PROVE  /\ isStreaming'
                      /\ \A d \in ToolCallIds : thread'[d] # "running"
                      /\ \A e \in Streams : pc'[e] # "executingSome"
                      /\ \A d \in CurrentCalls' : status'[d] # "calling"
    BY <1>7 DEF WorksAlone
  <2>1. \A d \in CurrentCalls : st[d] \in {"done", "errored", "canceled"}
    BY <1>5
  <2>2. \A d \in ToolCallIds : thread'[d] # "running"
    <3> SUFFICES ASSUME NEW d \in ToolCallIds, thread'[d] = "running" PROVE FALSE
      OBVIOUS
    <3>1. d # c /\ d \in CurrentCalls /\ status[d] = "calling"
      BY DEF Conv, RunsCurrent
    <3>2. st[d] = "calling"
      BY <3>1
    <3>3. QED
      BY <2>1, <3>1, <3>2
  <2>3. \A e \in Streams : pc'[e] # "executingSome"
    <3> SUFFICES ASSUME NEW e \in Streams, pc[e] = "executingSome" PROVE FALSE
      BY <1>7
    <3>1. PICK d \in CurrentCalls : status[d] = "generated"
      BY DEF Conv, SomeWait
    <3>2. d # c /\ d \in ToolCallIds
      BY <1>1, <3>1
    <3>3. st[d] = "generated"
      BY <3>1, <3>2
    <3>4. QED
      BY <2>1, <3>3
  <2>4. QED
    BY <1>3, <1>5, <2>1, <2>2, <2>3
<1>12. Reviewed' /\ MessageThere'
  BY <1>7 DEF Reviewed, MessageThere
<1>13. CallsMade'
  BY <1>1, <1>3 DEF Conv, CallsMade
<1>14. SomeWait'
  <2> SUFFICES ASSUME NEW e \in Streams, pc'[e] = "executingSome"
               PROVE  /\ isStreaming'
                      /\ \E d \in CurrentCalls' : status'[d] = "generated"
                      /\ \A t \in Streams : pc'[t] = "executingSome" => t = e
                      /\ \A d \in ToolCallIds : thread'[d] = "running" =>
                           /\ d \in asked'[e] /\ kind'[d] = "readonly"
                           /\ \A t \in Streams : Awaiting(t)' /\ d \in asked'[t] => t = e
    BY DEF SomeWait
  <2>1. /\ isStreaming
        /\ \E d \in CurrentCalls : status[d] = "generated"
        /\ \A t \in Streams : pc[t] = "executingSome" => t = e
        /\ \A d \in ToolCallIds : thread[d] = "running" =>
             /\ d \in asked[e] /\ kind[d] = "readonly"
             /\ \A t \in Streams : Awaiting(t) /\ d \in asked[t] => t = e
    BY <1>7 DEF Conv, SomeWait
  <2>2. isStreaming'
    BY <1>4, <1>5, <2>1
  <2>3. \E d \in CurrentCalls' : status'[d] = "generated"
    <3>1. PICK d \in CurrentCalls : status[d] = "generated"
      BY <2>1
    <3>2. d # c /\ d \in ToolCallIds
      BY <1>1, <1>7, <3>1
    <3>3. QED
      BY <1>3, <3>1, <3>2
  <2>4. QED
    BY <1>7, <2>1, <2>2, <2>3
<1>15. RunsCurrent'
  <2>1. ASSUME NEW d \in ToolCallIds, thread'[d] = "running"
        PROVE  d \in CurrentCalls' /\ status'[d] = "calling"
    BY <1>3, <2>1 DEF Conv, RunsCurrent
  <2>2. ASSUME NEW d \in ToolCallIds, d \in applying'
        PROVE  d \in 1..made' /\ status'[d] = "calling" /\ thread'[d] # "running"
    BY <2>2 DEF Conv, RunsCurrent
  <2>3. QED
    BY <2>1, <2>2 DEF RunsCurrent
<1>16. AwaitedRun'
  BY <1>2, <1>7, <1>9 DEF Conv, AwaitedRun
<1>17. LoopsGive'
  BY <1>3, <1>7 DEF Conv, LoopsGive
<1>18. BehindSettled' /\ ChainOfLoops'
  BY <1>8 DEF BehindSettled, ChainOfLoops
<1>19. AutoAllowed'
  BY <1>2, <1>9 DEF Conv, AutoAllowed
<1>20. QED
  BY <1>10, <1>11, <1>12, <1>13, <1>14, <1>15, <1>16, <1>17, <1>18, <1>19 DEF Conv

LEMMA NoneWorks ==
  ASSUME ToolsTypeOK, Conv,
         \/ ~isStreaming
         \/ \E c \in ToolCallIds : thread[c] = "running"
         \/ \E c \in CurrentCalls : status[c] = "calling"
  PROVE  \A s \in Streams : ~Working(s)
BY DEF Conv, WorksAlone

LEMMA NoneWaits ==
  ASSUME Conv, ~isStreaming
  PROVE  \A e \in Streams : pc[e] # "executingSome"
BY DEF Conv, SomeWait

LEMMA SettledStatus ==
  ASSUME ToolsTypeOK, NEW c \in ToolCallIds, NEW result \in {"done", "errored"}
  PROVE  /\ Settled(c, result) \in [ToolCallIds -> Statuses]
         /\ \A d \in ToolCallIds : d # c => Settled(c, result)[d] = status[d]
         /\ Settled(c, result)[c] \in {result, status[c]}
         /\ c \in CurrentCalls => Settled(c, result)[c] = result
<1>1. CASE Known(c)
  BY <1>1 DEF Settled, ToolsTypeOK, Statuses
<1>2. CASE ~Known(c)
  <2>1. c \notin CurrentCalls
    <3> SUFFICES ASSUME c \in CurrentCalls PROVE FALSE
      OBVIOUS
    <3>1. history \in Seq(Items) /\ CurrentCalls = CurrentIn(history)
      BY CurrentSame DEF ToolsTypeOK
    <3>2. PICK i \in DOMAIN history : Heads(history, i) /\ c \in history[i].calls
      BY <3>1 DEF CurrentIn
    <3>3. i \in CallingAnswers
      BY <3>2, SameOperators DEF Heads
    <3>4. QED
      BY <1>2, <3>2, <3>3 DEF Known
  <2>2. Settled(c, result) = [status EXCEPT ![c] = status[c]]
    BY <1>2 DEF Settled
  <2>3. QED
    BY <2>1, <2>2 DEF ToolsTypeOK
<1>3. QED
  BY <1>1, <1>2

LEMMA ToolReturnsConv ==
  ASSUME ToolsTypeOK, Conv, NEW c \in ToolCallIds, NEW result \in {"done", "errored"},
         ToolReturns(c, result)
  PROVE  Conv'
<1> DEFINE st == Settled(c, result)
<1>1. /\ thread[c] = "running" /\ status' = st
      /\ thread' = [thread EXCEPT ![c] = "ended"] /\ AfterToolCall(c, st, pc)
      /\ UNCHANGED <<kind, verdict, autoRan, applying, asked, original, heir, made>>
  BY DEF ToolReturns, counters
<1>2. c \in CurrentCalls /\ status[c] = "calling" /\ c \notin applying
  BY <1>1 DEF Conv, RunsCurrent
<1>3. /\ st \in [ToolCallIds -> Statuses] /\ st[c] = result
      /\ \A d \in ToolCallIds : d # c => st[d] = status[d]
  BY <1>2, SettledStatus
<1>4. \A d \in ToolCallIds : thread'[d] = "running" => thread[d] = "running" /\ d # c
  BY <1>1 DEF ToolsTypeOK
<1>5. /\ applying' \subseteq applying \ {c} /\ st[c] \notin Waiting \cup {"calling"}
      /\ \A s \in Streams : ~Working(s)
      /\ status[c] \in {"calling", "generated"} /\ status[c] # "generated"
  BY <1>1, <1>2, <1>3, NoneWorks DEF Waiting
<1> HIDE DEF st
<1>6. QED
  BY <1>1, <1>2, <1>3, <1>4, <1>5, ResultConv

LEMMA RejectConv ==
  ASSUME ToolsTypeOK, Conv, NEW c \in ToolCallIds, Reject(c)
  PROVE  Conv'
<1> DEFINE st == [status EXCEPT ![c] = "canceled"]
<1>1. /\ c \in CurrentCalls /\ status[c] = "generated" /\ ~isStreaming
      /\ status' = st /\ AfterToolCall(c, st, pc)
      /\ UNCHANGED <<kind, verdict, autoRan, thread, applying, asked, original,
                     heir, made>>
  BY DEF Reject, OffersButton, Pending, counters
<1>2. /\ st \in [ToolCallIds -> Statuses] /\ st[c] = "canceled"
      /\ \A d \in ToolCallIds : d # c => st[d] = status[d]
  BY DEF ToolsTypeOK, Statuses
<1>3. c \notin applying /\ thread[c] # "running"
  BY <1>1 DEF Conv, RunsCurrent
<1>4. /\ \A s \in Streams : ~Working(s)
      /\ \A e \in Streams : pc[e] # "executingSome"
  BY <1>1, NoneWorks, NoneWaits
<1>5. /\ \A d \in ToolCallIds : thread'[d] = "running" => thread[d] = "running" /\ d # c
      /\ applying' \subseteq applying \ {c} /\ st[c] \notin Waiting \cup {"calling"}
      /\ status[c] \in {"calling", "generated"}
  BY <1>1, <1>2, <1>3 DEF Waiting
<1> HIDE DEF st
<1>6. QED
  BY <1>1, <1>2, <1>4, <1>5, ResultConv

\* Only the statuses and what runs of calls change, and the streams go no
\* further: calls that waited may run or end, and calls may end.
CallsMove ==
  /\ history' = history
  /\ UNCHANGED <<pc, kind, verdict, autoRan, asked, original, heir, made, started,
                 inputIndex>>
  /\ status' \in [ToolCallIds -> Statuses]
  /\ \A d \in ToolCallIds : status[d] \notin Waiting => status'[d] \notin Waiting
  /\ \A d \in ToolCallIds : status'[d] = "calling" =>
       status[d] = "calling" \/ (d \in CurrentCalls /\ status[d] = "generated")
  /\ RunsCurrent'

\* They do while no stream works and none waits for the user.
LEMMA CallsMoveConv ==
  ASSUME ToolsTypeOK, Conv, CallsMove, \A s \in Streams : ~Working(s),
         \A e \in Streams : pc[e] # "executingSome"
  PROVE  Conv'
<1>1. CurrentCalls' = CurrentCalls
  BY SameHistory DEF CallsMove
<1>2. /\ asked \in [Streams -> SUBSET ToolCallIds] /\ autoRan \subseteq ToolCallIds
      /\ GivenCalls(history) \subseteq ToolCallIds
  BY CurrentMade DEF ToolsTypeOK, Conv
<1>3. \A t \in Streams : /\ ~Working(t)' /\ (Looping(t)' <=> Looping(t))
                         /\ (Awaiting(t)' <=> Awaiting(t)) /\ pc'[t] = pc[t]
  BY DEF CallsMove, Working, Looping, Awaiting
<1>4. \A t \in Streams : Behind(t)' <=> Behind(t)
  BY <1>3 DEF Behind, CallsMove
<1>5. InOrder' /\ WorksAlone' /\ Reviewed' /\ MessageThere' /\ SomeWait'
  BY <1>3 DEF CallsMove, Conv, InOrder, WorksAlone, Reviewed, MessageThere, SomeWait,
              Working
<1>6. CallsMade'
  BY DEF CallsMove, Conv, CallsMade
<1>7. AwaitedRun'
  BY <1>2, <1>3 DEF CallsMove, Conv, AwaitedRun
<1>8. LoopsGive'
  BY <1>3 DEF CallsMove, Conv, LoopsGive
<1>9. BehindSettled'
  <2>1. ASSUME NEW t \in Streams, Behind(t), NEW c \in GivenCalls(history)
        PROVE  status'[c] \notin Waiting \cup {"calling"}
    <3>1. c \in ToolCallIds /\ status[c] \notin Waiting \cup {"calling"}
      BY <1>2, <2>1 DEF Conv, BehindSettled
    <3>2. status'[c] \notin Waiting
      BY <3>1 DEF CallsMove
    <3>3. status'[c] # "calling"
      BY <3>1 DEF CallsMove, Waiting
    <3>4. QED
      BY <3>2, <3>3
  <2>2. QED
    BY <1>4, <2>1 DEF CallsMove, BehindSettled
<1>10. ChainOfLoops'
  BY <1>3, <1>4 DEF CallsMove, Conv, ChainOfLoops
<1>11. AutoAllowed'
  BY <1>2 DEF CallsMove, Conv, AutoAllowed
<1>12. QED
  BY <1>5, <1>6, <1>7, <1>8, <1>9, <1>10, <1>11 DEF Conv, CallsMove

LEMMA UserConv ==
  ASSUME ToolsTypeOK, Conv, Undisturbed, NEW c \in ToolCallIds,
         Accept(c) \/ RejectByKey(c)
  PROVE  Conv'
<1>1. c \in CurrentCalls /\ status[c] = "generated" /\ ~isStreaming
  BY DEF Accept, RejectByKey, OffersButton, OffersShortcut, FirstPending, Pending,
         Undisturbed
<1>2. /\ \A s \in Streams : ~Working(s)
      /\ \A e \in Streams : pc[e] # "executingSome"
  BY <1>1, NoneWorks, NoneWaits
<1>3. c \notin applying /\ thread[c] # "running" /\ CurrentCalls \subseteq ToolCallIds
  BY <1>1, CurrentMade DEF Conv, RunsCurrent
<1>4. CASE Accept(c)
  <2>1. /\ history' = history /\ applying' = applying
        /\ UNCHANGED <<pc, kind, verdict, autoRan, asked, original, heir, made,
                       started, inputIndex>>
    BY <1>4 DEF Accept, streamVars, counters
  <2>2. /\ status' = [d \in ToolCallIds |-> IF d = c THEN "calling" ELSE status[d]]
        /\ thread' = [d \in ToolCallIds |-> IF d = c THEN "running" ELSE thread[d]]
    BY <1>1, <1>4 DEF Accept, CallTools, Runnable, NowCalling
  <2>3. status' \in [ToolCallIds -> Statuses]
    BY <2>2 DEF ToolsTypeOK, Statuses
  <2>4. RunsCurrent'
    BY <1>1, <1>3, <2>1, <2>2, SameHistory DEF Conv, RunsCurrent
  <2>5. CallsMove
    BY <1>1, <2>1, <2>2, <2>3, <2>4 DEF CallsMove, Waiting
  <2>6. QED
    BY <1>2, <2>5, CallsMoveConv
<1>5. CASE RejectByKey(c)
  <2>1. /\ history' = history /\ applying' = applying /\ thread' = thread
        /\ UNCHANGED <<pc, kind, verdict, autoRan, asked, original, heir, made,
                       started, inputIndex>>
        /\ status' = [status EXCEPT ![c] = "canceled"]
    BY <1>5 DEF RejectByKey, streamVars, counters
  <2>2. status' \in [ToolCallIds -> Statuses]
        /\ \A d \in ToolCallIds : status'[d] = IF d = c THEN "canceled" ELSE status[d]
    BY <2>1 DEF ToolsTypeOK, Statuses
  <2>3. RunsCurrent'
    BY <1>1, <1>3, <2>1, <2>2, SameHistory DEF Conv, RunsCurrent
  <2>4. CallsMove
    BY <1>1, <2>1, <2>2, <2>3 DEF CallsMove, Waiting
  <2>5. QED
    BY <1>2, <2>4, CallsMoveConv
<1>6. QED
  BY <1>4, <1>5

\* An edit tool opens its diff: it is not among the calls that are run while
\* another one waits for the user, since those only read.
LEMMA EditOpensConv ==
  ASSUME ToolsTypeOK, Conv, NEW c \in ToolCallIds, EditOpens(c)
  PROVE  Conv'
<1>1. /\ thread[c] = "running" /\ kind[c] = "edit"
      /\ thread' = [thread EXCEPT ![c] = "ended"] /\ applying' = applying \cup {c}
      /\ history' = history /\ status' = status
      /\ UNCHANGED <<pc, kind, verdict, autoRan, asked, original, heir, made,
                     started, inputIndex>>
  BY DEF EditOpens, streamVars, counters
<1>2. c \in CurrentCalls /\ status[c] = "calling" /\ c \in 1..made
  BY <1>1, CurrentMade DEF Conv, RunsCurrent
<1>3. \A s \in Streams : ~Working(s)
  BY <1>1, NoneWorks
<1>4. \A e \in Streams : pc[e] # "executingSome"
  BY <1>1 DEF Conv, SomeWait
<1>5. RunsCurrent'
  BY <1>1, <1>2, SameHistory DEF Conv, RunsCurrent, ToolsTypeOK
<1>6. CallsMove
  BY <1>1, <1>5 DEF CallsMove, ToolsTypeOK
<1>7. QED
  BY <1>3, <1>4, <1>6, CallsMoveConv

\* The request of a tool fails, and the stream that awaits it with it: no other
\* stream waits for the user then.
LEMMA RequestFailsConv ==
  ASSUME ToolsTypeOK, Conv, NEW c \in ToolCallIds, ToolRequestFails(c)
  PROVE  Conv'
<1>1. /\ thread[c] = "running" /\ thread' = [thread EXCEPT ![c] = "ended"]
      /\ UNCHANGED <<kind, verdict, autoRan, applying, asked, original, heir,
                     started, made, inputIndex>>
  BY DEF ToolRequestFails, counters
<1>2. /\ c \in CurrentCalls /\ status[c] = "calling" /\ c \in 1..made
  BY <1>1, CurrentMade DEF Conv, RunsCurrent
<1>3. \A s \in Streams : ~Working(s)
  BY <1>1, NoneWorks
<1>4. /\ \A d \in ToolCallIds : thread'[d] = "running" => thread[d] = "running"
      /\ \A d \in ToolCallIds : thread[d] # "running" => thread'[d] # "running"
  BY <1>1 DEF ToolsTypeOK
<1>5. /\ asked \in [Streams -> SUBSET ToolCallIds] /\ autoRan \subseteq ToolCallIds
      /\ GivenCalls(history) \subseteq ToolCallIds
  BY CurrentMade DEF ToolsTypeOK, Conv
<1>6. CASE UNCHANGED <<history, isStreaming, epoch, status, pc>>
  <2>1. CurrentCalls' = CurrentCalls
    BY <1>6, SameHistory
  <2>2. \A t \in Streams : /\ ~Working(t)' /\ (Looping(t)' <=> Looping(t))
                           /\ (Awaiting(t)' <=> Awaiting(t)) /\ pc'[t] = pc[t]
                           /\ (Behind(t)' <=> Behind(t))
    BY <1>1, <1>3, <1>6 DEF Working, Looping, Awaiting, Behind
  <2>3. InOrder' /\ WorksAlone' /\ Reviewed' /\ MessageThere'
    BY <1>1, <2>2 DEF Conv, InOrder, WorksAlone, Reviewed, MessageThere, Working
  <2>4. SomeWait'
    BY <1>1, <1>4, <1>6, <2>1, <2>2 DEF Conv, SomeWait
  <2>5. RunsCurrent'
    BY <1>1, <1>4, <1>6, <2>1 DEF Conv, RunsCurrent
  <2>6. CallsMade' /\ AwaitedRun' /\ AutoAllowed'
    BY <1>1, <1>6, <2>2 DEF Conv, CallsMade, AwaitedRun, AutoAllowed
  <2>7. LoopsGive' /\ BehindSettled'
    BY <1>1, <1>6, <2>2 DEF Conv, LoopsGive, BehindSettled
  <2>8. ChainOfLoops'
    BY <1>1, <1>3, <2>2 DEF Conv, ChainOfLoops
  <2>9. QED
    BY <2>3, <2>4, <2>5, <2>6, <2>7, <2>8 DEF Conv
<1>7. ASSUME NEW s \in Streams, Awaiting(s), c \in asked[s], Throw(s)
      PROVE  Conv'
  <2>1. /\ pc'[s] = "over"
        /\ \A t \in Streams : t # s => pc'[t] = pc[t]
        /\ \A d \in ToolCallIds :
             \/ status'[d] = status[d]
             \/ status[d] \in Waiting /\ status'[d] = "canceled"
        /\ \A i \in DOMAIN history' : i \in DOMAIN history /\ history'[i] = history[i]
        /\ ToolLast(history) =>
             /\ ToolLast(history') /\ GivenCalls(history') = GivenCalls(history)
             /\ FreshCalls(history') \subseteq FreshCalls(history)
        /\ \A d \in CurrentCalls :
             status[d] # "generating" => CurrentCalls' = CurrentCalls
    BY <1>7, ThrowFacts
  <2>2. CurrentCalls' = CurrentCalls
    BY <1>2, <2>1
  <2>3. \A d \in ToolCallIds : status[d] \notin Waiting => status'[d] = status[d]
    BY <2>1
  <2>4. /\ \A t \in Streams : ~Working(t)'
        /\ \A t \in Streams : Looping(t)' <=> Looping(t)
        /\ \A t \in Streams : Awaiting(t)' => Awaiting(t)
    BY <1>3, <1>7, <2>1 DEF Working, Looping, Awaiting
  <2>5. \A e \in Streams : pc'[e] # "executingSome"
    <3> SUFFICES ASSUME NEW e \in Streams, pc'[e] = "executingSome" PROVE FALSE
      OBVIOUS
    <3>1. e # s /\ pc[e] = "executingSome"
      BY <2>1
    <3>2. s = e
      BY <1>1, <1>7, <3>1 DEF Conv, SomeWait
    <3>3. QED
      BY <3>1, <3>2
  <2>6. \A t \in Streams : Looping(t) =>
          /\ ToolLast(history') /\ GivenCalls(history') = GivenCalls(history)
          /\ FreshCalls(history') \subseteq FreshCalls(history)
    BY <2>1 DEF Conv, LoopsGive
  <2>7. \A t \in Streams : Behind(t)' <=> Behind(t)
    BY <1>1, <2>4, <2>6 DEF Behind
  <2>8. InOrder' /\ WorksAlone' /\ Reviewed' /\ MessageThere' /\ SomeWait'
    <3>1. \A t \in Streams : pc'[t] # "none" => t <= started
      BY <1>7, <2>1 DEF Conv, InOrder, Awaiting
    <3>2. InOrder'
      BY <1>1, <2>4, <3>1 DEF InOrder
    <3>3. QED
      BY <2>4, <2>5, <3>2 DEF WorksAlone, Reviewed, MessageThere, SomeWait, Working
  <2>9. CallsMade'
    BY <1>1, <2>1 DEF Conv, CallsMade
  <2>10. RunsCurrent'
    BY <1>1, <1>4, <2>2, <2>3 DEF Conv, RunsCurrent, Waiting
  <2>11. AwaitedRun' /\ AutoAllowed'
    BY <1>1, <1>5, <2>3, <2>4 DEF Conv, AwaitedRun, AutoAllowed
  <2>12. LoopsGive'
    BY <1>1, <2>4, <2>6 DEF Conv, LoopsGive
  <2>13. BehindSettled'
    <3>1. ASSUME NEW t \in Streams, Behind(t), NEW d \in GivenCalls(history)
          PROVE  status'[d] \notin Waiting \cup {"calling"}
      BY <1>5, <2>3, <3>1 DEF Conv, BehindSettled
    <3>2. \A t \in Streams : Behind(t) => GivenCalls(history') = GivenCalls(history)
      BY <2>6 DEF Behind
    <3>3. QED
      BY <2>7, <3>1, <3>2 DEF BehindSettled
  <2>14. ChainOfLoops'
    BY <1>1, <1>3, <2>4, <2>7 DEF Conv, ChainOfLoops
  <2>15. QED
    BY <2>8, <2>9, <2>10, <2>11, <2>12, <2>13, <2>14 DEF Conv
<1>8. QED
  BY <1>6, <1>7 DEF ToolRequestFails, Awaiting

\* The diff of an edit is closed, maybe long after its message.
LEMMA EditClosesConv ==
  ASSUME ToolsTypeOK, Conv, NEW c \in ToolCallIds, NEW failed \in BOOLEAN,
         EditCloses(c, failed)
  PROVE  Conv'
<1>1. /\ c \in applying /\ applying' = applying \ {c} /\ thread' = thread
      /\ UNCHANGED <<kind, verdict, autoRan, asked, original, heir, made, inputIndex>>
  BY DEF EditCloses, counters
<1>2. status[c] = "calling" /\ c \in 1..made /\ thread[c] # "running"
  BY <1>1 DEF Conv, RunsCurrent
<1>3. PICK result \in {"done", "errored"} :
        status' = Settled(c, result) /\ AfterToolCall(c, Settled(c, result), pc)
  BY <1>2 DEF EditCloses
<1> DEFINE st == Settled(c, result)
<1>4. /\ st \in [ToolCallIds -> Statuses] /\ (c \in CurrentCalls => st[c] = result)
      /\ st[c] \in {result, status[c]}
      /\ \A d \in ToolCallIds : d # c => st[d] = status[d]
  BY SettledStatus
<1>5. status' = st /\ AfterToolCall(c, st, pc)
  BY <1>3
<1> HIDE DEF st
<1>6. CASE c \in CurrentCalls
  <2>1. \A s \in Streams : ~Working(s)
    BY <1>2, <1>6, NoneWorks
  <2>2. /\ \A d \in ToolCallIds : thread'[d] = "running" => thread[d] = "running" /\ d # c
        /\ applying' \subseteq applying \ {c} /\ st[c] \notin Waiting \cup {"calling"}
        /\ status[c] \in {"calling", "generated"} /\ status[c] # "generated"
    BY <1>1, <1>2, <1>4, <1>6 DEF Waiting
  <2>3. QED
    BY <1>1, <1>4, <1>5, <1>6, <2>1, <2>2, ResultConv
<1>7. CASE c \notin CurrentCalls
  <2>1. /\ history' = history /\ pc' = pc /\ started' = started
        /\ isStreaming' = isStreaming
    BY <1>5, <1>7, ResultFacts DEF ToolsTypeOK
  <2>2. CurrentCalls' = CurrentCalls /\ CurrentCalls \subseteq ToolCallIds
        /\ GivenCalls(history) \subseteq ToolCallIds
    BY <2>1, SameHistory, CurrentMade DEF Conv
  <2>3. /\ \A d \in CurrentCalls : status'[d] = status[d]
        /\ \A d \in ToolCallIds : status[d] \notin Waiting => status'[d] \notin Waiting
        /\ \A d \in ToolCallIds : status'[d] = "calling" => status[d] = "calling"
    BY <1>2, <1>4, <1>5, <1>7, <2>2 DEF Waiting
  <2>4. \A t \in Streams : /\ (Working(t)' <=> Working(t)) /\ (Looping(t)' <=> Looping(t))
                           /\ (Awaiting(t)' <=> Awaiting(t)) /\ pc'[t] = pc[t]
                           /\ (Behind(t)' <=> Behind(t))
    BY <1>1, <2>1 DEF Working, Looping, Awaiting, Behind
  <2>5. Pending(status)' = Pending(status)
    BY <2>2, <2>3 DEF Pending
  <2>6. /\ asked \in [Streams -> SUBSET ToolCallIds] /\ autoRan \subseteq ToolCallIds
        /\ applying \subseteq ToolCallIds
    BY DEF ToolsTypeOK
  <2>7. InOrder'
    BY <2>1, <2>4 DEF Conv, InOrder
  <2>8. WorksAlone'
    BY <1>1, <2>1, <2>2, <2>3, <2>4 DEF Conv, WorksAlone
  <2>9. Reviewed'
    BY <1>1, <2>2, <2>3, <2>4, <2>5 DEF Conv, Reviewed
  <2>10. CallsMade' /\ MessageThere'
    BY <1>1, <2>1, <2>2 DEF Conv, CallsMade, MessageThere
  <2>11. SomeWait'
    BY <1>1, <2>1, <2>2, <2>3, <2>4 DEF Conv, SomeWait
  <2>12. RunsCurrent'
    <3>1. \A d \in ToolCallIds : d # c => status'[d] = status[d]
      BY <1>4, <1>5
    <3>2. QED
      BY <1>1, <1>2, <2>2, <3>1 DEF Conv, RunsCurrent
  <2>13. AwaitedRun' /\ AutoAllowed'
    BY <1>1, <2>3, <2>4, <2>6 DEF Conv, AwaitedRun, AutoAllowed
  <2>14. LoopsGive' /\ ChainOfLoops'
    BY <1>1, <2>1, <2>4 DEF Conv, LoopsGive, ChainOfLoops
  <2>15. BehindSettled'
    BY <2>1, <2>2, <2>3, <2>4 DEF Conv, BehindSettled
  <2>16. QED
    BY <2>7, <2>8, <2>9, <2>10, <2>11, <2>12, <2>13, <2>14, <2>15 DEF Conv
<1>8. QED
  BY <1>6, <1>7

\* The calls that a stream awaits have returned.
LEMMA ExecutedConv ==
  ASSUME ToolsTypeOK, Conv, NEW s \in Streams, Executed(s)
  PROVE  Conv'
<1>1. /\ Awaiting(s) /\ pc' = [pc EXCEPT ![s] = "over"]
      /\ isStreaming' = (isStreaming /\ pc[s] = "executing")
      /\ UNCHANGED <<history, status, kind, verdict, autoRan, thread, applying,
                     asked, original, heir, started, made, inputIndex>>
  BY DEF Executed, callVars, counters, Awaiting
<1>2. pc'[s] = "over" /\ \A t \in Streams : t # s => pc'[t] = pc[t]
  BY <1>1 DEF ToolsTypeOK
<1>3. CurrentCalls' = CurrentCalls
  BY <1>1, SameHistory
<1>4. \A t \in Streams : /\ (Working(t)' <=> Working(t)) /\ (Looping(t)' <=> Looping(t))
                         /\ (Awaiting(t)' => Awaiting(t)) /\ (t # s => pc'[t] = pc[t])
                         /\ (Working(t) => t # s) /\ (Behind(t)' <=> Behind(t))
  BY <1>1, <1>2 DEF Working, Looping, Awaiting, Behind
<1>5. \A e \in Streams : pc'[e] = "executingSome" =>
        pc[e] = "executingSome" /\ e # s /\ pc[s] = "executing"
  BY <1>1, <1>2 DEF Conv, SomeWait, Awaiting
<1>6. \A t \in Streams : Working(t) => pc[s] = "executing"
  BY <1>1 DEF Conv, WorksAlone, Awaiting
<1>7. InOrder'
  BY <1>1, <1>2, <1>4 DEF Conv, InOrder, Awaiting
<1>8. WorksAlone'
  BY <1>1, <1>3, <1>4, <1>5, <1>6 DEF Conv, WorksAlone
<1>9. Reviewed'
  BY <1>1, <1>2, <1>3 DEF Conv, Reviewed, Pending
<1>10. CallsMade' /\ RunsCurrent' /\ AutoAllowed'
  BY <1>1, <1>3 DEF Conv, CallsMade, RunsCurrent, AutoAllowed
<1>11. MessageThere'
  BY <1>1, <1>2, <1>3 DEF Conv, MessageThere
<1>12. SomeWait'
  <2>1. pc[s] = "executing" /\ isStreaming => isStreaming'
    BY <1>1, Zenon
  <2>2. QED
    BY <1>1, <1>3, <1>4, <1>5, <2>1 DEF Conv, SomeWait
<1>13. AwaitedRun' /\ LoopsGive' /\ BehindSettled' /\ ChainOfLoops'
  BY <1>1, <1>4 DEF Conv, AwaitedRun, LoopsGive, BehindSettled, ChainOfLoops
<1>14. QED
  BY <1>7, <1>8, <1>9, <1>10, <1>11, <1>12, <1>13 DEF Conv

\* A loop whose heir has ended is the last one of its chain.
LEMMA LastOfChain ==
  ASSUME Conv, NEW s \in Streams, Behind(s), heir[s] # 0 => pc[heir[s]] = "over",
         NEW q \in Streams, q > s
  PROVE  ~Behind(q) /\ ~Working(q)
BY StreamIds DEF Conv, ChainOfLoops, Behind, Looping, Working

\* The loop of a stream has gone through its calls.
LEMMA LoopEndsConv ==
  ASSUME ToolsTypeOK, Conv, NEW s \in Streams, LoopStep(s), asked[s] = {}
  PROVE  Conv'
<1>1. /\ Looping(s) /\ (heir[s] # 0 => pc[heir[s]] = "over")
      /\ pc' = [pc EXCEPT ![s] = "over"]
      /\ UNCHANGED <<history, isStreaming, status, kind, verdict, autoRan, thread,
                     applying, asked, original, heir, started, made, inputIndex>>
  BY DEF LoopStep, callVars, counters, Looping
<1>2. pc'[s] = "over" /\ \A t \in Streams : t # s => pc'[t] = pc[t]
  BY <1>1 DEF ToolsTypeOK
<1>3. CurrentCalls' = CurrentCalls
  BY <1>1, SameHistory
<1>4. \A t \in Streams : /\ (Working(t)' <=> Working(t)) /\ (Looping(t)' => Looping(t))
                         /\ (Awaiting(t)' <=> Awaiting(t)) /\ (Working(t) => t # s)
                         /\ (Behind(t)' <=> Behind(t) /\ t # s)
                         /\ (pc'[t] = "executingSome" <=> pc[t] = "executingSome")
  BY <1>1, <1>2 DEF Working, Looping, Awaiting, Behind
<1>5. InOrder'
  BY <1>1, <1>2, <1>4 DEF Conv, InOrder, Looping
<1>6. WorksAlone'
  BY <1>1, <1>3, <1>4 DEF Conv, WorksAlone
<1>7. Reviewed'
  BY <1>1, <1>2, <1>3 DEF Conv, Reviewed, Pending
<1>8. CallsMade' /\ RunsCurrent' /\ AutoAllowed'
  BY <1>1, <1>3 DEF Conv, CallsMade, RunsCurrent, AutoAllowed
<1>9. MessageThere'
  BY <1>1, <1>2, <1>3 DEF Conv, MessageThere
<1>10. SomeWait'
  BY <1>1, <1>3, <1>4 DEF Conv, SomeWait
<1>11. AwaitedRun' /\ LoopsGive' /\ BehindSettled'
  BY <1>1, <1>4 DEF Conv, AwaitedRun, LoopsGive, BehindSettled
<1>12. ChainOfLoops'
  <2> SUFFICES ASSUME NEW p \in Streams, NEW q \in Streams, Behind(p), p # s, q > p,
                      (Behind(q) /\ q # s) \/ Working(q)
               PROVE  \E h \in Streams : /\ h = heir[p] /\ p < h /\ h <= q
                                         /\ Behind(h)' \/ Working(h)'
    BY <1>1, <1>4 DEF ChainOfLoops
  <2>1. PICK h \in Streams : /\ h = heir[p] /\ p < h /\ h <= q
                             /\ Behind(h) \/ Working(h)
    BY DEF Conv, ChainOfLoops
  <2>2. h # s
    <3> SUFFICES ASSUME h = s PROVE FALSE
      OBVIOUS
    <3>1. Behind(s) /\ q # s
      BY <1>1, <1>4, <2>1
    <3>2. q > s
      BY <2>1, <3>1, StreamIds
    <3>3. QED
      BY <1>1, <3>1, <3>2, LastOfChain
  <2>3. QED
    BY <1>4, <2>1, <2>2
<1>13. QED
  BY <1>5, <1>6, <1>7, <1>8, <1>9, <1>10, <1>11, <1>12 DEF Conv

\* A call that is not current any more is passed over.
LEMMA LoopSkipsConv ==
  ASSUME ToolsTypeOK, Conv, NEW s \in Streams, Looping(s),
         heir[s] # 0 => pc[heir[s]] = "over",
         NEW left \in SUBSET asked[s], NEW h0,
         UNCHANGED <<history, pc, isStreaming, status, kind, verdict, autoRan, thread,
                     applying, original, started, made, inputIndex>>,
         asked' = [asked EXCEPT ![s] = left], heir' = [heir EXCEPT ![s] = h0]
  PROVE  Conv'
<1>1. CurrentCalls' = CurrentCalls
  BY SameHistory
<1>2. /\ \A t \in Streams : t # s => asked'[t] = asked[t] /\ heir'[t] = heir[t]
      /\ asked'[s] = left
  BY DEF ToolsTypeOK
<1>3. \A t \in Streams : /\ (Working(t)' <=> Working(t)) /\ (Looping(t)' <=> Looping(t))
                         /\ (Awaiting(t)' <=> Awaiting(t)) /\ (Behind(t)' <=> Behind(t))
                         /\ (Awaiting(t) => t # s)
  BY DEF Working, Looping, Awaiting, Behind
<1>4. InOrder' /\ WorksAlone' /\ CallsMade' /\ RunsCurrent' /\ AutoAllowed'
  BY <1>1, <1>3 DEF Conv, InOrder, WorksAlone, CallsMade, RunsCurrent, AutoAllowed
<1>5. Reviewed' /\ MessageThere'
  BY <1>1, <1>2 DEF Conv, Reviewed, MessageThere, Pending, Looping
<1>6. SomeWait'
  BY <1>1, <1>2, <1>3 DEF Conv, SomeWait, Awaiting
<1>7. AwaitedRun' /\ LoopsGive' /\ BehindSettled'
  BY <1>2, <1>3 DEF Conv, AwaitedRun, LoopsGive, BehindSettled
<1>8. ChainOfLoops'
  <2> SUFFICES ASSUME NEW p \in Streams, NEW q \in Streams, Behind(p), q > p,
                      Behind(q) \/ Working(q)
               PROVE  \E h \in Streams : /\ h = heir'[p] /\ p < h /\ h <= q
                                         /\ Behind(h) \/ Working(h)
    BY <1>3 DEF ChainOfLoops
  <2>1. p # s
    BY LastOfChain
  <2>2. QED
    BY <1>2, <2>1 DEF Conv, ChainOfLoops
<1>9. QED
  BY <1>4, <1>5, <1>6, <1>7, <1>8 DEF Conv

\* The loop gives a result again: it is the last one of its chain, so that the
\* stream that it starts works alone.
LEMMA LoopGivesConv ==
  ASSUME ToolsTypeOK, Conv, NEW s \in Streams, Looping(s),
         heir[s] # 0 => pc[heir[s]] = "over",
         NEW c \in asked[s], c \in CurrentCalls,
         LoopTurn(s, c, status, asked[s] \ {c}),
         UNCHANGED <<status, kind, verdict, autoRan, thread, applying, original, made,
                     inputIndex>>
  PROVE  Conv'
<1> DEFINE n == started + 1
<1>1. /\ CurrentCalls \subseteq 1..made /\ CurrentCalls \subseteq ToolCallIds
      /\ c \in ToolCallIds /\ c \in 1..made
  BY CurrentMade DEF Conv
<1>2. /\ pc \in [Streams -> Points] /\ autoRan \subseteq ToolCallIds
      /\ asked \in [Streams -> SUBSET ToolCallIds] /\ applying \subseteq ToolCallIds
      /\ heir \in [Streams -> Streams \cup {0}]
      /\ started \in Nat /\ n \in Nat /\ n > started
  BY DEF ToolsTypeOK
<1>3. [pc EXCEPT ![s] = "loop"] = pc
  BY <1>2 DEF Looping
<1>4. /\ AfterToolCall(c, status, pc)
      /\ asked'[s] = asked[s] \ {c} /\ heir'[s] = Continuation(c, status)
      /\ \A t \in Streams : t # s => asked'[t] = asked[t] /\ heir'[t] = heir[t]
  BY <1>2, <1>3 DEF LoopTurn
<1>5. CurrentCalls = GivenCalls(history) /\ Behind(s)
  <2>1. original[s] \cap CurrentCalls # {}
    BY DEF Conv, LoopsGive
  <2>2. QED
    BY <2>1, LoopedCurrent
<1>6. \A d \in CurrentCalls : status[d] \notin Waiting \cup {"calling"}
  BY <1>5 DEF Conv, BehindSettled
<1>7. \A q \in Streams : q > s => ~Behind(q) /\ ~Working(q)
  BY <1>5, LastOfChain
<1>8. /\ s <= started /\ s \in Nat
      /\ \A t \in Streams : pc[t] # "none" => t <= started /\ t # n
  BY <1>2, StreamIds DEF Conv, InOrder, Looping
<1>9. \A t \in Streams : ~Working(t)
  <2> SUFFICES ASSUME NEW t \in Streams, Working(t) PROVE FALSE
    OBVIOUS
  <2>1. t = started /\ t # s /\ t \in Nat
    BY StreamIds DEF Conv, InOrder, Working, Looping
  <2>2. t > s
    BY <1>8, <2>1
  <2>3. QED
    BY <1>7, <2>2
<1>10. \A e \in Streams : pc[e] # "executingSome"
  BY <1>6 DEF Conv, SomeWait, Waiting
<1>11. \A d \in ToolCallIds : thread[d] # "running"
  BY <1>6 DEF Conv, RunsCurrent
<1>12. /\ CurrentCalls' = CurrentCalls /\ GivenCalls(history') = GivenCalls(history)
       /\ FreshCalls(history') = {} /\ ToolLast(history')
       /\ \A i \in DOMAIN history' : \/ i \in DOMAIN history /\ history'[i] = history[i]
                                     \/ history'[i].calls = {c}
  BY <1>1, <1>2, <1>4, <1>5, ResultFacts
<1>13. ~GoesOn(c, status) => pc' = pc /\ started' = started /\ isStreaming' = isStreaming
  BY <1>1, <1>2, <1>4, ResultFacts
<1>14. GoesOn(c, status) =>
         /\ n \in Streams /\ started' = n /\ isStreaming' = TRUE /\ pc'[n] = "compile"
         /\ heir'[s] = n /\ \A t \in Streams : t # n => pc'[t] = pc[t]
  BY <1>1, <1>2, <1>4, ResultFacts
<1> HIDE DEF n
<1>15. /\ \A t \in Streams : Working(t)' <=> t = n /\ GoesOn(c, status)
       /\ \A t \in Streams : Looping(t)' <=> Looping(t)
       /\ \A t \in Streams : Awaiting(t)' <=> Awaiting(t)
       /\ \A t \in Streams : pc'[t] # "none" =>
            pc[t] # "none" \/ (t = n /\ GoesOn(c, status))
       /\ \A t \in Streams :
            pc'[t] \notin {"resolving", "preprocess", "policy", "executingSome"}
  <2>1. ASSUME NEW t \in Streams
        PROVE  /\ Working(t)' <=> t = n /\ GoesOn(c, status)
               /\ Looping(t)' <=> Looping(t)
               /\ Awaiting(t)' <=> Awaiting(t)
               /\ pc'[t] # "none" => pc[t] # "none" \/ (t = n /\ GoesOn(c, status))
               /\ pc'[t] \notin {"resolving", "preprocess", "policy", "executingSome"}
    <3>1. CASE t = n /\ GoesOn(c, status)
      BY <1>8, <1>14, <3>1 DEF Working, Looping, Awaiting
    <3>2. CASE ~(t = n /\ GoesOn(c, status))
      <4>1. pc'[t] = pc[t]
        BY <1>13, <1>14, <3>2
      <4>2. QED
        BY <1>9, <1>10, <3>2, <4>1 DEF Working, Looping, Awaiting
    <3>3. QED
      BY <3>1, <3>2
  <2>2. QED
    BY <2>1
<1>16. \A t \in Streams : Behind(t)' <=> Behind(t)
  BY <1>12, <1>15 DEF Behind
<1>17. InOrder'
  <2>1. ASSUME NEW t \in Streams, pc'[t] # "none" PROVE t <= started'
    <3>1. CASE GoesOn(c, status)
      <4>1. started' = n /\ (t <= started \/ t = n) /\ t \in Nat
        BY <1>8, <1>14, <1>15, <2>1, <3>1, StreamIds
      <4>2. QED
        BY <1>2, <4>1
    <3>2. CASE ~GoesOn(c, status)
      BY <1>8, <1>13, <1>15, <2>1, <3>2
    <3>3. QED
      BY <3>1, <3>2
  <2>2. QED
    BY <1>14, <1>15, <2>1 DEF InOrder
<1>18. WorksAlone'
  BY <1>6, <1>11, <1>12, <1>14, <1>15 DEF WorksAlone
<1>19. Reviewed' /\ MessageThere' /\ SomeWait'
  BY <1>15 DEF Reviewed, MessageThere, SomeWait
<1>20. CallsMade'
  BY <1>1, <1>12 DEF Conv, CallsMade
<1>21. RunsCurrent' /\ AutoAllowed'
  BY <1>11, <1>12 DEF Conv, RunsCurrent, AutoAllowed
<1>22. AwaitedRun'
  BY <1>4, <1>15 DEF Conv, AwaitedRun, Awaiting, Looping
<1>23. LoopsGive'
  BY <1>4, <1>12, <1>15 DEF Conv, LoopsGive
<1>24. BehindSettled'
  BY <1>12, <1>16 DEF Conv, BehindSettled
<1>25. ChainOfLoops'
  <2> SUFFICES ASSUME NEW p \in Streams, NEW q \in Streams, Behind(p), q > p,
                      Behind(q) \/ (q = n /\ GoesOn(c, status))
               PROVE  \E h \in Streams : /\ h = heir'[p] /\ p < h /\ h <= q
                                         /\ Behind(h) \/ (h = n /\ GoesOn(c, status))
    BY <1>15, <1>16 DEF ChainOfLoops
  <2>1. p \in Nat /\ q \in Nat
    BY StreamIds
  <2>2. CASE p = s
    <3>1. q = n /\ GoesOn(c, status)
      BY <1>7, <2>2
    <3>2. s < n /\ n <= n
      BY <1>2, <1>8
    <3>3. QED
      BY <1>14, <2>2, <3>1, <3>2
  <2>3. CASE p # s
    <3>1. p < s
      BY <1>7, <1>8, <2>1, <2>3
    <3>2. PICK h \in Streams : /\ h = heir[p] /\ p < h /\ h <= s
                               /\ Behind(h) \/ Working(h)
      BY <1>5, <3>1 DEF Conv, ChainOfLoops
    <3>3. h <= q
      <4>1. CASE q = n
        BY <1>2, <1>8, <3>2, <4>1, StreamIds
      <4>2. CASE q # n
        BY <3>2, <4>2 DEF Conv, ChainOfLoops
      <4>3. QED
        BY <4>1, <4>2
    <3>4. QED
      BY <1>4, <1>9, <2>3, <3>2, <3>3
  <2>4. QED
    BY <2>2, <2>3
<1>26. QED
  BY <1>17, <1>18, <1>19, <1>20, <1>21, <1>22, <1>23, <1>24, <1>25 DEF Conv

LEMMA LoopStepConv ==
  ASSUME ToolsTypeOK, Conv, NEW s \in Streams, LoopStep(s)
  PROVE  Conv'
<1>1. CASE asked[s] = {}
  BY <1>1, LoopEndsConv
<1>2. CASE asked[s] # {}
  <2> DEFINE c == FirstOf(asked[s])
  <2>1. /\ Looping(s) /\ (heir[s] # 0 => pc[heir[s]] = "over")
        /\ LoopTurn(s, c, status, asked[s] \ {c})
        /\ UNCHANGED <<status, kind, verdict, autoRan, thread, applying, original,
                       made, inputIndex>>
    BY <1>2 DEF LoopStep, Looping, callVars, counters
  <2>2. asked[s] \in SUBSET Nat /\ asked[s] \subseteq ToolCallIds
    BY StreamIds DEF ToolsTypeOK
  <2>3. c \in asked[s]
    BY <1>2, <2>2, FirstIn
  <2> HIDE DEF c
  <2>4. CASE c \in CurrentCalls
    BY <2>1, <2>3, <2>4, LoopGivesConv
  <2>5. CASE c \notin CurrentCalls
    <3>1. [pc EXCEPT ![s] = "loop"] = pc /\ pc \in [Streams -> Points]
      BY <2>1 DEF Looping, ToolsTypeOK
    <3>2. /\ AfterToolCall(c, status, pc)
          /\ asked' = [asked EXCEPT ![s] = asked[s] \ {c}]
          /\ heir' = [heir EXCEPT ![s] = Continuation(c, status)]
      BY <2>1, <3>1 DEF LoopTurn
    <3>3. /\ history' = history /\ pc' = pc /\ started' = started
          /\ isStreaming' = isStreaming
      BY <2>2, <2>3, <2>5, <3>1, <3>2, ResultFacts
    <3>4. asked[s] \ {c} \in SUBSET asked[s]
      OBVIOUS
    <3>5. QED
      BY <2>1, <3>2, <3>3, <3>4, LoopSkipsConv
  <2>6. QED
    BY <2>4, <2>5
<1>3. QED
  BY <1>1, <1>2

LEMMA SubmitFacts ==
  ASSUME ToolsTypeOK, history' = history \o <<UserMessage, EmptyAnswer>>
  PROVE  /\ CurrentCalls' = {}
         /\ Len(history) + 1 \in DOMAIN history'
         /\ history'[Len(history) + 1] = UserMessage
         /\ \A i \in DOMAIN history' : \/ i \in DOMAIN history /\ history'[i] = history[i]
                                       \/ history'[i].calls = {}
<1>1. history \in Seq(Items)
  BY DEF ToolsTypeOK
<1>2. history' \in Seq(Items)
  <2>1. <<UserMessage, EmptyAnswer>> \in Seq(Items)
    BY ItemTyped
  <2>2. QED
    BY <1>1, <2>1
<1>3. PICK hh : hh = history'
  OBVIOUS
<1>4. hh = history \o <<UserMessage, EmptyAnswer>>
  BY <1>3
<1>5. /\ CurrentIn(hh) = {}
      /\ Len(history) + 1 \in DOMAIN hh /\ hh[Len(history) + 1] = UserMessage
      /\ \A i \in DOMAIN hh : \/ i \in DOMAIN history /\ hh[i] = history[i]
                              \/ hh[i].calls = {}
  BY <1>1, <1>4, Submitted
<1>6. QED
  BY <1>1, <1>2, <1>3, <1>5, CurrentSameNext

\* A message is sent when nothing runs any more.
LEMMA SubmitConv ==
  ASSUME ToolsTypeOK, Conv, Undisturbed, Submit
  PROVE  Conv'
<1> DEFINE n == started + 1
<1>1. /\ \A t \in Streams : pc[t] \in {"none", "over"}
      /\ \A c \in ToolCallIds : thread[c] # "running"
  BY DEF Submit, Undisturbed
<1>2. /\ history' = history \o <<UserMessage, EmptyAnswer>>
      /\ isStreaming' = TRUE /\ started' = n /\ started < MaxStreams
      /\ pc' = [pc EXCEPT ![n] = "resolving"]
      /\ inputIndex' = [inputIndex EXCEPT ![n] = Len(history) + 1]
      /\ UNCHANGED <<kind, verdict, autoRan, thread, applying, asked, original,
                     heir, made>>
  BY DEF Submit, counters
<1>3. \A d \in ToolCallIds : status[d] \notin Waiting => status'[d] = status[d]
  BY DEF Submit, Pending, Waiting
<1>4. n \in Streams /\ started \in Nat
  BY <1>2, ToolCallsAssumption DEF ToolsTypeOK, Streams
<1>5. /\ CurrentCalls' = {}
      /\ Len(history) + 1 \in DOMAIN history'
      /\ history'[Len(history) + 1] = UserMessage
      /\ \A i \in DOMAIN history' : \/ i \in DOMAIN history /\ history'[i] = history[i]
                                    \/ history'[i].calls = {}
  BY <1>2, SubmitFacts
<1>6. /\ pc'[n] = "resolving" /\ \A t \in Streams : t # n => pc'[t] = pc[t]
      /\ inputIndex'[n] = Len(history) + 1
  BY <1>2, <1>4 DEF ToolsTypeOK
<1>7. n \notin DOMAIN <<>> /\ n > started /\ n \in Nat
  BY <1>4
<1> HIDE DEF n
<1>8. \A t \in Streams : /\ (Working(t)' <=> t = n) /\ ~Looping(t)' /\ ~Awaiting(t)'
                         /\ pc'[t] \notin {"preprocess", "policy", "executingSome"}
                         /\ (pc'[t] = "resolving" => t = n)
  BY <1>1, <1>6 DEF Working, Looping, Awaiting
<1>9. InOrder'
  <2>1. ASSUME NEW t \in Streams, pc'[t] # "none" PROVE t <= n
    BY <1>4, <1>6, <1>7, <2>1, StreamIds DEF Conv, InOrder
  <2>2. QED
    BY <1>2, <1>8, <2>1 DEF InOrder
<1>10. WorksAlone'
  BY <1>1, <1>2, <1>5, <1>8 DEF WorksAlone
<1>11. Reviewed' /\ SomeWait' /\ AwaitedRun' /\ LoopsGive'
  BY <1>8 DEF Reviewed, SomeWait, AwaitedRun, LoopsGive
<1>12. BehindSettled' /\ ChainOfLoops'
  BY <1>8 DEF BehindSettled, ChainOfLoops, Behind
<1>13. CallsMade'
  BY <1>2, <1>5 DEF Conv, CallsMade
<1>14. MessageThere'
  BY <1>5, <1>6, <1>8 DEF MessageThere
<1>15. RunsCurrent'
  BY <1>1, <1>2, <1>3 DEF Conv, RunsCurrent, Waiting
<1>16. AutoAllowed'
  BY <1>2, <1>3 DEF Conv, AutoAllowed, ToolsTypeOK
<1>17. QED
  BY <1>9, <1>10, <1>11, <1>12, <1>13, <1>14, <1>15, <1>16 DEF Conv

LEMMA ConvInit == ToolsInit => Conv
<1> SUFFICES ASSUME ToolsInit PROVE Conv
  OBVIOUS
<1>1. \A s \in Streams : pc[s] = "none" /\ original[s] = {}
  BY DEF ToolsInit
<1>2. \A s \in Streams : ~Working(s) /\ ~Looping(s) /\ ~Awaiting(s) /\ ~Behind(s)
  BY <1>1 DEF Working, Looping, Awaiting, Behind
<1>3. InOrder /\ WorksAlone /\ Reviewed /\ MessageThere /\ SomeWait
  BY <1>1, <1>2 DEF InOrder, WorksAlone, Reviewed, MessageThere, SomeWait
<1>4. AwaitedRun /\ LoopsGive /\ BehindSettled /\ ChainOfLoops
  BY <1>2 DEF AwaitedRun, LoopsGive, BehindSettled, ChainOfLoops
<1>5. CallsMade /\ RunsCurrent /\ AutoAllowed
  BY <1>1 DEF ToolsInit, CallsMade, RunsCurrent, AutoAllowed
<1>6. QED
  BY <1>3, <1>4, <1>5 DEF Conv

LEMMA ConvStep ==
  ASSUME ToolsTypeOK, Conv, Undisturbed, Undisturbed', ToolsNext
  PROVE  Conv'
<1>1. ASSUME NEW s \in Streams, StreamStep(s) PROVE Conv'
  <2>1. CASE Resolved(s) \/ Compiled(s) \/ NotEnoughContext(s) \/ StoppedRead(s)
    BY <2>1, WorkerStepConv
  <2>2. CASE StreamFails(s)
    BY <2>2, StreamFailsConv
  <2>3. CASE StreamEnds(s) \/ PrematureClose(s)
    BY <2>3, StreamEndConv
  <2>4. CASE \E c \in ToolCallIds, valid \in BOOLEAN : Preprocessed(s, c, valid)
    BY <2>4, PreprocessedConv
  <2>5. CASE \E policy \in [asked[s] -> Policies] : PoliciesEvaluated(s, policy)
    BY <2>5, PoliciesConv
  <2>6. CASE Executed(s)
    BY <2>6, ExecutedConv
  <2>7. CASE LoopStep(s)
    BY <2>7, LoopStepConv
  <2>8. QED
    BY <1>1, <2>1, <2>2, <2>3, <2>4, <2>5, <2>6, <2>7, Zenon DEF StreamStep
<1>2. ASSUME NEW s \in Streams, Text(s) \/ \E k \in Kinds : ToolCallDelta(s, k)
      PROVE  Conv'
  BY <1>2, SaidConv
<1>3. ASSUME NEW c \in ToolCallIds, ToolStep(c) PROVE Conv'
  <2>1. CASE \E result \in {"done", "errored"} : ToolReturns(c, result)
    BY <2>1, ToolReturnsConv
  <2>2. CASE EditOpens(c)
    BY <2>2, EditOpensConv
  <2>3. CASE ToolRequestFails(c)
    BY <2>3, RequestFailsConv
  <2>4. QED
    BY <1>3, <2>1, <2>2, <2>3 DEF ToolStep
<1>4. ASSUME NEW c \in ToolCallIds, Accept(c) \/ RejectByKey(c) PROVE Conv'
  BY <1>4, UserConv
<1>5. ASSUME NEW c \in ToolCallIds, Reject(c) PROVE Conv'
  BY <1>5, RejectConv
<1>6. ASSUME NEW c \in ToolCallIds, NEW failed \in BOOLEAN, EditCloses(c, failed)
      PROVE  Conv'
  BY <1>6, EditClosesConv
<1>7. CASE Submit
  BY <1>7, SubmitConv
<1>8. CASE Stop
  BY <1>8 DEF Stop, Undisturbed, ToolsTypeOK
<1>9. QED
  BY <1>1, <1>2, <1>3, <1>4, <1>5, <1>6, <1>7, <1>8, Zenon DEF ToolsNext

LEMMA SameConv ==
  ASSUME ToolsTypeOK, Conv, UNCHANGED toolVars
  PROVE  Conv'
<1>1. /\ history' = history /\ isStreaming' = isStreaming /\ status' = status
      /\ kind' = kind /\ verdict' = verdict /\ autoRan' = autoRan /\ thread' = thread
      /\ applying' = applying /\ pc' = pc /\ inputIndex' = inputIndex
      /\ original' = original /\ asked' = asked /\ heir' = heir
      /\ started' = started /\ made' = made
  BY DEF toolVars, callVars, streamVars, counters
<1>2. CurrentCalls' = CurrentCalls
  BY <1>1, SameHistory
<1>3. \A t \in Streams : /\ (Working(t)' <=> Working(t)) /\ (Looping(t)' <=> Looping(t))
                         /\ (Awaiting(t)' <=> Awaiting(t)) /\ (Behind(t)' <=> Behind(t))
  BY <1>1 DEF Working, Looping, Awaiting, Behind
<1>4. InOrder' /\ WorksAlone' /\ CallsMade' /\ RunsCurrent' /\ AutoAllowed'
  BY <1>1, <1>2, <1>3 DEF Conv, InOrder, WorksAlone, CallsMade, RunsCurrent, AutoAllowed
<1>5. Reviewed'
  BY <1>1, <1>2 DEF Conv, Reviewed, Pending
<1>6. MessageThere'
  BY <1>1, <1>2 DEF Conv, MessageThere
<1>7. SomeWait'
  BY <1>1, <1>2, <1>3 DEF Conv, SomeWait
<1>8. AwaitedRun' /\ LoopsGive' /\ BehindSettled' /\ ChainOfLoops'
  BY <1>1, <1>3 DEF Conv, AwaitedRun, LoopsGive, BehindSettled, ChainOfLoops
<1>9. QED
  BY <1>4, <1>5, <1>6, <1>7, <1>8 DEF Conv

LEMMA UserSteps ==
  ASSUME [ToolsNext]_toolVars
  PROVE  setup' = setup /\ (stops' = stops \/ (stops' = stops + 1 /\ mishap'))
<1>1. CASE UNCHANGED toolVars
  BY <1>1 DEF toolVars, userVars
<1>2. ASSUME NEW s \in Streams, StreamStep(s) PROVE UNCHANGED userVars
  BY <1>2, Zenon
     DEF StreamStep, Resolved, Compiled, NotEnoughContext, StreamFails, StoppedRead,
         StreamEnds, PrematureClose, Preprocessed, PoliciesEvaluated, Executed,
         LoopStep
<1>3. ASSUME NEW s \in Streams, Text(s) \/ \E k \in Kinds : ToolCallDelta(s, k)
      PROVE  UNCHANGED userVars
  BY <1>3 DEF Text, ToolCallDelta
<1>4. ASSUME NEW c \in ToolCallIds, ToolStep(c) PROVE UNCHANGED userVars
  BY <1>4, Zenon DEF ToolStep, ToolReturns, EditOpens, ToolRequestFails
<1>5. ASSUME NEW c \in ToolCallIds, Accept(c) \/ Reject(c) \/ RejectByKey(c)
      PROVE  UNCHANGED userVars
  BY <1>5, Zenon DEF Accept, Reject, RejectByKey
<1>6. ASSUME NEW c \in ToolCallIds, NEW failed \in BOOLEAN, EditCloses(c, failed)
      PROVE  UNCHANGED userVars
  BY <1>6, Zenon DEF EditCloses
<1>7. CASE Submit \/ Stop
  BY <1>7 DEF Submit, Stop
<1>8. QED
  BY <1>1, <1>2, <1>3, <1>4, <1>5, <1>6, <1>7 DEF ToolsNext, userVars

\* Who has stopped a stream once has done so for good.
LEMMA UserRemembered ==
  ASSUME ToolsTypeOK, [ToolsNext]_toolVars, Undisturbed'
  PROVE  Undisturbed
<1>1. setup' = setup /\ (stops' = stops \/ stops' = stops + 1)
  BY UserSteps
<1>2. stops \in Nat
  BY DEF ToolsTypeOK
<1>3. QED
  BY <1>1, <1>2 DEF Undisturbed

LEMMA ConvKept ==
  ASSUME ToolsTypeOK, Undisturbed => Conv, [ToolsNext]_toolVars
  PROVE  Undisturbed' => Conv'
<1>1. Undisturbed' => Undisturbed /\ Conv
  BY UserRemembered
<1>2. QED
  BY <1>1, ConvStep, SameConv

LEMMA ConvAlways == ToolsSpec => [](ToolsTypeOK /\ (Undisturbed => Conv))
<1> DEFINE IInv == ToolsTypeOK /\ (Undisturbed => Conv)
<1>1. ToolsInit => IInv
  BY TypesInit, ConvInit
<1>2. IInv /\ [ToolsNext]_toolVars => IInv'
  BY TypesNext, ConvKept
<1>3. QED
  BY <1>1, <1>2, PTL DEF ToolsSpec

\* Two streams never answer at the same time, in a conversation that nobody
\* stops: a stream that works is the last one that was started, and while it
\* works no tool runs, no call is left to a diff, and no stream is left that
\* could start another one.
THEOREM OneLiveStreamHolds == ToolsSpec => []OneLiveStream
<1>1. ToolsTypeOK /\ (Undisturbed => Conv) => OneLiveStream
  <2> SUFFICES ASSUME Conv, NEW s \in Streams, NEW t \in Streams, Live(s), Live(t)
               PROVE  s = t
    BY DEF OneLiveStream, Undisturbed
  <2>1. Working(s) /\ Working(t)
    BY DEF Live, Working
  <2>2. QED
    BY <2>1 DEF Conv, InOrder
<1>2. QED
  BY <1>1, ConvAlways, PTL

\* No tool runs without the user unless its own policy has allowed it to: the
\* calls that are run are those whose policies were asked for.
THEOREM RunsAsAllowedHolds == ToolsSpec => []RunsAsAllowed
<1>1. ToolsTypeOK /\ (Undisturbed => Conv) => RunsAsAllowed
  BY DEF RunsAsAllowed, Undisturbed, Conv, AutoAllowed
<1>2. QED
  BY <1>1, ConvAlways, PTL

-----------------------------------------------------------------------------
(***************************************************************************)
(* Nothing hangs: in a conversation where besides no request fails, every  *)
(* current call that has not ended is somebody's business, and when all    *)
(* have ended a stream works.                                              *)
(***************************************************************************)
Calm == Undisturbed /\ ~mishap

NoneUnknown == \A c \in CurrentCalls : status[c] # "none"

GeneratedByStream ==
  (\E c \in CurrentCalls : status[c] = "generating")
    => \E s \in Streams : pc[s] = "reading"

CalledRuns ==
  \A c \in CurrentCalls :
    status[c] = "calling" => thread[c] = "running" \/ c \in applying

ResultsGiven ==
  (CurrentCalls # {} /\ \A c \in CurrentCalls : status[c] \in {"done", "errored"})
    => \E s \in Streams : Working(s)

Attended ==
  epoch = 0 /\ NoneUnknown /\ GeneratedByStream /\ CalledRuns /\ ResultsGiven

\* Nobody has stopped the stream that works.
LEMMA WorkerAttends ==
  ASSUME ToolsTypeOK, Conv, Attended, NEW s \in Streams, Working(s),
         NEW st, Handled(st)
  PROVE  /\ ~Halted(s) /\ \A d \in CurrentCalls : st[d] \notin {"none", "calling"}
         /\ CurrentCalls \subseteq ToolCallIds
<1>1. isStreaming /\ \A d \in CurrentCalls : st[d] # "calling"
  BY TheWorker, HandledKeeps
<1>2. ~(signal[s] < epoch)
  BY DEF ToolsTypeOK, Attended
<1>3. CurrentCalls \subseteq ToolCallIds
  BY CurrentTyped DEF ToolsTypeOK
<1>4. \A d \in CurrentCalls : st[d] # "none"
  BY <1>3 DEF Handled, Attended, NoneUnknown
<1>5. QED
  BY <1>1, <1>2, <1>3, <1>4 DEF Halted

LEMMA WorkerMovesAttended ==
  ASSUME ToolsTypeOK, Conv, Attended, NEW s \in Streams, Working(s),
         NEW st, Handled(st), NEW x, x # "over", WorkerMoves(s, st, x), epoch' = epoch,
         x = "reading" \/ \A c \in CurrentCalls : st[c] # "generating"
  PROVE  Attended'
<1>1. \A d \in CurrentCalls : st[d] \notin {"none", "calling"}
  BY WorkerAttends
<1>2. CurrentCalls' = CurrentCalls /\ status' = st
  BY SameHistory DEF WorkerMoves
<1>3. pc'[s] = x
  BY DEF WorkerMoves, ToolsTypeOK
<1>4. Working(s)'
  BY <1>3 DEF WorkerMoves, Working
<1>5. QED
  BY <1>1, <1>2, <1>3, <1>4
     DEF Attended, NoneUnknown, GeneratedByStream, CalledRuns, ResultsGiven

LEMMA ReturnAttended ==
  ASSUME ToolsTypeOK, Conv, Attended, NEW s \in Streams, Working(s),
         NEW st, Handled(st), NEW b, Return(s, st, b), epoch' = epoch,
         \A c \in CurrentCalls : st[c] # "generating",
         CurrentCalls = {} \/ \E d \in CurrentCalls : st[d] = "generated"
  PROVE  Attended'
<1>1. \A d \in CurrentCalls : st[d] \notin {"none", "calling"}
  BY WorkerAttends
<1>2. CurrentCalls' = CurrentCalls /\ status' = st
  BY SameHistory DEF Return, CallNone
<1>3. QED
  BY <1>1, <1>2
     DEF Attended, NoneUnknown, GeneratedByStream, CalledRuns, ResultsGiven

LEMMA RunCallsAttended ==
  ASSUME ToolsTypeOK, Conv, Attended, NEW s \in Streams, Working(s),
         NEW st, Handled(st), NEW C \in SUBSET CurrentCalls, NEW p,
         RunCalls(s, C, st, p), epoch' = epoch,
         \A c \in CurrentCalls : st[c] # "generating",
         \E d \in CurrentCalls : st[d] = "generated"
  PROVE  Attended'
<1> DEFINE now == Runnable(C, st)
<1>1. /\ \A d \in CurrentCalls : st[d] \notin {"none", "calling"}
      /\ CurrentCalls \subseteq ToolCallIds
  BY WorkerAttends
<1>2. CurrentCalls' = CurrentCalls
  BY SameHistory DEF RunCalls
<1>3. /\ \A c \in ToolCallIds : status'[c] = IF c \in now THEN "calling" ELSE st[c]
      /\ \A c \in ToolCallIds : thread'[c] = IF c \in now THEN "running" ELSE thread[c]
  BY DEF RunCalls, CallTools, NowCalling
<1> HIDE DEF now
<1>4. \E d \in CurrentCalls' : status'[d] \in {"generated", "calling"}
  BY <1>1, <1>2, <1>3
<1>5. NoneUnknown' /\ GeneratedByStream'
  BY <1>1, <1>2, <1>3 DEF NoneUnknown, GeneratedByStream
<1>6. CalledRuns'
  BY <1>1, <1>2, <1>3 DEF CalledRuns
<1>7. ResultsGiven'
  BY <1>4 DEF ResultsGiven
<1>8. QED
  BY <1>5, <1>6, <1>7 DEF Attended

\* The calls have all ended: the loop starts the stream that goes on, unless
\* one of them was canceled.
LEMMA ForkAttended ==
  ASSUME ToolsTypeOK, Conv, Attended, NEW s \in Streams, Working(s),
         NEW st, Handled(st), \A d \in CurrentCalls : st[d] # "generating",
         CallNone(st), NEW c \in CurrentCalls, NEW left, LoopTurn(s, c, st, left),
         epoch' = epoch
  PROVE  Attended'
<1> DEFINE points == [pc EXCEPT ![s] = "loop"]
<1>1. /\ \A d \in CurrentCalls : st[d] \notin {"none", "calling"}
      /\ CurrentCalls \subseteq ToolCallIds
  BY WorkerAttends
<1>2. points \in [Streams -> Points] /\ AfterToolCall(c, st, points) /\ status' = st
  BY DEF ToolsTypeOK, Points, LoopTurn, CallNone
<1> HIDE DEF points
<1>3. /\ CurrentCalls' = CurrentCalls
      /\ GoesOn(c, st) => started + 1 \in Streams /\ pc'[started + 1] = "compile"
  BY <1>1, <1>2, ResultFacts
<1>4. ResultsGiven'
  <2> SUFFICES ASSUME \A d \in CurrentCalls : st[d] \in {"done", "errored"}
               PROVE  \E t \in Streams : Working(t)'
    BY <1>2, <1>3 DEF ResultsGiven
  <2>1. GoesOn(c, st)
    BY DEF GoesOn, AllToolsDone, FinishedStatuses
  <2>2. QED
    BY <1>3, <2>1 DEF Working
<1>5. QED
  BY <1>1, <1>2, <1>3, <1>4
     DEF Attended, NoneUnknown, GeneratedByStream, CalledRuns

LEMMA ExecuteAttended ==
  ASSUME ToolsTypeOK, Conv, Attended, NEW s \in Streams, Working(s),
         NEW st, Handled(st), \A c \in CurrentCalls : st[c] # "generating",
         NEW toRun \in SUBSET CurrentCalls, NEW toAsk,
         Execute(s, st, CurrentCalls, toRun, toAsk), epoch' = epoch,
         toAsk # {} => \E d \in CurrentCalls : st[d] = "generated"
  PROVE  Attended'
<1> DEFINE readonly == {c \in toRun : kind[c] = "readonly"}
           first == FirstOf(CurrentCalls)
<1>1. ~Halted(s) /\ CurrentCalls \in SUBSET Nat
  BY WorkerAttends, StreamIds
<1>2. CASE CurrentCalls = {} \/ (toAsk # {} /\ readonly = {})
  <2>1. Return(s, st, FALSE)
    BY <1>2, Zenon DEF Execute
  <2>2. QED
    BY <1>2, <2>1, ReturnAttended
<1>3. CASE /\ ~(CurrentCalls = {} \/ (toAsk # {} /\ readonly = {})) /\ toAsk # {}
  <2>1. RunCalls(s, readonly, st, "executingSome")
    BY <1>1, <1>3, Zenon DEF Execute
  <2>2. readonly \in SUBSET CurrentCalls
    OBVIOUS
  <2> HIDE DEF readonly
  <2>3. QED
    BY <1>3, <2>1, <2>2, RunCallsAttended
<1>4. CASE /\ ~(CurrentCalls = {} \/ (toAsk # {} /\ readonly = {}))
           /\ toAsk = {} /\ Pending(st) # {}
  <2>1. RunCalls(s, Pending(st), st, "executing")
    BY <1>1, <1>4, Zenon DEF Execute
  <2>2. /\ Pending(st) \in SUBSET CurrentCalls
        /\ \E d \in CurrentCalls : st[d] = "generated"
    BY <1>4 DEF Pending
  <2>3. QED
    BY <2>1, <2>2, RunCallsAttended
<1>5. CASE /\ ~(CurrentCalls = {} \/ (toAsk # {} /\ readonly = {}))
           /\ toAsk = {} /\ Pending(st) = {}
  <2>1. /\ CallNone(st)
        /\ LoopTurn(s, first, st, CurrentCalls \ {first})
    BY <1>1, <1>5, Zenon DEF Execute
  <2>2. first \in CurrentCalls
    BY <1>1, <1>5, FirstIn
  <2> HIDE DEF first
  <2>3. QED
    BY <2>1, <2>2, ForkAttended
<1>6. QED
  BY <1>2, <1>3, <1>4, <1>5, Zenon

LEMMA AfterStreamAttended ==
  ASSUME ToolsTypeOK, Conv, Attended, NEW s \in Streams, pc[s] = "reading",
         NEW st \in [ToolCallIds -> Statuses],
         \A c \in ToolCallIds :
           st[c] = status[c] \/ (c \in CurrentCalls /\ st[c] = "errored"),
         AfterStream(s, st), epoch' = epoch,
         UNCHANGED <<kind, verdict, applying, inputIndex, made>>
  PROVE  Attended'
<1> DEFINE marked == [c \in ToolCallIds |->
                        IF c \in CurrentCalls /\ st[c] = "generating"
                        THEN "generated" ELSE st[c]]
<1>1. Working(s) /\ Handled(st)
  BY DEF Working, Handled
<1>2. ~Halted(s) /\ CurrentCalls \subseteq ToolCallIds
  BY <1>1, WorkerAttends
<1>3. marked \in [ToolCallIds -> Statuses]
  BY DEF Statuses
<1>4. \A d \in ToolCallIds : marked[d] = IF d \in CurrentCalls /\ st[d] = "generating"
                                         THEN "generated" ELSE st[d]
  OBVIOUS
<1>5. CASE Pending(marked) = {}
  <2>1. Execute(s, marked, CurrentCalls, {}, {})
    BY <1>2, <1>5, Zenon DEF AfterStream
  <2> HIDE DEF marked
  <2>2. Handled(marked) /\ \A c \in CurrentCalls : marked[c] # "generating"
    BY <1>2, <1>3, <1>4 DEF Handled
  <2>3. {} \in SUBSET CurrentCalls
    OBVIOUS
  <2>4. QED
    BY <1>1, <2>1, <2>2, <2>3, ExecuteAttended
<1>6. CASE Pending(marked) # {}
  <2>1. CallNone(marked) /\ history' = history
    BY <1>2, <1>6, Zenon DEF AfterStream
  <2>2. status' = marked /\ CurrentCalls' = CurrentCalls
    BY <2>1, SameHistory DEF CallNone
  <2> HIDE DEF marked
  <2>3. Handled(marked) /\ \A c \in CurrentCalls : marked[c] # "generating"
    BY <1>2, <1>3, <1>4 DEF Handled
  <2>4. \A d \in CurrentCalls : marked[d] \notin {"none", "calling"}
    BY <1>1, <2>3, WorkerAttends
  <2>5. \E d \in CurrentCalls : marked[d] = "generated"
    BY <1>6 DEF Pending
  <2>6. QED
    BY <2>2, <2>3, <2>4, <2>5
       DEF Attended, NoneUnknown, GeneratedByStream, CalledRuns, ResultsGiven
<1>7. QED
  BY <1>5, <1>6

LEMMA StreamEndAttended ==
  ASSUME ToolsTypeOK, Conv, Attended, NEW s \in Streams,
         StreamEnds(s) \/ PrematureClose(s)
  PROVE  Attended'
<1>1. CASE StreamEnds(s)
  BY <1>1, AfterStreamAttended DEF StreamEnds, ToolsTypeOK
<1>2. CASE PrematureClose(s)
  <2> DEFINE st == [c \in ToolCallIds |->
                      IF c \in CurrentCalls THEN "errored" ELSE status[c]]
  <2>1. st \in [ToolCallIds -> Statuses]
    BY DEF ToolsTypeOK, Statuses
  <2>2. \A c \in ToolCallIds :
          st[c] = status[c] \/ (c \in CurrentCalls /\ st[c] = "errored")
    OBVIOUS
  <2>3. /\ pc[s] = "reading" /\ AfterStream(s, st)
        /\ UNCHANGED <<epoch, kind, verdict, applying, inputIndex, made>>
    BY <1>2, Zenon DEF PrematureClose
  <2> HIDE DEF st
  <2>4. QED
    BY <2>1, <2>2, <2>3, AfterStreamAttended
<1>3. QED
  BY <1>1, <1>2

LEMMA PreprocessedAttended ==
  ASSUME ToolsTypeOK, Conv, Attended, NEW s \in Streams, NEW c \in ToolCallIds,
         NEW valid \in BOOLEAN, Preprocessed(s, c, valid)
  PROVE  Attended'
<1> DEFINE st == IF valid THEN status ELSE [status EXCEPT ![c] = "errored"]
<1>1. /\ pc[s] = "preprocess" /\ c \in asked[s] /\ epoch' = epoch
      /\ IF asked[s] # {c}
         THEN /\ CallNone(st)
              /\ asked' = [asked EXCEPT ![s] = @ \ {c}]
              /\ UNCHANGED <<history, isStreaming, autoRan, pc, signal, heir,
                             started>>
         ELSE IF Halted(s) THEN Return(s, st, isStreaming)
         ELSE IF Pending(st) = {} THEN Execute(s, st, original[s], {}, {})
         ELSE /\ CallNone(st)
              /\ asked' = [asked EXCEPT ![s] = Pending(st)]
              /\ pc' = [pc EXCEPT ![s] = "policy"]
              /\ UNCHANGED <<history, isStreaming, autoRan, signal, heir, started>>
  <2>1. epoch' = epoch
    BY DEF Preprocessed
  <2>2. QED
    BY <2>1, Zenon DEF Preprocessed
<1>2. Working(s)
  BY <1>1 DEF Working
<1>3. /\ original[s] = CurrentCalls /\ asked[s] \subseteq CurrentCalls
      /\ \A d \in CurrentCalls : status[d] # "generating"
      /\ pc \in [Streams -> Points]
  BY <1>1 DEF Conv, Reviewed, ToolsTypeOK
<1>4. /\ Handled(st) /\ \A d \in CurrentCalls : st[d] # "generating"
  <2>1. c \in CurrentCalls /\ CurrentCalls \subseteq ToolCallIds
    BY <1>1, <1>3, CurrentTyped DEF ToolsTypeOK
  <2>2. st \in [ToolCallIds -> Statuses]
        /\ \A d \in ToolCallIds : st[d] = status[d] \/ (d = c /\ st[d] = "errored")
    BY DEF ToolsTypeOK, Statuses
  <2> HIDE DEF st
  <2>3. QED
    BY <1>3, <2>1, <2>2 DEF Handled
<1> HIDE DEF st
<1>5. /\ \A d \in CurrentCalls : st[d] \notin {"none", "calling"}
      /\ ~Halted(s)
  BY <1>2, <1>4, WorkerAttends
<1>6. CASE asked[s] = {c} /\ Pending(st) = {}
  <2>1. Execute(s, st, CurrentCalls, {}, {})
    <3>1. Execute(s, st, original[s], {}, {})
      BY <1>1, <1>5, <1>6, Zenon
    <3>2. QED
      BY <1>3, <3>1
  <2>2. {} \in SUBSET CurrentCalls
    OBVIOUS
  <2>3. QED
    BY <1>1, <1>2, <1>4, <2>1, <2>2, ExecuteAttended
<1>7. CASE ~(asked[s] = {c} /\ Pending(st) = {})
  <2>1. /\ CallNone(st) /\ history' = history
        /\ pc' = pc \/ pc' = [pc EXCEPT ![s] = "policy"]
    BY <1>1, <1>5, <1>7
  <2>2. status' = st /\ CurrentCalls' = CurrentCalls
    BY <2>1, SameHistory DEF CallNone
  <2>3. Working(s)'
    BY <1>1, <1>3, <2>1 DEF Working
  <2>4. QED
    BY <1>1, <1>4, <1>5, <2>2, <2>3
       DEF Attended, NoneUnknown, GeneratedByStream, CalledRuns, ResultsGiven
<1>8. QED
  BY <1>6, <1>7

LEMMA PoliciesAttended ==
  ASSUME ToolsTypeOK, Conv, Attended, NEW s \in Streams,
         NEW policy \in [asked[s] -> Policies], PoliciesEvaluated(s, policy)
  PROVE  Attended'
<1> DEFINE of(p) == {c \in asked[s] : policy[c] = p}
           st == [c \in ToolCallIds |->
                    IF c \in Refused(asked[s], policy) THEN "errored" ELSE status[c]]
           toRun == of("run")
           toAsk == of("ask")
<1>1. /\ pc[s] = "policy" /\ epoch' = epoch
      /\ Execute(s, st, original[s], toRun, toAsk)
  BY Zenon DEF PoliciesEvaluated
<1>2. Working(s)
  BY <1>1 DEF Working
<1>3. /\ original[s] = CurrentCalls /\ asked[s] = Pending(status)
      /\ asked[s] \subseteq CurrentCalls
      /\ \A d \in CurrentCalls : status[d] # "generating"
      /\ CurrentCalls \subseteq ToolCallIds
  BY <1>1, CurrentTyped DEF Conv, Reviewed, ToolsTypeOK
<1>4. \A d \in ToolCallIds :
        st[d] = IF d \in asked[s] /\ policy[d] = "off" THEN "errored" ELSE status[d]
  BY DEF Refused
<1>5. st \in [ToolCallIds -> Statuses]
  BY DEF ToolsTypeOK, Statuses
<1>6. toRun \in SUBSET CurrentCalls /\ \A c \in toAsk : c \in asked[s] /\ policy[c] = "ask"
  BY <1>3
<1>7. Execute(s, st, CurrentCalls, toRun, toAsk)
  BY <1>1, <1>3
<1> HIDE DEF st, of, toRun, toAsk
<1>8. Handled(st) /\ \A d \in CurrentCalls : st[d] # "generating"
  BY <1>3, <1>4, <1>5 DEF Handled
<1>9. toAsk # {} => \E d \in CurrentCalls : st[d] = "generated"
  <2> SUFFICES ASSUME NEW d \in toAsk PROVE d \in CurrentCalls /\ st[d] = "generated"
    OBVIOUS
  <2>1. d \in asked[s] /\ policy[d] = "ask"
    BY <1>6
  <2>2. d \in CurrentCalls /\ d \in ToolCallIds /\ status[d] = "generated"
    BY <1>3, <2>1 DEF Pending
  <2>3. QED
    BY <1>4, <2>1, <2>2
<1>10. QED
  BY <1>1, <1>2, <1>6, <1>7, <1>8, <1>9, ExecuteAttended

LEMMA WorkerStepAttended ==
  ASSUME ToolsTypeOK, Conv, Attended, NEW s \in Streams,
         Resolved(s) \/ Compiled(s) \/ Text(s)
           \/ \E k \in Kinds : ToolCallDelta(s, k)
  PROVE  Attended'
<1>1. CASE Resolved(s)
  <2>1. history' = history /\ CurrentCalls = {} /\ epoch' = epoch
    BY <1>1, ResolvedKeeps DEF Resolved
  <2>2. CurrentCalls' = {}
    BY <2>1, SameHistory
  <2>3. QED
    BY <2>1, <2>2
       DEF Attended, NoneUnknown, GeneratedByStream, CalledRuns, ResultsGiven
<1>2. CASE Compiled(s)
  <2>1. /\ history' = history /\ epoch' = epoch /\ status' = status
        /\ thread' = thread /\ applying' = applying
        /\ pc' = [pc EXCEPT ![s] = "reading"]
    BY <1>2 DEF Compiled, callVars
  <2>2. CurrentCalls' = CurrentCalls
    BY <2>1, SameHistory
  <2>3. pc'[s] = "reading" /\ Working(s)'
    BY <2>1 DEF ToolsTypeOK, Working
  <2>4. QED
    BY <2>1, <2>2, <2>3
       DEF Attended, NoneUnknown, GeneratedByStream, CalledRuns, ResultsGiven
<1>3. ASSUME pc[s] = "reading", pc' = pc, epoch' = epoch,
             NEW D \in SUBSET ToolCallIds, CurrentCalls' \subseteq CurrentCalls \cup D,
             \A d \in ToolCallIds : IF d \in D THEN status'[d] = "generating"
                                    ELSE status'[d] = status[d]
      PROVE  Attended'
  <2>1. Working(s) /\ pc'[s] = "reading" /\ Working(s)'
    BY <1>3 DEF Working
  <2>2. /\ CurrentCalls \subseteq ToolCallIds
        /\ \A c \in CurrentCalls : status[c] \notin {"none", "calling"}
    BY <2>1, TheWorker, CurrentTyped DEF Attended, NoneUnknown, ToolsTypeOK
  <2>3. \A c \in CurrentCalls' : status'[c] \notin {"none", "calling"}
    <3> SUFFICES ASSUME NEW c \in CurrentCalls' PROVE status'[c] \notin {"none", "calling"}
      OBVIOUS
    <3>1. CASE c \in D
      BY <1>3, <3>1
    <3>2. CASE c \notin D
      BY <1>3, <2>2, <3>2
    <3>3. QED
      BY <3>1, <3>2
  <2>4. QED
    BY <1>3, <2>1, <2>3
       DEF Attended, NoneUnknown, GeneratedByStream, CalledRuns, ResultsGiven
<1>4. CASE Text(s)
  <2>1. /\ pc[s] = "reading" /\ pc' = pc /\ epoch' = epoch /\ status' = status
        /\ made' = made
        /\ history' = Answered([role |-> "assistant", calls |-> {}, text |-> TRUE])
    BY <1>4 DEF Text, callVars, streamVars
  <2>2. {} \in SUBSET ToolCallIds /\ {} \subseteq 1..made' /\ made' \in Nat
        /\ made <= made'
    BY <2>1 DEF ToolsTypeOK
  <2>3. CurrentCalls' \subseteq CurrentCalls \cup {}
    BY <2>1, <2>2, AnswerFacts DEF Conv
  <2>4. \A d \in ToolCallIds : IF d \in {} THEN status'[d] = "generating"
                               ELSE status'[d] = status[d]
    BY <2>1
  <2>5. QED
    BY <1>3, <2>1, <2>2, <2>3, <2>4
<1>5. ASSUME NEW k \in Kinds, ToolCallDelta(s, k) PROVE Attended'
  <2> DEFINE c == made + 1
  <2>1. /\ pc[s] = "reading" /\ pc' = pc /\ epoch' = epoch
        /\ status' = [status EXCEPT ![c] = "generating"]
        /\ made < MaxToolCalls /\ made' = c
        /\ history' = Answered([role |-> "assistant", calls |-> {c}, text |-> FALSE])
    BY <1>5 DEF ToolCallDelta, streamVars
  <2>2. /\ c \in ToolCallIds /\ {c} \in SUBSET ToolCallIds /\ {c} \subseteq 1..made'
        /\ made' \in Nat /\ made <= made'
    BY <2>1, ToolCallsAssumption DEF ToolsTypeOK, ToolCallIds
  <2> HIDE DEF c
  <2>3. CurrentCalls' \subseteq CurrentCalls \cup {c}
    BY <2>1, <2>2, AnswerFacts DEF Conv
  <2>4. \A d \in ToolCallIds : IF d \in {c} THEN status'[d] = "generating"
                               ELSE status'[d] = status[d]
    BY <2>1, <2>2 DEF ToolsTypeOK
  <2>5. QED
    BY <1>3, <2>1, <2>2, <2>3, <2>4
<1>6. QED
  BY <1>1, <1>2, <1>4, <1>5

\* A call ends while no stream works: if it was the last one, a stream goes on.
LEMMA ResultAttended ==
  ASSUME ToolsTypeOK, Conv, Attended, \A s \in Streams : ~Working(s),
         NEW c \in CurrentCalls, NEW st \in [ToolCallIds -> Statuses],
         st[c] \in {"done", "errored", "canceled"},
         \A d \in ToolCallIds : d # c => st[d] = status[d],
         AfterToolCall(c, st, pc), status' = st, epoch' = epoch,
         \A d \in ToolCallIds : d # c /\ thread[d] = "running" => thread'[d] = "running",
         applying \subseteq applying' \cup {c}
  PROVE  Attended'
<1>1. CurrentCalls \subseteq ToolCallIds /\ pc \in [Streams -> Points]
  BY CurrentTyped DEF ToolsTypeOK
<1>2. /\ CurrentCalls' = CurrentCalls
      /\ GoesOn(c, st) => started + 1 \in Streams /\ pc'[started + 1] = "compile"
  BY <1>1, ResultFacts
<1>3. \A d \in CurrentCalls : d # c => st[d] = status[d]
  BY <1>1
<1>4. ~\E s \in Streams : pc[s] = "reading"
  BY DEF Working
<1>5. NoneUnknown' /\ GeneratedByStream'
  BY <1>2, <1>3, <1>4 DEF Attended, NoneUnknown, GeneratedByStream
<1>6. CalledRuns'
  <2> SUFFICES ASSUME NEW d \in CurrentCalls, st[d] = "calling"
               PROVE  thread'[d] = "running" \/ d \in applying'
    BY <1>2 DEF CalledRuns
  <2>1. d # c /\ d \in ToolCallIds /\ status[d] = "calling"
    BY <1>1, <1>3
  <2>2. QED
    BY <2>1 DEF Attended, CalledRuns
<1>7. ResultsGiven'
  <2> SUFFICES ASSUME \A d \in CurrentCalls : st[d] \in {"done", "errored"}
               PROVE  \E t \in Streams : Working(t)'
    BY <1>2 DEF ResultsGiven
  <2>1. GoesOn(c, st)
    BY DEF GoesOn, AllToolsDone, FinishedStatuses
  <2>2. QED
    BY <1>2, <2>1 DEF Working
<1>8. QED
  BY <1>5, <1>6, <1>7 DEF Attended

LEMMA CallEndsAttended ==
  ASSUME ToolsTypeOK, Conv, Attended, NEW c \in ToolCallIds,
         \/ \E result \in {"done", "errored"} : ToolReturns(c, result)
         \/ Reject(c)
         \/ \E failed \in BOOLEAN : EditCloses(c, failed)
  PROVE  Attended'
<1>1. ASSUME NEW result \in {"done", "errored"}, ToolReturns(c, result)
      PROVE  Attended'
  <2> DEFINE st == Settled(c, result)
  <2>1. /\ thread[c] = "running" /\ status' = st /\ epoch' = epoch
        /\ thread' = [thread EXCEPT ![c] = "ended"] /\ AfterToolCall(c, st, pc)
        /\ applying' = applying
    BY <1>1 DEF ToolReturns
  <2>2. c \in CurrentCalls
    BY <2>1 DEF Conv, RunsCurrent
  <2>3. /\ st \in [ToolCallIds -> Statuses] /\ st[c] \in {"done", "errored", "canceled"}
        /\ \A d \in ToolCallIds : d # c => st[d] = status[d]
    BY <2>2, SettledStatus
  <2>4. \A d \in ToolCallIds : d # c /\ thread[d] = "running" => thread'[d] = "running"
    BY <2>1 DEF ToolsTypeOK
  <2>5. \A s \in Streams : ~Working(s)
    BY <2>1, NoneWorks
  <2> HIDE DEF st
  <2>6. QED
    BY <2>1, <2>2, <2>3, <2>4, <2>5, ResultAttended
<1>2. CASE Reject(c)
  <2> DEFINE st == [status EXCEPT ![c] = "canceled"]
  <2>1. /\ c \in CurrentCalls /\ ~isStreaming /\ status' = st /\ AfterToolCall(c, st, pc)
        /\ epoch' = epoch /\ thread' = thread /\ applying' = applying
    BY <1>2 DEF Reject, OffersButton, Pending
  <2>2. /\ st \in [ToolCallIds -> Statuses] /\ st[c] \in {"done", "errored", "canceled"}
        /\ \A d \in ToolCallIds : d # c => st[d] = status[d]
    BY DEF ToolsTypeOK, Statuses
  <2>3. \A s \in Streams : ~Working(s)
    BY <2>1, NoneWorks
  <2> HIDE DEF st
  <2>4. QED
    BY <2>1, <2>2, <2>3, ResultAttended
<1>3. ASSUME NEW failed \in BOOLEAN, EditCloses(c, failed) PROVE Attended'
  <2>1. c \in applying /\ applying' = applying \ {c} /\ thread' = thread /\ epoch' = epoch
    BY <1>3 DEF EditCloses
  <2>2. status[c] = "calling"
    BY <2>1 DEF Conv, RunsCurrent
  <2>3. PICK result \in {"done", "errored"} :
          status' = Settled(c, result) /\ AfterToolCall(c, Settled(c, result), pc)
    BY <1>3, <2>2 DEF EditCloses
  <2> DEFINE st == Settled(c, result)
  <2>4. /\ st \in [ToolCallIds -> Statuses] /\ (c \in CurrentCalls => st[c] = result)
        /\ \A d \in ToolCallIds : d # c => st[d] = status[d]
    BY SettledStatus
  <2>5. status' = st /\ AfterToolCall(c, st, pc)
    BY <2>3
  <2> HIDE DEF st
  <2>6. CASE c \in CurrentCalls
    <3>1. (\A s \in Streams : ~Working(s)) /\ st[c] \in {"done", "errored", "canceled"}
      BY <2>2, <2>4, <2>6, NoneWorks
    <3>2. QED
      BY <2>1, <2>4, <2>5, <2>6, <3>1, ResultAttended
  <2>7. CASE c \notin CurrentCalls
    <3>1. history' = history /\ pc' = pc
      BY <2>5, <2>7, ResultFacts DEF ToolsTypeOK
    <3>2. CurrentCalls' = CurrentCalls /\ CurrentCalls \subseteq ToolCallIds
      BY <3>1, SameHistory, CurrentTyped DEF ToolsTypeOK
    <3>3. \A d \in CurrentCalls : status'[d] = status[d] /\ d # c
      BY <2>4, <2>5, <2>7, <3>2
    <3>4. \A t \in Streams : Working(t)' <=> Working(t)
      BY <3>1 DEF Working
    <3>5. QED
      BY <2>1, <3>1, <3>2, <3>3, <3>4
         DEF Attended, NoneUnknown, GeneratedByStream, CalledRuns, ResultsGiven
  <2>8. QED
    BY <2>6, <2>7
<1>4. QED
  BY <1>1, <1>2, <1>3

LEMMA CallMovesAttended ==
  ASSUME ToolsTypeOK, Conv, Undisturbed, Attended, NEW c \in ToolCallIds,
         EditOpens(c) \/ Accept(c) \/ RejectByKey(c)
  PROVE  Attended'
<1>1. history' = history /\ pc' = pc /\ epoch' = epoch
  BY DEF EditOpens, Accept, RejectByKey, streamVars
<1>2. CurrentCalls' = CurrentCalls /\ CurrentCalls \subseteq ToolCallIds
  BY <1>1, SameHistory, CurrentTyped DEF ToolsTypeOK
<1>3. \A t \in Streams : Working(t)' <=> Working(t)
  BY <1>1 DEF Working
<1>4. CASE EditOpens(c)
  <2>1. /\ status' = status /\ thread' = [thread EXCEPT ![c] = "ended"]
        /\ applying' = applying \cup {c}
    BY <1>4 DEF EditOpens
  <2>2. \A d \in ToolCallIds : d # c => thread'[d] = thread[d]
    BY <2>1 DEF ToolsTypeOK
  <2>3. CalledRuns'
    BY <1>2, <2>1, <2>2 DEF Attended, CalledRuns
  <2>4. QED
    BY <1>1, <1>2, <1>3, <2>1, <2>3
       DEF Attended, NoneUnknown, GeneratedByStream, ResultsGiven
<1>5. CASE Accept(c) \/ RejectByKey(c)
  <2>1. c \in CurrentCalls /\ status[c] = "generated"
    BY <1>5 DEF Accept, RejectByKey, OffersButton, OffersShortcut, FirstPending,
                Pending, Undisturbed
  <2>2. /\ \A d \in ToolCallIds : d # c => status'[d] = status[d] /\ thread'[d] = thread[d]
        /\ \/ status'[c] = "calling" /\ thread'[c] = "running"
           \/ status'[c] = "canceled"
        /\ applying' = applying
    <3>1. CASE Accept(c)
      <4>1. /\ status' = [d \in ToolCallIds |-> IF d = c THEN "calling" ELSE status[d]]
            /\ thread' = [d \in ToolCallIds |-> IF d = c THEN "running" ELSE thread[d]]
        BY <2>1, <3>1 DEF Accept, CallTools, Runnable, NowCalling
      <4>2. QED
        BY <3>1, <4>1 DEF Accept
    <3>2. CASE RejectByKey(c)
      BY <3>2 DEF RejectByKey, ToolsTypeOK
    <3>3. QED
      BY <1>5, <3>1, <3>2
  <2>3. NoneUnknown' /\ GeneratedByStream'
    BY <1>1, <1>2, <2>2 DEF Attended, NoneUnknown, GeneratedByStream
  <2>4. CalledRuns'
    BY <1>2, <2>2 DEF Attended, CalledRuns
  <2>5. ResultsGiven'
    BY <1>2, <2>1, <2>2 DEF ResultsGiven
  <2>6. QED
    BY <1>1, <2>3, <2>4, <2>5 DEF Attended
<1>6. QED
  BY <1>4, <1>5

\* A stream that has not worked ends.
LEMMA EndsAttended ==
  ASSUME ToolsTypeOK, Attended, NEW s \in Streams, ~Working(s),
         pc' = [pc EXCEPT ![s] = "over"],
         UNCHANGED <<history, status, thread, applying, epoch>>
  PROVE  Attended'
<1>1. CurrentCalls' = CurrentCalls
  BY SameHistory
<1>2. \A t \in Streams : t # s => pc'[t] = pc[t]
  BY DEF ToolsTypeOK
<1>3. \A t \in Streams : /\ Working(t) => Working(t)'
                         /\ pc[t] = "reading" => pc'[t] = "reading"
  BY <1>2 DEF Working
<1>4. QED
  BY <1>1, <1>3 DEF Attended, NoneUnknown, GeneratedByStream, CalledRuns, ResultsGiven

LEMMA LoopStepAttended ==
  ASSUME ToolsTypeOK, Conv, Attended, NEW s \in Streams, LoopStep(s)
  PROVE  Attended'
<1>1. pc[s] = "loop" /\ UNCHANGED <<status, thread, applying, epoch>>
  BY DEF LoopStep, callVars
<1>2. CASE asked[s] = {}
  <2>1. pc' = [pc EXCEPT ![s] = "over"] /\ history' = history /\ ~Working(s)
    BY <1>1, <1>2 DEF LoopStep, Working
  <2>2. QED
    BY <1>1, <2>1, EndsAttended
<1>3. CASE asked[s] # {}
  <2> DEFINE c == FirstOf(asked[s])
             n == started + 1
  <2>1. LoopTurn(s, c, status, asked[s] \ {c})
    BY <1>3 DEF LoopStep
  <2>2. asked[s] \in SUBSET Nat /\ asked[s] \subseteq ToolCallIds
    BY StreamIds DEF ToolsTypeOK
  <2>3. c \in ToolCallIds
    BY <1>3, <2>2, FirstIn
  <2>4. [pc EXCEPT ![s] = "loop"] = pc /\ pc \in [Streams -> Points]
    BY <1>1 DEF ToolsTypeOK
  <2>5. AfterToolCall(c, status, pc)
    BY <2>1, <2>4 DEF LoopTurn
  <2>6. \A t \in Streams : pc[t] # "none" => t # n
    BY StreamIds DEF Conv, InOrder, ToolsTypeOK
  <2> HIDE DEF c, n
  <2>7. CurrentCalls' = CurrentCalls
    <3>1. c \notin CurrentCalls => history' = history
      BY <2>5 DEF AfterToolCall
    <3>2. QED
      BY <2>3, <2>4, <2>5, <3>1, ResultFacts, SameHistory
  <2>8. \A t \in Streams : pc[t] # "none" => pc'[t] = pc[t]
    <3>1. ~GoesOn(c, status) => pc' = pc
      BY <2>3, <2>4, <2>5, ResultFacts
    <3>2. GoesOn(c, status) => \A t \in Streams : t # n => pc'[t] = pc[t]
      BY <2>3, <2>4, <2>5, ResultFacts DEF n
    <3>3. QED
      BY <2>6, <3>1, <3>2
  <2>9. \A t \in Streams : /\ Working(t) => Working(t)'
                           /\ pc[t] = "reading" => pc'[t] = "reading"
    BY <2>8 DEF Working
  <2>10. QED
    BY <1>1, <2>7, <2>9
       DEF Attended, NoneUnknown, GeneratedByStream, CalledRuns, ResultsGiven
<1>4. QED
  BY <1>2, <1>3

LEMMA AttendedStep ==
  ASSUME ToolsTypeOK, Conv, Undisturbed, Attended, ToolsNext, ~mishap'
  PROVE  Attended'
<1>1. ASSUME NEW s \in Streams, StreamStep(s) PROVE Attended'
  <2>1. CASE Resolved(s) \/ Compiled(s)
    BY <2>1, WorkerStepAttended
  <2>2. CASE NotEnoughContext(s) \/ StreamFails(s)
    BY <2>2 DEF NotEnoughContext, StreamFails, Throw
  <2>3. CASE StoppedRead(s)
    BY <2>3 DEF StoppedRead, Conv, WorksAlone, Working
  <2>4. CASE StreamEnds(s) \/ PrematureClose(s)
    BY <2>4, StreamEndAttended
  <2>5. CASE \E c \in ToolCallIds, valid \in BOOLEAN : Preprocessed(s, c, valid)
    BY <2>5, PreprocessedAttended
  <2>6. CASE \E policy \in [asked[s] -> Policies] : PoliciesEvaluated(s, policy)
    BY <2>6, PoliciesAttended
  <2>7. CASE Executed(s)
    <3>1. /\ ~Working(s) /\ pc' = [pc EXCEPT ![s] = "over"]
          /\ UNCHANGED <<history, status, thread, applying, epoch>>
      BY <2>7 DEF Executed, Working, callVars
    <3>2. QED
      BY <3>1, EndsAttended
  <2>8. CASE LoopStep(s)
    BY <2>8, LoopStepAttended
  <2>9. QED
    BY <1>1, <2>1, <2>2, <2>3, <2>4, <2>5, <2>6, <2>7, <2>8, Zenon DEF StreamStep
<1>2. ASSUME NEW s \in Streams, Text(s) \/ \E k \in Kinds : ToolCallDelta(s, k)
      PROVE  Attended'
  BY <1>2, WorkerStepAttended
<1>3. ASSUME NEW c \in ToolCallIds, ToolStep(c) PROVE Attended'
  <2>1. CASE \E result \in {"done", "errored"} : ToolReturns(c, result)
    BY <2>1, CallEndsAttended
  <2>2. CASE EditOpens(c)
    BY <2>2, CallMovesAttended
  <2>3. CASE ToolRequestFails(c)
    BY <2>3 DEF ToolRequestFails
  <2>4. QED
    BY <1>3, <2>1, <2>2, <2>3 DEF ToolStep
<1>4. ASSUME NEW c \in ToolCallIds, Accept(c) \/ RejectByKey(c) PROVE Attended'
  BY <1>4, CallMovesAttended
<1>5. ASSUME NEW c \in ToolCallIds, Reject(c) PROVE Attended'
  BY <1>5, CallEndsAttended
<1>6. ASSUME NEW c \in ToolCallIds, NEW failed \in BOOLEAN, EditCloses(c, failed)
      PROVE  Attended'
  BY <1>6, CallEndsAttended
<1>7. CASE Submit
  <2>1. history' = history \o <<UserMessage, EmptyAnswer>> /\ epoch' = epoch
    BY <1>7 DEF Submit
  <2>2. CurrentCalls' = {}
    BY <2>1, SubmitFacts
  <2>3. QED
    BY <2>1, <2>2
       DEF Attended, NoneUnknown, GeneratedByStream, CalledRuns, ResultsGiven
<1>8. CASE Stop
  BY <1>8 DEF Stop
<1>9. QED
  BY <1>1, <1>2, <1>3, <1>4, <1>5, <1>6, <1>7, <1>8, Zenon DEF ToolsNext

LEMMA SameAttended ==
  ASSUME ToolsTypeOK, Attended, UNCHANGED toolVars
  PROVE  Attended'
<1>1. /\ history' = history /\ epoch' = epoch /\ status' = status /\ thread' = thread
      /\ applying' = applying /\ pc' = pc
  BY DEF toolVars, callVars, streamVars
<1>2. CurrentCalls' = CurrentCalls /\ \A t \in Streams : Working(t)' <=> Working(t)
  BY <1>1, SameHistory DEF Working
<1>3. QED
  BY <1>1, <1>2
     DEF Attended, NoneUnknown, GeneratedByStream, CalledRuns, ResultsGiven

LEMMA MishapRemembered ==
  ASSUME ToolsTypeOK, [ToolsNext]_toolVars, ~mishap'
  PROVE  ~mishap
<1>1. CASE UNCHANGED toolVars
  BY <1>1 DEF toolVars
<1>2. ASSUME NEW s \in Streams, StreamStep(s) PROVE mishap' = mishap
  <2>1. CASE NotEnoughContext(s) \/ StreamFails(s)
    BY <2>1 DEF NotEnoughContext, StreamFails, Throw
  <2>2. CASE ~(NotEnoughContext(s) \/ StreamFails(s))
    BY <1>2, <2>2, Zenon
       DEF StreamStep, Resolved, Compiled, StoppedRead, StreamEnds, PrematureClose,
           Preprocessed, PoliciesEvaluated, Executed, LoopStep
  <2>3. QED
    BY <2>1, <2>2
<1>3. ASSUME NEW s \in Streams, Text(s) \/ \E k \in Kinds : ToolCallDelta(s, k)
      PROVE  mishap' = mishap
  BY <1>3 DEF Text, ToolCallDelta
<1>4. ASSUME NEW c \in ToolCallIds, ToolStep(c) PROVE mishap' = mishap
  <2>1. CASE ToolRequestFails(c)
    BY <2>1 DEF ToolRequestFails
  <2>2. CASE ~ToolRequestFails(c)
    BY <1>4, <2>2, Zenon DEF ToolStep, ToolReturns, EditOpens
  <2>3. QED
    BY <2>1, <2>2
<1>5. ASSUME NEW c \in ToolCallIds, Accept(c) \/ Reject(c) \/ RejectByKey(c)
      PROVE  mishap' = mishap
  BY <1>5, Zenon DEF Accept, Reject, RejectByKey
<1>6. ASSUME NEW c \in ToolCallIds, NEW failed \in BOOLEAN, EditCloses(c, failed)
      PROVE  mishap' = mishap
  BY <1>6, Zenon DEF EditCloses
<1>7. CASE Submit \/ Stop
  BY <1>7 DEF Submit, Stop
<1>8. QED
  BY <1>1, <1>2, <1>3, <1>4, <1>5, <1>6, <1>7, Zenon DEF ToolsNext

LEMMA AttendedKept ==
  ASSUME ToolsTypeOK, Undisturbed => Conv, Calm => Attended, [ToolsNext]_toolVars
  PROVE  Calm' => Attended'
<1>1. Calm' => Undisturbed /\ Conv /\ Attended /\ ~mishap'
  BY UserRemembered, MishapRemembered DEF Calm
<1>2. QED
  BY <1>1, AttendedStep, SameAttended

LEMMA AttendedInit == ToolsInit => Attended
<1> SUFFICES ASSUME ToolsInit PROVE Attended
  OBVIOUS
<1>1. history = <<>> /\ ToolsTypeOK
  BY TypesInit DEF ToolsInit
<1>2. CurrentCalls = {}
  BY <1>1 DEF CurrentCalls, CallingAnswers, Answers
<1>3. QED
  BY <1>2 DEF ToolsInit, Attended, NoneUnknown, GeneratedByStream, CalledRuns,
              ResultsGiven

\* A conversation does not hang: when nothing is under way any more, nothing was
\* stopped and no request failed, the last message has a call that waits for the
\* user or was canceled, or none: all its calls finished would have been given to
\* the model by the one that finished last.
THEOREM NothingHangsHolds == ToolsSpec => []NothingHangs
<1> DEFINE IInv == /\ ToolsTypeOK /\ (Undisturbed => Conv) /\ (Calm => Attended)
                   /\ (stops = 0 \/ mishap)
<1>1. ToolsInit => IInv
  BY TypesInit, ConvInit, AttendedInit DEF ToolsInit
<1>2. IInv /\ [ToolsNext]_toolVars => IInv'
  BY TypesNext, ConvKept, AttendedKept, UserSteps, MishapRemembered
<1>3. IInv => NothingHangs
  <2> SUFFICES ASSUME Attended, ToolsTypeOK, Quiet, CurrentCalls # {}
               PROVE  \E c \in CurrentCalls : status[c] \in {"generated", "canceled"}
    BY DEF NothingHangs, Calm, Undisturbed
  <2>1. \A s \in Streams : ~Working(s) /\ pc[s] # "reading"
    BY DEF Quiet, Working
  <2>2. PICK c \in CurrentCalls : status[c] \notin {"done", "errored"}
    BY <2>1 DEF Attended, ResultsGiven
  <2>3. c \in ToolCallIds /\ status[c] \in Statuses
    BY <2>2, CurrentTyped DEF ToolsTypeOK
  <2>4. status[c] \notin {"none", "generating", "calling"}
    BY <2>1, <2>3 DEF Attended, NoneUnknown, GeneratedByStream, CalledRuns, Quiet
  <2>5. QED
    BY <2>2, <2>3, <2>4 DEF Statuses
<1>4. QED
  BY <1>1, <1>2, <1>3, PTL DEF ToolsSpec
=============================================================================
