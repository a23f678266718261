---------------------- MODULE CompletionProvider_proofs ----------------------
(***************************************************************************)
(* Theorems about CompletionProvider, for any requests, texts and outputs  *)
(* of the model.                                                           *)
(***************************************************************************)
EXTENDS CompletionProvider, SequenceTheorems, TLAPS

Early == {"idle", "called", "debouncing", "ready"}

\* A request that has not come to its stream has left no trace.
EarlyIsEmpty ==
  \A r \in Requests : pc[r] \in Early =>
    /\ buffer[r] = <<>> /\ settled[r]
    /\ taken[r] = 0 /\ typed[r] = <<>> /\ received[r] = <<>>

TimerWaits == timer # None => pc[timer] = "debouncing"

CurrentStarted == current # None => pc[current] \notin Early

\* A request that reads has a source, and has taken no more than it holds.
SourceStarted ==
  \A r \in Requests : pc[r] \in Streaming =>
    /\ source[r] # None /\ pc[source[r]] \notin Early
    /\ taken[r] <= Len(buffer[source[r]])

\* A generator that has been replaced has been cancelled.
OnlyCurrentLives == \A g \in Requests : ~isEnded[g] => g = current

Shape ==
  /\ EarlyIsEmpty /\ TimerWaits /\ CurrentStarted /\ SourceStarted
  /\ OnlyCurrentLives /\ PendingIsCurrent

\* What Return makes of a request has the right type.
LEMMA ReturnType ==
  ASSUME TypeOK, NEW r \in Requests, Return(r)
  PROVE  /\ pc' \in [Requests -> Places]
         /\ multiline' \in [Requests -> BOOLEAN]
         /\ controllers' \subseteq Requests /\ aborted' \subseteq Requests
         /\ source' \in [Requests -> Requests \cup {None}]
         /\ taken' \in [Requests -> Nat]
         /\ typed' \in [Requests -> Seq(Chars)]
         /\ received' \in [Requests -> Seq(Chars)]
<1>1. pc' \in [Requests -> Places]
  BY DEF TypeOK, Return, Goto, Places
<1>2. multiline' \in [Requests -> BOOLEAN]
  BY DEF TypeOK, Return
<1>3. controllers' \subseteq Requests /\ aborted' \subseteq Requests
  BY DEF TypeOK, Return
<1>4. source' \in [Requests -> Requests \cup {None}]
  BY DEF TypeOK, Return
<1>5. taken' \in [Requests -> Nat]
  BY DEF TypeOK, Return
<1>6. <<>> \in Seq(Chars)
  BY EmptySeq
<1>7. typed' \in [Requests -> Seq(Chars)]
  BY <1>6 DEF TypeOK, Return
<1>8. received' \in [Requests -> Seq(Chars)]
  BY <1>6 DEF TypeOK, Return
<1>9. QED
  BY <1>1, <1>2, <1>3, <1>4, <1>5, <1>7, <1>8

\* Cancelling the current generator changes no type.
LEMMA CancelType ==
  ASSUME TypeOK
  PROVE  CancelCurrent \in [Requests -> BOOLEAN]
BY DEF TypeOK, CancelCurrent

\* Going to a place keeps the type of pc.
LEMMA GotoType ==
  ASSUME TypeOK, NEW r \in Requests, NEW place \in Places, Goto(r, place)
  PROVE  pc' \in [Requests -> Places]
BY DEF TypeOK, Goto

\* The types, for the sequences an action builds.
LEMMA TypeStep ==
  ASSUME TypeOK, Shape, [Next]_vars
  PROVE  TypeOK'
<1>1. ASSUME NEW r \in Requests, NEW p \in Texts, Call(r, p) PROVE TypeOK'
  <2>1. pc' \in [Requests -> Places]
    BY <1>1, GotoType DEF Call, Places
  <2>2. prefix' \in [Requests -> Seq(Chars)]
    BY <1>1, TextAssumption DEF TypeOK, Call
  <2>3. QED
    BY <1>1, <2>1, <2>2 DEF TypeOK, Call, debouncer, generators, reading
<1>2. ASSUME NEW r \in Requests, ReturnEarly(r) PROVE TypeOK'
  BY <1>2, ReturnType DEF TypeOK, ReturnEarly, debouncer, generators
<1>3. ASSUME NEW r \in Requests, Debounce(r) PROVE TypeOK'
  <2>1. pc' \in [Requests -> Places]
    BY <1>3, GotoType DEF Debounce, Places
  <2>2. QED
    BY <1>3, <2>1 DEF TypeOK, Debounce, signals, generators, reading
<1>4. ASSUME NEW r \in Requests, SkipDebounce(r) PROVE TypeOK'
  <2>1. pc' \in [Requests -> Places]
    BY <1>4, GotoType DEF SkipDebounce, Places
  <2>2. QED
    BY <1>4, <2>1 DEF TypeOK, SkipDebounce, debouncer, signals, generators, reading
<1>5. ASSUME NEW r \in Requests, TimerFires(r) PROVE TypeOK'
  <2>1. CASE latest = r
    <3>1. pc' \in [Requests -> Places]
      BY <1>5, <2>1, GotoType DEF TimerFires, Places
    <3>2. QED
      BY <1>5, <2>1, <3>1 DEF TypeOK, TimerFires, signals, generators, reading
  <2>2. CASE latest # r
    BY <1>5, <2>2, ReturnType DEF TypeOK, TimerFires, generators
  <2>3. QED
    BY <2>1, <2>2
<1>6. ASSUME NEW r \in Requests, Begin(r) PROVE TypeOK'
  <2>1. CASE CanReuse(prefix[r])
    <3>1. current \in Requests /\ Len(prefix[current]) \in Nat /\ Len(prefix[r]) \in Nat
      <4>1. current # None
        BY <2>1 DEF CanReuse, ReuseLonger
      <4>2. current \in Requests
        BY <4>1 DEF TypeOK
      <4>3. prefix[current] \in Seq(Chars) /\ prefix[r] \in Seq(Chars)
        BY <4>2 DEF TypeOK
      <4>4. QED
        BY <4>2, <4>3
    <3>2. SubSeq(prefix[r], Len(prefix[current]) + 1, Len(prefix[r])) \in Seq(Chars)
      <4>1. \A i \in (Len(prefix[current]) + 1)..Len(prefix[r]) : prefix[r][i] \in Chars
        BY <3>1, ElementOfSeq DEF TypeOK
      <4>2. QED
        BY <3>1, <4>1, SubSeqProperties
    <3>3. /\ typed' = [typed EXCEPT ![r] =
               SubSeq(prefix[r], Len(prefix[current]) + 1, Len(prefix[r]))]
          /\ source' = [source EXCEPT ![r] = current]
          /\ UNCHANGED generators
      BY <1>6, <2>1 DEF Begin
    <3>4. typed' \in [Requests -> Seq(Chars)]
      BY <3>2, <3>3 DEF TypeOK
    <3>5. source' \in [Requests -> Requests \cup {None}]
      BY <3>1, <3>3 DEF TypeOK
    <3>6. pc' \in [Requests -> Places] /\ multiline' \in [Requests -> BOOLEAN]
      BY <1>6 DEF TypeOK, Begin, Goto, Places, Streaming
    <3>7. QED
      BY <1>6, <3>3, <3>6, <3>4, <3>5 DEF TypeOK, Begin, debouncer, signals, generators
  <2>2. CASE ~CanReuse(prefix[r])
    <3>1. source' = [source EXCEPT ![r] = r] /\ current' = r /\ UNCHANGED <<buffer, typed>>
      BY <1>6, <2>2 DEF Begin
    <3>2. source' \in [Requests -> Requests \cup {None}] /\ current' \in Requests
      BY <3>1 DEF TypeOK
    <3>3. pc' \in [Requests -> Places] /\ multiline' \in [Requests -> BOOLEAN]
      BY <1>6 DEF TypeOK, Begin, Goto, Places, Streaming
    <3>4. isEnded' \in [Requests -> BOOLEAN] /\ settled' \in [Requests -> BOOLEAN]
      BY <1>6, <2>2, CancelType DEF TypeOK, Begin
    <3>5. pending' \in Seq(Chars)
      BY <1>6, <2>2 DEF Begin
    <3>6. QED
      BY <1>6, <3>1, <3>2, <3>3, <3>4, <3>5 DEF TypeOK, Begin, debouncer, signals
  <2>3. QED
    BY <2>1, <2>2
<1>7. ASSUME NEW r \in Requests, Wait(r) PROVE TypeOK'
  BY <1>7 DEF TypeOK, Wait, Goto, debouncer, signals, generators, reading, Streaming, Places
<1>8. ASSUME NEW r \in Requests, DropTyped(r) PROVE TypeOK'
  <2>1. typed[r] \in Seq(Chars) /\ typed[r] # <<>>
    BY <1>8 DEF TypeOK, DropTyped, IsTyped
  <2>2. Tail(typed[r]) \in Seq(Chars)
    BY <2>1
  <2>3. QED
    <3>1. typed' \in [Requests -> Seq(Chars)] /\ taken' \in [Requests -> Nat]
      BY <1>8, <2>2 DEF TypeOK, DropTyped
    <3>2. QED
      BY <1>8, <3>1 DEF TypeOK, DropTyped, debouncer, signals, generators
<1>9. ASSUME NEW r \in Requests, Deliver(r) PROVE TypeOK'
  <2>1. source[r] \in Requests /\ taken[r] \in Nat /\ buffer[source[r]] \in Seq(Chars)
    BY <1>9 DEF TypeOK, Shape, SourceStarted, Deliver, Streaming
  <2>2. NextChunk(r) \in Chars
    BY <1>9, <2>1, ElementOfSeq DEF Deliver, HasMore, NextChunk
  <2>3. Append(received[r], NextChunk(r)) \in Seq(Chars)
    BY <2>2 DEF TypeOK
  <2>4. QED
    <3>1. received' \in [Requests -> Seq(Chars)]
      BY <1>9, <2>3 DEF TypeOK, Deliver
    <3>2. taken' \in [Requests -> Nat]
      <4>1. taken' = [taken EXCEPT ![r] = @ + 1]
        BY <1>9 DEF Deliver
      <4>2. taken \in [Requests -> Nat]
        BY DEF TypeOK
      <4>3. QED
        BY <2>1, <4>1, <4>2
    <3>3. pc' \in [Requests -> Places]
      BY <1>9, GotoType DEF Deliver, Places, Streaming
    <3>4. QED
      BY <1>9, <3>1, <3>2, <3>3 DEF TypeOK, Deliver, debouncer, signals, generators
<1>10. ASSUME NEW r \in Requests, StopReading(r) PROVE TypeOK'
  BY <1>10 DEF TypeOK, StopReading, Goto, debouncer, signals, generators, reading, Streaming, Places
<1>11. ASSUME NEW r \in Requests, Filter(r) PROVE TypeOK'
  BY <1>11 DEF TypeOK, Filter, Goto, debouncer, signals, generators, reading, Streaming, Places
<1>12. ASSUME NEW r \in Requests, Complete(r) PROVE TypeOK'
  BY <1>12, ReturnType DEF TypeOK, Complete, debouncer, generators
<1>13. ASSUME NEW r \in Requests, FullStop(r) PROVE TypeOK'
  <2>1. isEnded' \in [Requests -> BOOLEAN]
    BY <1>13, CancelType DEF FullStop
  <2>2. CASE Return(r)
    BY <1>13, <2>1, <2>2, ReturnType DEF TypeOK, FullStop, debouncer
  <2>3. CASE Goto(r, "reading") /\ UNCHANGED <<multiline, signals, reading>>
    <3>1. pc' \in [Requests -> Places]
      BY <2>3 DEF TypeOK, Goto, Places, Streaming
    <3>2. QED
      BY <1>13, <2>1, <2>3, <3>1 DEF TypeOK, FullStop, debouncer, signals, reading
  <2>4. QED
    BY <1>13, <2>2, <2>3 DEF FullStop
<1>14. ASSUME NEW g \in Requests, Push(g) PROVE TypeOK'
  <2>1. isEnded' \in [Requests -> BOOLEAN]
    BY <1>14, CancelType DEF TypeOK, Push
  <2>2. PICK c \in Chars : /\ buffer' = [buffer EXCEPT ![g] = Append(@, c)]
                           /\ pending' = Append(pending, c)
    BY <1>14 DEF Push
  <2>3. buffer' \in [Requests -> Seq(Chars)] /\ pending' \in Seq(Chars)
    BY <2>2 DEF TypeOK
  <2>4. pc' \in [Requests -> Places]
    BY <1>14 DEF TypeOK, Push, WakeReaders, Places, Streaming
  <2>5. QED
    BY <1>14, <2>1, <2>3, <2>4 DEF TypeOK, Push, debouncer, signals, reading
<1>15. ASSUME NEW g \in Requests, Settle(g) PROVE TypeOK'
  BY <1>15 DEF TypeOK, Settle, WakeReaders, debouncer, signals, reading, Streaming, Places
<1>16. CASE Cancel
  BY <1>16 DEF TypeOK, Cancel, debouncer, generators, reading
<1>17. ASSUME NEW r \in Requests, Abort(r) PROVE TypeOK'
  BY <1>17 DEF TypeOK, Abort, debouncer, generators, reading
<1>18. CASE UNCHANGED vars
  BY <1>18 DEF TypeOK, vars, debouncer, signals, generators, reading
<1>19. QED
  BY <1>1, <1>2, <1>3, <1>4, <1>5, <1>6, <1>7, <1>8, <1>9, <1>10, <1>11, <1>12,
     <1>13, <1>14, <1>15, <1>16, <1>17, <1>18 DEF Next, RequestStep, ModelStep

-----------------------------------------------------------------------------
\* A request that returns disturbs none of the parts of Shape, if the
\* generators and the debouncer stay as they are for it.
LEMMA ReturnShape ==
  ASSUME TypeOK, TypeOK', Shape, NEW r \in Requests, Return(r),
         timer' # r, timer' \in {None, timer},
         UNCHANGED <<current, pending, buffer, settled>>,
         \A g \in Requests : ~isEnded'[g] => ~isEnded[g]
  PROVE  Shape'
<1> DEFINE Same(q) == /\ taken'[q] = taken[q] /\ typed'[q] = typed[q]
                      /\ received'[q] = received[q] /\ source'[q] = source[q]
<1>1. pc'[r] = "done" /\ \A q \in Requests : q # r => pc'[q] = pc[q] /\ Same(q)
  BY DEF TypeOK, Return, Goto
<1>2. EarlyIsEmpty'
  BY <1>1 DEF Shape, EarlyIsEmpty, Early
<1>3. TimerWaits'
  BY <1>1 DEF TypeOK, Shape, TimerWaits
<1>4. CurrentStarted'
  BY <1>1 DEF TypeOK, Shape, CurrentStarted, Early
<1>5. SourceStarted'
  <2> SUFFICES ASSUME NEW q \in Requests, pc'[q] \in Streaming
               PROVE  /\ source'[q] # None /\ pc'[source'[q]] \notin Early
                      /\ taken'[q] <= Len(buffer'[source'[q]])
    BY DEF SourceStarted
  <2>1. q # r /\ pc[q] \in Streaming
    BY <1>1 DEF Streaming
  <2>2. /\ source[q] \in Requests /\ pc[source[q]] \notin Early
        /\ source[q] # None /\ taken[q] <= Len(buffer[source[q]])
    BY <2>1 DEF TypeOK, Shape, SourceStarted
  <2>3. pc'[source[q]] \notin Early
    BY <1>1, <2>2 DEF Early
  <2>4. QED
    BY <1>1, <2>1, <2>2, <2>3
<1>6. OnlyCurrentLives'
  BY DEF Shape, OnlyCurrentLives
<1>7. PendingIsCurrent'
  BY DEF Shape, PendingIsCurrent
<1>8. QED
  BY <1>2, <1>3, <1>4, <1>5, <1>6, <1>7 DEF Shape

\* Neither does one that goes to another place of the same part of its life.
LEMMA GotoShape ==
  ASSUME TypeOK, TypeOK', Shape, NEW r \in Requests, NEW place \in Places,
         Goto(r, place), UNCHANGED <<generators, reading>>,
         \/ place \in Streaming /\ pc[r] \in Streaming
         \/ place \in Early /\ pc[r] \in Early,
         \/ timer' \in {None, timer} /\ timer' # r
         \/ timer' = r /\ place = "debouncing"
  PROVE  Shape'
<1>1. pc'[r] = place /\ \A q \in Requests : q # r => pc'[q] = pc[q]
  BY DEF TypeOK, Goto
<1>2. \A q \in Requests : /\ pc'[q] \in Early <=> pc[q] \in Early
                          /\ pc'[q] \in Streaming <=> pc[q] \in Streaming
  BY <1>1 DEF Early, Streaming
<1>3. EarlyIsEmpty'
  BY <1>2 DEF Shape, EarlyIsEmpty, generators, reading
<1>4. TimerWaits'
  BY <1>1 DEF TypeOK, Shape, TimerWaits
<1>5. CurrentStarted'
  BY <1>2 DEF TypeOK, Shape, CurrentStarted, generators
<1>6. SourceStarted'
  BY <1>2 DEF TypeOK, Shape, SourceStarted, generators, reading
<1>7. OnlyCurrentLives' /\ PendingIsCurrent'
  BY DEF Shape, OnlyCurrentLives, PendingIsCurrent, generators
<1>8. QED
  BY <1>3, <1>4, <1>5, <1>6, <1>7 DEF Shape

\* Cancelling revives no generator.
LEMMA CancelEnds ==
  ASSUME TypeOK
  PROVE  \A g \in Requests : ~CancelCurrent[g] => ~isEnded[g] /\ g # current
BY NoneAssumption DEF TypeOK, CancelCurrent

\* Waking readers moves them from one place of the stream to another.
LEMMA WakeKeeps ==
  ASSUME TypeOK, NEW g \in Requests, pc' = WakeReaders(g)
  PROVE  \A q \in Requests :
           /\ pc'[q] \in Early <=> pc[q] \in Early
           /\ pc'[q] \in Streaming <=> pc[q] \in Streaming
           /\ pc[q] = "debouncing" => pc'[q] = "debouncing"
BY DEF TypeOK, WakeReaders, Early, Streaming

LEMMA ShapeStep ==
  ASSUME TypeOK, TypeOK', Shape, [Next]_vars
  PROVE  Shape'
<1>0. \A r \in Requests : r # None
  BY NoneAssumption
<1>1. ASSUME NEW r \in Requests, NEW p \in Texts, Call(r, p) PROVE Shape'
  <2>1. timer' = timer /\ timer # r
    BY <1>1, <1>0 DEF Call, debouncer, Shape, TimerWaits
  <2>2. QED
    BY <1>1, <2>1, GotoShape DEF Call, Places, Early
<1>2. ASSUME NEW r \in Requests, ReturnEarly(r) PROVE Shape'
  <2>1. timer' = timer /\ timer # r
    BY <1>2, <1>0 DEF ReturnEarly, debouncer, Shape, TimerWaits
  <2>2. QED
    BY <1>2, <2>1, ReturnShape DEF ReturnEarly, generators
<1>3. ASSUME NEW r \in Requests, Debounce(r) PROVE Shape'
  BY <1>3, GotoShape DEF Debounce, Places, Early
<1>4. ASSUME NEW r \in Requests, SkipDebounce(r) PROVE Shape'
  <2>1. timer' = timer /\ timer # r
    BY <1>4, <1>0 DEF SkipDebounce, debouncer, Shape, TimerWaits
  <2>2. QED
    BY <1>4, <2>1, GotoShape DEF SkipDebounce, Places, Early
<1>5. ASSUME NEW r \in Requests, TimerFires(r) PROVE Shape'
  <2>1. timer' = None /\ timer' # r /\ pc[r] = "debouncing"
    BY <1>5, <1>0 DEF TimerFires, Shape, TimerWaits
  <2>2. CASE latest = r
    BY <1>5, <2>1, <2>2, GotoShape DEF TimerFires, Places, Early
  <2>3. CASE latest # r
    BY <1>5, <2>1, <2>3, ReturnShape DEF TimerFires, generators
  <2>4. QED
    BY <2>2, <2>3
<1>6. ASSUME NEW r \in Requests, Begin(r) PROVE Shape'
  <2>1. pc[r] = "ready" /\ pc'[r] = "reading" /\ \A q \in Requests : q # r => pc'[q] = pc[q]
    BY <1>6 DEF TypeOK, Begin, Goto
  <2>2. taken' = taken /\ received' = received /\ timer' = timer
    BY <1>6 DEF Begin, debouncer
  <2>3. taken[r] = 0 /\ buffer[r] = <<>>
    BY <2>1 DEF Shape, EarlyIsEmpty, Early
  <2>4. TimerWaits'
    BY <2>1, <2>2 DEF TypeOK, Shape, TimerWaits
  <2>5. CASE CanReuse(prefix[r])
    <3>1. current # None /\ source' = [source EXCEPT ![r] = current] /\ UNCHANGED generators
      BY <1>6, <2>5 DEF Begin, CanReuse, ReuseLonger
    <3>2. \A q \in Requests : q # r => typed'[q] = typed[q]
      BY <1>6, <2>5 DEF TypeOK, Begin
    <3>3. EarlyIsEmpty'
      BY <2>1, <2>2, <3>1, <3>2 DEF Shape, EarlyIsEmpty, Early, generators
    <3>4. CurrentStarted'
      BY <2>1, <3>1 DEF TypeOK, Shape, CurrentStarted, Early, generators
    <3>5. SourceStarted'
      <4>1. current \in Requests /\ pc[current] \notin Early /\ Len(buffer[current]) \in Nat
        BY <3>1 DEF TypeOK, Shape, CurrentStarted
      <4>2. source'[r] = current /\ \A q \in Requests : q # r => source'[q] = source[q]
        BY <3>1 DEF TypeOK
      <4>3. buffer' = buffer
        BY <3>1 DEF generators
      <4>4. ASSUME NEW q \in Requests, q # r, pc'[q] \in Streaming
            PROVE  /\ source'[q] # None /\ pc'[source'[q]] \notin Early
                   /\ taken'[q] <= Len(buffer'[source'[q]])
        <5>1. /\ source[q] \in Requests /\ pc[source[q]] \notin Early
              /\ source[q] # None /\ taken[q] <= Len(buffer[source[q]])
          BY <2>1, <4>4 DEF TypeOK, Shape, SourceStarted
        <5>2. QED
          BY <2>1, <2>2, <4>2, <4>3, <4>4, <5>1 DEF Early
      <4>5. taken'[r] <= Len(buffer'[source'[r]])
        BY <2>2, <2>3, <4>1, <4>2, <4>3
      <4>6. source'[r] # None /\ pc'[source'[r]] \notin Early
        BY <1>0, <2>1, <4>1, <4>2 DEF Early
      <4>7. QED
        BY <4>4, <4>5, <4>6 DEF SourceStarted
    <3>6. OnlyCurrentLives' /\ PendingIsCurrent'
      BY <3>1 DEF Shape, OnlyCurrentLives, PendingIsCurrent, generators
    <3>7. QED
      BY <2>4, <3>3, <3>4, <3>5, <3>6 DEF Shape
  <2>6. CASE ~CanReuse(prefix[r])
    <3>1. /\ source' = [source EXCEPT ![r] = r] /\ current' = r /\ pending' = <<>>
          /\ isEnded' = [CancelCurrent EXCEPT ![r] = FALSE]
          /\ settled' = [settled EXCEPT ![r] = FALSE]
          /\ UNCHANGED <<buffer, typed>>
      BY <1>6, <2>6 DEF Begin
    <3>2. EarlyIsEmpty'
      BY <2>1, <2>2, <3>1 DEF TypeOK, Shape, EarlyIsEmpty, Early
    <3>3. CurrentStarted'
      BY <2>1, <3>1 DEF CurrentStarted, Early
    <3>4. SourceStarted'
      <4>1. source'[r] = r /\ \A q \in Requests : q # r => source'[q] = source[q]
        BY <3>1 DEF TypeOK
      <4>2. Len(buffer[r]) = 0
        BY <2>3
      <4>3. ASSUME NEW q \in Requests, q # r, pc'[q] \in Streaming
            PROVE  /\ source'[q] # None /\ pc'[source'[q]] \notin Early
                   /\ taken'[q] <= Len(buffer'[source'[q]])
        <5>1. /\ source[q] \in Requests /\ pc[source[q]] \notin Early
              /\ source[q] # None /\ taken[q] <= Len(buffer[source[q]])
          BY <2>1, <4>3 DEF TypeOK, Shape, SourceStarted
        <5>2. QED
          BY <2>1, <2>2, <3>1, <4>1, <4>3, <5>1 DEF Early
      <4>4. taken'[r] <= Len(buffer'[source'[r]])
        BY <2>2, <2>3, <3>1, <4>1, <4>2
      <4>5. source'[r] # None /\ pc'[source'[r]] \notin Early
        BY <1>0, <2>1, <4>1 DEF Early
      <4>6. QED
        BY <4>3, <4>4, <4>5 DEF SourceStarted
    <3>5. OnlyCurrentLives'
      BY <3>1, CancelType, CancelEnds DEF Shape, OnlyCurrentLives
    <3>6. PendingIsCurrent'
      BY <2>3, <3>1 DEF PendingIsCurrent
    <3>7. QED
      BY <2>4, <3>2, <3>3, <3>4, <3>5, <3>6 DEF Shape
  <2>7. QED
    BY <2>5, <2>6
<1>7. ASSUME NEW r \in Requests, Wait(r) \/ StopReading(r) \/ Filter(r) PROVE Shape'
  <2>1. timer' = timer /\ timer # r
    BY <1>7, <1>0 DEF Wait, StopReading, Filter, debouncer, Shape, TimerWaits
  <2>2. CASE Wait(r)
    BY <2>1, <2>2, GotoShape DEF Wait, Places, Streaming
  <2>3. CASE StopReading(r)
    BY <2>1, <2>3, GotoShape DEF StopReading, Places, Streaming
  <2>4. CASE Filter(r)
    BY <2>1, <2>4, GotoShape DEF Filter, Places, Streaming
  <2>5. QED
    BY <1>7, <2>2, <2>3, <2>4
<1>8. ASSUME NEW r \in Requests, DropTyped(r) PROVE Shape'
  <2>1. /\ pc[r] = "reading" /\ taken[r] < Len(buffer[source[r]])
        /\ UNCHANGED <<pc, timer, generators, source, received>>
    BY <1>8 DEF DropTyped, HasMore, debouncer
  <2>2. taken'[r] = taken[r] + 1
    BY <1>8 DEF TypeOK, DropTyped
  <2>3. \A q \in Requests : q # r => taken'[q] = taken[q] /\ typed'[q] = typed[q]
    BY <1>8 DEF TypeOK, DropTyped
  <2>4. EarlyIsEmpty'
    BY <2>1, <2>3 DEF Shape, EarlyIsEmpty, Early, generators
  <2>5. TimerWaits' /\ CurrentStarted' /\ OnlyCurrentLives' /\ PendingIsCurrent'
    BY <2>1 DEF Shape, TimerWaits, CurrentStarted, OnlyCurrentLives, PendingIsCurrent,
                generators
  <2>6. SourceStarted'
    <3>1. source[r] \in Requests /\ taken[r] \in Nat /\ Len(buffer[source[r]]) \in Nat
      BY <2>1 DEF TypeOK, Shape, SourceStarted, Streaming
    <3>2. QED
      BY <2>1, <2>2, <2>3, <3>1 DEF Shape, SourceStarted, generators
  <2>7. QED
    BY <2>4, <2>5, <2>6 DEF Shape
<1>9. ASSUME NEW r \in Requests, Deliver(r) PROVE Shape'
  <2>1. /\ pc[r] = "reading" /\ taken[r] < Len(buffer[source[r]])
        /\ UNCHANGED <<timer, generators, source, typed>>
    BY <1>9 DEF Deliver, HasMore, debouncer
  <2>2. taken'[r] = taken[r] + 1 /\ pc'[r] = "filtering"
    BY <1>9 DEF TypeOK, Deliver, Goto
  <2>3. \A q \in Requests :
          q # r => taken'[q] = taken[q] /\ received'[q] = received[q] /\ pc'[q] = pc[q]
    BY <1>9 DEF TypeOK, Deliver, Goto
  <2>4. EarlyIsEmpty'
    BY <2>1, <2>2, <2>3 DEF Shape, EarlyIsEmpty, Early, generators
  <2>5. TimerWaits'
    BY <2>1, <2>2, <2>3 DEF TypeOK, Shape, TimerWaits
  <2>6. CurrentStarted'
    BY <2>1, <2>2, <2>3 DEF TypeOK, Shape, CurrentStarted, Early, generators
  <2>7. OnlyCurrentLives' /\ PendingIsCurrent'
    BY <2>1 DEF Shape, OnlyCurrentLives, PendingIsCurrent, generators
  <2>8. SourceStarted'
    <3>1. source[r] \in Requests /\ taken[r] \in Nat /\ Len(buffer[source[r]]) \in Nat
      BY <2>1 DEF TypeOK, Shape, SourceStarted, Streaming
    <3>2. \A q \in Requests : /\ pc'[q] \in Early <=> pc[q] \in Early
                              /\ pc'[q] \in Streaming <=> pc[q] \in Streaming
      BY <2>1, <2>2, <2>3 DEF Early, Streaming
    <3>3. \A q \in Requests : source[q] \in Requests \cup {None}
      BY DEF TypeOK
    <3>4. QED
      BY <2>1, <2>2, <2>3, <3>1, <3>2, <3>3 DEF Shape, SourceStarted, generators
  <2>9. QED
    BY <2>4, <2>5, <2>6, <2>7, <2>8 DEF Shape
<1>10. ASSUME NEW r \in Requests, Complete(r) PROVE Shape'
  <2>1. timer' = timer /\ timer # r
    BY <1>10, <1>0 DEF Complete, debouncer, Shape, TimerWaits
  <2>2. QED
    BY <1>10, <2>1, ReturnShape DEF Complete, generators
<1>11. ASSUME NEW r \in Requests, FullStop(r) PROVE Shape'
  <2>1. timer' = timer /\ timer # r
    BY <1>11, <1>0 DEF FullStop, debouncer, Shape, TimerWaits
  <2>2. \A g \in Requests : ~isEnded'[g] => ~isEnded[g]
    BY <1>11, CancelEnds DEF FullStop
  <2>3. CASE Return(r)
    BY <1>11, <2>1, <2>2, <2>3, ReturnShape DEF FullStop
  <2>4. CASE pc[r] = "filtering" /\ Goto(r, "reading") /\ UNCHANGED reading
    <3>1. pc'[r] = "reading" /\ \A q \in Requests : q # r => pc'[q] = pc[q]
      BY <2>4 DEF TypeOK, Goto
    <3>2. \A q \in Requests : /\ pc'[q] \in Early <=> pc[q] \in Early
                              /\ pc'[q] \in Streaming <=> pc[q] \in Streaming
      BY <2>4, <3>1 DEF Early, Streaming
    <3>3. UNCHANGED <<current, pending, buffer, settled>>
      BY <1>11 DEF FullStop
    <3>4. EarlyIsEmpty'
      BY <2>4, <3>2, <3>3 DEF Shape, EarlyIsEmpty, reading
    <3>5. TimerWaits'
      BY <2>1, <3>1 DEF TypeOK, Shape, TimerWaits
    <3>6. CurrentStarted'
      BY <3>2, <3>3 DEF TypeOK, Shape, CurrentStarted
    <3>7. SourceStarted'
      BY <2>4, <3>2, <3>3 DEF TypeOK, Shape, SourceStarted, reading
    <3>8. OnlyCurrentLives' /\ PendingIsCurrent'
      BY <2>2, <3>3 DEF Shape, OnlyCurrentLives, PendingIsCurrent
    <3>9. QED
      BY <3>4, <3>5, <3>6, <3>7, <3>8 DEF Shape
  <2>5. QED
    BY <1>11, <2>3, <2>4 DEF FullStop
<1>12. ASSUME NEW g \in Requests, Push(g) PROVE Shape'
  <2>1. PICK c \in Chars : /\ buffer' = [buffer EXCEPT ![g] = Append(@, c)]
                           /\ pending' = Append(pending, c)
    BY <1>12 DEF Push
  <2>2. g = current /\ ~settled[g] /\ UNCHANGED <<timer, current, settled, reading>>
    BY <1>12 DEF Push, Broken, Shape, OnlyCurrentLives, debouncer
  <2>3. pc[g] \notin Early
    BY <2>2 DEF Shape, EarlyIsEmpty
  <2>4. \A q \in Requests : /\ pc'[q] \in Early <=> pc[q] \in Early
                            /\ pc'[q] \in Streaming <=> pc[q] \in Streaming
                            /\ pc[q] = "debouncing" => pc'[q] = "debouncing"
    BY <1>12, WakeKeeps DEF Push
  <2>5. EarlyIsEmpty'
    BY <2>1, <2>2, <2>3, <2>4 DEF TypeOK, Shape, EarlyIsEmpty, reading
  <2>6. TimerWaits'
    BY <2>2, <2>4 DEF TypeOK, Shape, TimerWaits
  <2>7. CurrentStarted'
    BY <2>2, <2>4 DEF TypeOK, Shape, CurrentStarted
  <2>8. SourceStarted'
    <3>1. Len(buffer'[g]) = Len(buffer[g]) + 1 /\ Len(buffer[g]) \in Nat
      BY <2>1 DEF TypeOK
    <3>2. \A q \in Requests : q # g => buffer'[q] = buffer[q]
      BY <2>1 DEF TypeOK
    <3>3. \A q \in Requests : Len(buffer[q]) \in Nat /\ taken[q] \in Nat
      BY DEF TypeOK
    <3>4. \A q \in Requests : source[q] \in Requests \cup {None}
      BY DEF TypeOK
    <3>5. QED
      BY <2>2, <2>4, <3>1, <3>2, <3>3, <3>4 DEF Shape, SourceStarted, reading
  <2>9. OnlyCurrentLives'
    BY <1>12, <2>2, CancelEnds DEF Push, Shape, OnlyCurrentLives
  <2>10. PendingIsCurrent'
    BY <2>1, <2>2 DEF TypeOK, Shape, PendingIsCurrent
  <2>11. QED
    BY <2>5, <2>6, <2>7, <2>8, <2>9, <2>10 DEF Shape
<1>13. ASSUME NEW g \in Requests, Settle(g) PROVE Shape'
  <2>1. /\ settled' = [settled EXCEPT ![g] = TRUE] /\ isEnded' = [isEnded EXCEPT ![g] = TRUE]
        /\ UNCHANGED <<timer, current, pending, buffer, reading>>
    BY <1>13 DEF Settle, debouncer
  <2>2. \A q \in Requests : /\ pc'[q] \in Early <=> pc[q] \in Early
                            /\ pc'[q] \in Streaming <=> pc[q] \in Streaming
                            /\ pc[q] = "debouncing" => pc'[q] = "debouncing"
    BY <1>13, WakeKeeps DEF Settle
  <2>3. EarlyIsEmpty'
    BY <2>1, <2>2 DEF TypeOK, Shape, EarlyIsEmpty, reading
  <2>4. TimerWaits'
    BY <2>1, <2>2 DEF TypeOK, Shape, TimerWaits
  <2>5. CurrentStarted'
    BY <2>1, <2>2 DEF TypeOK, Shape, CurrentStarted
  <2>6. SourceStarted'
    BY <2>1, <2>2 DEF TypeOK, Shape, SourceStarted, reading
  <2>7. OnlyCurrentLives' /\ PendingIsCurrent'
    BY <2>1 DEF TypeOK, Shape, OnlyCurrentLives, PendingIsCurrent
  <2>8. QED
    BY <2>3, <2>4, <2>5, <2>6, <2>7 DEF Shape
<1>14. CASE Cancel \/ (\E r \in Requests : Abort(r)) \/ UNCHANGED vars
  <2>1. UNCHANGED <<pc, timer, generators, reading>>
    BY <1>14 DEF Cancel, Abort, vars, debouncer
  <2>2. QED
    BY <2>1 DEF Shape, EarlyIsEmpty, TimerWaits, CurrentStarted, SourceStarted,
                OnlyCurrentLives, PendingIsCurrent, generators, reading
<1>15. QED
  BY <1>1, <1>2, <1>3, <1>4, <1>5, <1>6, <1>7, <1>8, <1>9, <1>10, <1>11, <1>12,
     <1>13, <1>14 DEF Next, RequestStep, ModelStep

-----------------------------------------------------------------------------
(***************************************************************************)
(* What a request has received, as a relation between sequences: the text  *)
(* P of its generator, the output B, how many chunks t it has taken, what  *)
(* was typed u, the text p of the request, and what it has received v.     *)
(***************************************************************************)
Fits(P, B, t, u, p, v) ==
  IF u = <<>> THEN P \o SubSeq(B, 1, t) = p \o v
              ELSE /\ (P \o SubSeq(B, 1, t)) \o u = p
                   /\ v = <<>>
                   /\ IsPrefix(p, P \o B)

LEMMA PrefixElements ==
  ASSUME NEW S, NEW s \in Seq(S), NEW w \in Seq(S)
  PROVE  IsPrefix(s, w) <=> /\ Len(s) <= Len(w)
                            /\ \A i \in 1..Len(s) : s[i] = w[i]
<1>1. Len(s) \in Nat /\ Len(w) \in Nat /\ SubSeq(s, 1, Len(s)) = s
  BY SubSeqFull
<1>2. CASE Len(s) > Len(w)
  BY <1>1, <1>2 DEF IsPrefix
<1>3. CASE Len(s) <= Len(w)
  <2>1. \A i \in 1..Len(s) : w[i] \in S
    BY <1>1, <1>3, ElementOfSeq
  <2>2. /\ SubSeq(w, 1, Len(s)) \in Seq(S)
        /\ Len(SubSeq(w, 1, Len(s))) = Len(s)
        /\ \A i \in 1..Len(s) : SubSeq(w, 1, Len(s))[i] = w[i]
    BY <1>1, <2>1, SubSeqProperties
  <2>3. (\A i \in 1..Len(s) : s[i] = w[i]) => s = SubSeq(w, 1, Len(s))
    BY <2>2, SeqEqual
  <2>4. QED
    BY <1>1, <1>3, <2>2, <2>3 DEF IsPrefix
<1>4. QED
  BY <1>1, <1>2, <1>3

LEMMA PrefixAgrees ==
  ASSUME NEW S, NEW s \in Seq(S), NEW w \in Seq(S), IsPrefix(s, w)
  PROVE  /\ Len(s) <= Len(w)
         /\ \A i \in 1..Len(s) : s[i] = w[i]
BY PrefixElements

\* One more chunk is appended to those that were taken before.
LEMMA TakeOne ==
  ASSUME NEW S, NEW B \in Seq(S), NEW t \in Nat, t < Len(B)
  PROVE  /\ B[t + 1] \in S
         /\ SubSeq(B, 1, t) \in Seq(S)
         /\ Len(SubSeq(B, 1, t)) = t
         /\ SubSeq(B, 1, t + 1) = SubSeq(B, 1, t) \o <<B[t + 1]>>
<1>1. Len(B) \in Nat /\ 1 \in 1..Len(B) /\ t + 1 \in 1..Len(B) /\ (t + 1) - 1 = t
  OBVIOUS
<1>2. \A i \in 1..t : B[i] \in S
  BY <1>1, ElementOfSeq
<1>3. SubSeq(B, 1, t) \in Seq(S) /\ Len(SubSeq(B, 1, t)) = t
  BY <1>2, SubSeqProperties
<1>4. QED
  BY <1>1, <1>3, ElementOfSeq, SubSeqRecursiveSecond

LEMMA FitsNew ==
  ASSUME NEW S, NEW p \in Seq(S)
  PROVE  Fits(p, <<>>, 0, <<>>, p, <<>>)
<1>1. SubSeq(<<>>, 1, 0) = <<>>
  BY SubSeqEmpty
<1>2. QED
  BY <1>1 DEF Fits

LEMMA FitsReuse ==
  ASSUME NEW S, NEW P \in Seq(S), NEW B \in Seq(S), NEW p \in Seq(S),
         Len(P) <= Len(p), IsPrefix(p, P \o B)
  PROVE  Fits(P, B, 0, SubSeq(p, Len(P) + 1, Len(p)), p, <<>>)
<1> DEFINE u == SubSeq(p, Len(P) + 1, Len(p))
<1>1. Len(P) \in Nat /\ Len(p) \in Nat /\ P \o B \in Seq(S)
  OBVIOUS
<1>2. SubSeq(B, 1, 0) = <<>> /\ P \o <<>> = P
  BY SubSeqEmpty, ConcatEmptySeq
<1>3. \A i \in 1..Len(P) : P[i] = p[i]
  <2>1. \A i \in 1..Len(p) : p[i] = (P \o B)[i]
    BY <1>1, PrefixAgrees
  <2>2. \A i \in 1..Len(P) : (P \o B)[i] = P[i]
    BY ConcatProperties, <1>1
  <2>3. QED
    BY <1>1, <2>1, <2>2
<1>4. /\ u \in Seq(S) /\ Len(u) = Len(p) - Len(P)
      /\ \A i \in 1..Len(u) : u[i] = p[Len(P) + i]
  <2>1. \A i \in (Len(P) + 1)..Len(p) : p[i] \in S
    BY <1>1, ElementOfSeq
  <2>2. u \in Seq(S) /\ Len(u) = IF Len(P) + 1 <= Len(p) THEN Len(p) - (Len(P) + 1) + 1 ELSE 0
    BY <1>1, <2>1, SubSeqProperties
  <2>3. \A i \in 1..(Len(p) - (Len(P) + 1) + 1) : u[i] = p[Len(P) + 1 + i - 1]
    BY <1>1, <2>1, SubSeqProperties
  <2>4. QED
    BY <1>1, <2>2, <2>3
<1>5. P \o u = p
  <2>1. P \o u \in Seq(S) /\ Len(P \o u) = Len(p)
    BY <1>1, <1>4, ConcatProperties
  <2>2. ASSUME NEW i \in 1..Len(p) PROVE (P \o u)[i] = p[i]
    <3>1. (P \o u)[i] = IF i <= Len(P) THEN P[i] ELSE u[i - Len(P)]
      BY <1>1, <1>4, ConcatProperties
    <3>2. CASE i <= Len(P)
      BY <1>1, <1>3, <3>1, <3>2
    <3>3. CASE i > Len(P)
      <4>1. i - Len(P) \in 1..Len(u) /\ Len(P) + (i - Len(P)) = i
        BY <1>1, <1>4, <3>3
      <4>2. QED
        BY <1>1, <1>4, <3>1, <3>3, <4>1
    <3>4. QED
      BY <1>1, <3>2, <3>3
  <2>3. QED
    BY <2>1, <2>2, SeqEqual
<1>6. CASE u = <<>>
  BY <1>2, <1>5, <1>6, ConcatEmptySeq DEF Fits
<1>7. CASE u # <<>>
  BY <1>2, <1>5, <1>7 DEF Fits
<1>8. QED
  BY <1>6, <1>7

LEMMA MoveHead ==
  ASSUME NEW S, NEW a \in Seq(S), NEW u \in Seq(S), u # <<>>
  PROVE  \A b \in Seq(S) : (a \o (b \o <<Head(u)>>)) \o Tail(u) = (a \o b) \o u
OBVIOUS

LEMMA FitsDrop ==
  ASSUME NEW S, NEW P \in Seq(S), NEW B \in Seq(S), NEW t \in Nat, NEW u \in Seq(S),
         NEW p \in Seq(S), NEW v \in Seq(S),
         Fits(P, B, t, u, p, v), t < Len(B), u # <<>>, B[t + 1] = Head(u)
  PROVE  Fits(P, B, t + 1, Tail(u), p, v)
<1> DEFINE T == SubSeq(B, 1, t)
<1>1. T \in Seq(S) /\ SubSeq(B, 1, t + 1) = T \o <<Head(u)>> /\ Head(u) \in S
  BY TakeOne
<1>2. u = <<Head(u)>> \o Tail(u) /\ Tail(u) \in Seq(S) /\ <<Head(u)>> \in Seq(S)
  OBVIOUS
<1> HIDE DEF T
<1>3. (P \o SubSeq(B, 1, t + 1)) \o Tail(u) = (P \o T) \o u
  <2>1. \A b \in Seq(S) : (P \o (b \o <<Head(u)>>)) \o Tail(u) = (P \o b) \o u
    BY MoveHead
  <2>2. (P \o (T \o <<Head(u)>>)) \o Tail(u) = (P \o T) \o u
    BY <1>1, <2>1, Zenon
  <2>3. QED
    BY <1>1, <2>2
<1>4. (P \o T) \o u = p /\ v = <<>> /\ IsPrefix(p, P \o B)
  BY DEF Fits, T
<1>5. CASE Tail(u) = <<>>
  <2>1. P \o SubSeq(B, 1, t + 1) \in Seq(S)
    BY <1>1, <1>2
  <2>2. P \o SubSeq(B, 1, t + 1) = p /\ p \o v = p
    BY <1>3, <1>4, <1>5, <2>1, ConcatEmptySeq
  <2>3. QED
    BY <1>5, <2>2 DEF Fits
<1>6. CASE Tail(u) # <<>>
  BY <1>3, <1>4, <1>6 DEF Fits
<1>7. QED
  BY <1>5, <1>6

\* A chunk that is not one the user has typed comes after all of them.
LEMMA FitsDeliver ==
  ASSUME NEW S, NEW P \in Seq(S), NEW B \in Seq(S), NEW t \in Nat, NEW u \in Seq(S),
         NEW p \in Seq(S), NEW v \in Seq(S),
         Fits(P, B, t, u, p, v), t < Len(B), ~(u # <<>> /\ B[t + 1] = Head(u))
  PROVE  Fits(P, B, t + 1, u, p, Append(v, B[t + 1]))
<1> DEFINE T == SubSeq(B, 1, t)
<1>1. /\ T \in Seq(S) /\ Len(T) = t /\ B[t + 1] \in S
      /\ SubSeq(B, 1, t + 1) = T \o <<B[t + 1]>>
  BY TakeOne
<1> HIDE DEF T
<1>2. u = <<>>
  <2> SUFFICES ASSUME u # <<>> PROVE B[t + 1] = Head(u)
    OBVIOUS
  <2>1. (P \o T) \o u = p /\ IsPrefix(p, P \o B) /\ P \o T \in Seq(S) /\ P \o B \in Seq(S)
    BY <1>1 DEF Fits, T
  <2>2. Len(P) \in Nat /\ Len(u) \in Nat \ {0} /\ Len(P \o T) = Len(P) + t
    <3>1. Len(P \o T) = Len(P) + Len(T)
      BY <1>1, ConcatProperties
    <3>2. QED
      BY <1>1, <3>1, EmptySeq
  <2>3. Len(p) = Len(P) + t + Len(u) /\ p[Len(P) + t + 1] = u[1]
    <3> DEFINE X == P \o T
    <3> HIDE DEF X
    <3>1. X \in Seq(S) /\ p = X \o u /\ Len(X) = Len(P) + t
      BY <2>1, <2>2 DEF X
    <3>2. Len(p) = Len(X) + Len(u)
      BY <3>1, ConcatProperties
    <3>3. p[Len(X) + 1] = u[1]
      BY <2>2, <3>1
    <3>4. QED
      BY <3>1, <3>2, <3>3
  <2>4. p[Len(P) + t + 1] = (P \o B)[Len(P) + t + 1]
    <3>1. \A i \in 1..Len(p) : p[i] = (P \o B)[i]
      BY <2>1, PrefixAgrees
    <3>2. QED
      BY <2>2, <2>3, <3>1
  <2>5. (P \o B)[Len(P) + t + 1] = B[t + 1]
    BY <2>2, ConcatProperties
  <2>6. Head(u) = u[1]
    OBVIOUS
  <2>7. QED
    BY <2>3, <2>4, <2>5, <2>6
<1>3. <<B[t + 1]>> \in Seq(S) /\ Append(v, B[t + 1]) = v \o <<B[t + 1]>>
  BY <1>1, AppendIsConcat
<1>4. P \o (T \o <<B[t + 1]>>) = (P \o T) \o <<B[t + 1]>>
  BY <1>1, <1>3, ConcatAssociative
<1>5. p \o (v \o <<B[t + 1]>>) = (p \o v) \o <<B[t + 1]>>
  BY <1>3, ConcatAssociative
<1>6. P \o T = p \o v
  BY <1>2 DEF Fits, T
<1>7. QED
  BY <1>1, <1>2, <1>3, <1>4, <1>5, <1>6 DEF Fits

\* The output grows behind what has been taken.
LEMMA FitsGrow ==
  ASSUME NEW S, NEW P \in Seq(S), NEW B \in Seq(S), NEW t \in Nat, NEW u \in Seq(S),
         NEW p \in Seq(S), NEW v \in Seq(S), NEW c \in S,
         Fits(P, B, t, u, p, v), t <= Len(B)
  PROVE  Fits(P, Append(B, c), t, u, p, v)
<1> DEFINE W == P \o B
           X == P \o Append(B, c)
<1>1. /\ W \in Seq(S) /\ X \in Seq(S) /\ Len(P) \in Nat /\ Len(B) \in Nat
      /\ Len(W) = Len(P) + Len(B) /\ Len(X) = Len(P) + Len(B) + 1
  BY AppendProperties, ConcatProperties
<1>2. SubSeq(Append(B, c), 1, t) = SubSeq(B, 1, t)
  <2>1. CASE t = 0
    BY <2>1, SubSeqEmpty
  <2>2. CASE t > 0
    <3>1. Append(B, c) = B \o <<c>> /\ <<c>> \in Seq(S)
      BY AppendIsConcat
    <3>2. 1 \in 1..Len(B) /\ t \in 1..Len(B)
      BY <1>1, <2>2
    <3>3. QED
      BY <3>1, <3>2, SubSeqOfConcat1
  <2>3. QED
    BY <2>1, <2>2
<1>3. ASSUME IsPrefix(p, W) PROVE IsPrefix(p, X)
  <2>1. Len(p) \in Nat /\ Len(p) <= Len(W) /\ \A i \in 1..Len(p) : p[i] = W[i]
    <3> HIDE DEF W
    <3>1. Len(p) <= Len(W) /\ \A i \in 1..Len(p) : p[i] = W[i]
      BY <1>1, <1>3, PrefixAgrees
    <3>2. QED
      BY <3>1
  <2>2. ASSUME NEW i \in 1..Len(W) PROVE X[i] = W[i]
    <3>1. W[i] = IF i <= Len(P) THEN P[i] ELSE B[i - Len(P)]
      BY <1>1, ConcatProperties
    <3>2. Append(B, c) \in Seq(S) /\ Len(Append(B, c)) = Len(B) + 1
      BY AppendProperties
    <3>3. X[i] = IF i <= Len(P) THEN P[i] ELSE Append(B, c)[i - Len(P)]
      BY <1>1, <3>2, ConcatProperties
    <3>4. i > Len(P) => i - Len(P) \in 1..Len(B)
      BY <1>1
    <3>5. \A j \in 1..Len(B) : Append(B, c)[j] = B[j]
      BY AppendProperties
    <3>6. QED
      BY <1>1, <3>1, <3>3, <3>4, <3>5
  <2>3. Len(p) <= Len(X) /\ \A i \in 1..Len(p) : p[i] = X[i]
    BY <1>1, <2>1, <2>2
  <2>4. QED
    BY <1>1, <2>3, PrefixElements
<1>4. QED
  BY <1>2, <1>3 DEF Fits

-----------------------------------------------------------------------------
\* What each reader has received fits what its user has typed.
FitsOf(r) ==
  Fits(prefix[source[r]], buffer[source[r]], taken[r], typed[r], prefix[r], received[r])

ReadersFit == \A r \in Requests : pc[r] \in Streaming => FitsOf(r)

\* A reader an action does not concern keeps what it has.
LEMMA FitsFrame ==
  ASSUME TypeOK, Shape, ReadersFit, NEW q \in Requests, pc[q] \in Streaming,
         source'[q] = source[q], taken'[q] = taken[q], typed'[q] = typed[q],
         received'[q] = received[q],
         \A g \in Requests : pc[g] \notin Early => prefix'[g] = prefix[g] /\ buffer'[g] = buffer[g]
  PROVE  FitsOf(q)'
<1>1. source[q] \in Requests /\ pc[source[q]] \notin Early /\ pc[q] \notin Early
  BY DEF TypeOK, Shape, SourceStarted, Streaming, Early
<1>2. FitsOf(q)
  BY DEF ReadersFit
<1>3. /\ prefix'[source'[q]] = prefix[source[q]] /\ buffer'[source'[q]] = buffer[source[q]]
      /\ prefix'[q] = prefix[q]
  BY <1>1
<1>4. QED
  BY <1>2, <1>3 DEF FitsOf

\* The values of a reader have their types.
LEMMA ReaderTypes ==
  ASSUME TypeOK, Shape, NEW r \in Requests, pc[r] \in Streaming
  PROVE  /\ source[r] \in Requests
         /\ prefix[source[r]] \in Seq(Chars) /\ buffer[source[r]] \in Seq(Chars)
         /\ taken[r] \in Nat /\ taken[r] <= Len(buffer[source[r]])
         /\ typed[r] \in Seq(Chars) /\ prefix[r] \in Seq(Chars) /\ received[r] \in Seq(Chars)
<1>1. source[r] \in Requests /\ taken[r] <= Len(buffer[source[r]])
  BY DEF TypeOK, Shape, SourceStarted
<1>2. QED
  BY <1>1 DEF TypeOK

\* Return and Goto leave the other readers alone.
LEMMA ReturnFits ==
  ASSUME TypeOK, Shape, ReadersFit, NEW r \in Requests, Return(r),
         UNCHANGED <<prefix, buffer>>
  PROVE  ReadersFit'
<1> SUFFICES ASSUME NEW q \in Requests, pc'[q] \in Streaming PROVE FitsOf(q)'
  BY DEF ReadersFit
<1>1. pc'[r] = "done" /\ \A g \in Requests : g # r => pc'[g] = pc[g]
  BY DEF TypeOK, Return, Goto
<1>2. q # r /\ pc[q] \in Streaming
  BY <1>1 DEF Streaming
<1>3. /\ source'[q] = source[q] /\ taken'[q] = taken[q] /\ typed'[q] = typed[q]
      /\ received'[q] = received[q]
  BY <1>2 DEF TypeOK, Return
<1>4. QED
  BY <1>2, <1>3, FitsFrame

LEMMA GotoFits ==
  ASSUME TypeOK, Shape, ReadersFit, NEW r \in Requests, NEW place \in Places,
         Goto(r, place), pc[r] \in Streaming \/ place \notin Streaming, UNCHANGED reading,
         \A g \in Requests : pc[g] \notin Early => prefix'[g] = prefix[g] /\ buffer'[g] = buffer[g]
  PROVE  ReadersFit'
<1> SUFFICES ASSUME NEW q \in Requests, pc'[q] \in Streaming PROVE FitsOf(q)'
  BY DEF ReadersFit
<1>1. pc'[r] = place /\ \A g \in Requests : g # r => pc'[g] = pc[g]
  BY DEF TypeOK, Goto
<1>2. pc[q] \in Streaming
  BY <1>1
<1>3. QED
  BY <1>2, FitsFrame DEF reading

LEMMA FitsStep ==
  ASSUME TypeOK, Shape, ReadersFit, [Next]_vars
  PROVE  ReadersFit'
<1>1. ASSUME NEW r \in Requests, NEW p \in Texts, Call(r, p) PROVE ReadersFit'
  <2>1. \A g \in Requests : pc[g] \notin Early => prefix'[g] = prefix[g] /\ buffer'[g] = buffer[g]
    BY <1>1 DEF TypeOK, Call, Early, generators
  <2>2. Goto(r, "called") /\ UNCHANGED reading /\ "called" \notin Streaming /\ "called" \in Places
    BY <1>1 DEF Call, Streaming, Places
  <2>3. QED
    BY <2>1, <2>2, GotoFits
<1>2. ASSUME NEW r \in Requests, ReturnEarly(r) \/ Complete(r) PROVE ReadersFit'
  BY <1>2, ReturnFits DEF ReturnEarly, Complete, generators
<1>3. ASSUME NEW r \in Requests, Debounce(r) PROVE ReadersFit'
  BY <1>3, GotoFits DEF Debounce, Streaming, Places, generators
<1>4. ASSUME NEW r \in Requests, SkipDebounce(r) PROVE ReadersFit'
  BY <1>4, GotoFits DEF SkipDebounce, Streaming, Places, generators
<1>5. ASSUME NEW r \in Requests, TimerFires(r) PROVE ReadersFit'
  <2>1. CASE latest = r
    BY <1>5, <2>1, GotoFits DEF TimerFires, Streaming, Places, generators
  <2>2. CASE latest # r
    BY <1>5, <2>2, ReturnFits DEF TimerFires, generators
  <2>3. QED
    BY <2>1, <2>2
<1>6. ASSUME NEW r \in Requests, Begin(r) PROVE ReadersFit'
  <2> SUFFICES ASSUME NEW q \in Requests, pc'[q] \in Streaming PROVE FitsOf(q)'
    BY DEF ReadersFit
  <2>1. /\ UNCHANGED <<prefix, taken, received, buffer>> /\ pc[r] = "ready"
        /\ \A g \in Requests : g # r => /\ pc'[g] = pc[g] /\ source'[g] = source[g]
                                        /\ typed'[g] = typed[g]
    <3>1. /\ UNCHANGED <<prefix, taken, received>> /\ pc[r] = "ready"
          /\ \A g \in Requests : g # r => pc'[g] = pc[g]
      BY <1>6 DEF TypeOK, Begin, Goto
    <3>2. CASE CanReuse(prefix[r])
      BY <1>6, <3>1, <3>2 DEF TypeOK, Begin, generators
    <3>3. CASE ~CanReuse(prefix[r])
      BY <1>6, <3>1, <3>3 DEF TypeOK, Begin
    <3>4. QED
      BY <3>2, <3>3
  <2>2. CASE q # r
    BY <2>1, <2>2, FitsFrame
  <2>3. CASE q = r
    <3>1. buffer[r] = <<>> /\ taken[r] = 0 /\ typed[r] = <<>> /\ received[r] = <<>>
      BY <2>1 DEF Shape, EarlyIsEmpty, Early
    <3>2. prefix[r] \in Seq(Chars)
      BY DEF TypeOK
    <3>3. CASE CanReuse(prefix[r])
      <4>1. /\ current \in Requests /\ Len(prefix[current]) <= Len(prefix[r])
            /\ IsPrefix(prefix[r], prefix[current] \o buffer[current])
        BY <3>3 DEF TypeOK, CanReuse, ReuseLonger, Shape, PendingIsCurrent
      <4>2. /\ source'[r] = current
            /\ typed'[r] = SubSeq(prefix[r], Len(prefix[current]) + 1, Len(prefix[r]))
        BY <1>6, <3>3 DEF TypeOK, Begin
      <4>3. prefix[current] \in Seq(Chars) /\ buffer[current] \in Seq(Chars)
        BY <4>1 DEF TypeOK
      <4>4. Fits(prefix[current], buffer[current], 0,
                 SubSeq(prefix[r], Len(prefix[current]) + 1, Len(prefix[r])), prefix[r], <<>>)
        BY <3>2, <4>1, <4>3, FitsReuse
      <4>5. QED
        BY <2>1, <2>3, <3>1, <4>2, <4>4 DEF FitsOf
    <3>4. CASE ~CanReuse(prefix[r])
      <4>1. source'[r] = r /\ typed' = typed
        BY <1>6, <3>4 DEF TypeOK, Begin
      <4>2. Fits(prefix[r], <<>>, 0, <<>>, prefix[r], <<>>)
        BY <3>2, FitsNew
      <4>3. QED
        BY <2>1, <2>3, <3>1, <4>1, <4>2 DEF FitsOf
    <3>5. QED
      BY <3>3, <3>4
  <2>4. QED
    BY <2>2, <2>3
<1>7. ASSUME NEW r \in Requests, Wait(r) \/ StopReading(r) \/ Filter(r) PROVE ReadersFit'
  <2>1. pc[r] \in Streaming /\ UNCHANGED reading /\ UNCHANGED <<prefix, buffer>>
    BY <1>7 DEF Wait, StopReading, Filter, Streaming, generators
  <2>2. PICK place \in Places : Goto(r, place)
    BY <1>7 DEF Wait, StopReading, Filter, Streaming, Places
  <2>3. QED
    BY <2>1, <2>2, GotoFits
<1>8. ASSUME NEW r \in Requests, DropTyped(r) PROVE ReadersFit'
  <2> SUFFICES ASSUME NEW q \in Requests, pc'[q] \in Streaming PROVE FitsOf(q)'
    BY DEF ReadersFit
  <2>1. /\ UNCHANGED <<pc, prefix, buffer, source, received>>
        /\ taken'[r] = taken[r] + 1 /\ typed'[r] = Tail(typed[r])
        /\ \A g \in Requests : g # r => taken'[g] = taken[g] /\ typed'[g] = typed[g]
    BY <1>8 DEF TypeOK, DropTyped, generators
  <2>2. CASE q # r
    BY <2>1, <2>2, FitsFrame
  <2>3. CASE q = r
    <3>1. /\ taken[r] < Len(buffer[source[r]]) /\ typed[r] # <<>>
          /\ buffer[source[r]][taken[r] + 1] = Head(typed[r])
      BY <1>8 DEF DropTyped, HasMore, IsTyped, NextChunk
    <3>2. FitsOf(r) /\ pc[r] \in Streaming
      BY <2>1, <2>3 DEF ReadersFit
    <3>3. Fits(prefix[source[r]], buffer[source[r]], taken[r] + 1, Tail(typed[r]),
               prefix[r], received[r])
      BY <3>1, <3>2, ReaderTypes, FitsDrop DEF FitsOf
    <3>4. QED
      BY <2>1, <2>3, <3>3 DEF FitsOf
  <2>4. QED
    BY <2>2, <2>3
<1>9. ASSUME NEW r \in Requests, Deliver(r) PROVE ReadersFit'
  <2> SUFFICES ASSUME NEW q \in Requests, pc'[q] \in Streaming PROVE FitsOf(q)'
    BY DEF ReadersFit
  <2>1. /\ UNCHANGED <<prefix, buffer, source, typed>> /\ pc[r] = "reading"
        /\ taken'[r] = taken[r] + 1
        /\ received'[r] = Append(received[r], buffer[source[r]][taken[r] + 1])
        /\ \A g \in Requests : g # r => /\ pc'[g] = pc[g] /\ taken'[g] = taken[g]
                                        /\ received'[g] = received[g]
    BY <1>9 DEF TypeOK, Deliver, Goto, generators, NextChunk
  <2>2. CASE q # r
    BY <2>1, <2>2, FitsFrame
  <2>3. CASE q = r
    <3>1. /\ taken[r] < Len(buffer[source[r]])
          /\ ~(typed[r] # <<>> /\ buffer[source[r]][taken[r] + 1] = Head(typed[r]))
      BY <1>9 DEF Deliver, HasMore, IsTyped, NextChunk
    <3>2. FitsOf(r) /\ pc[r] \in Streaming
      BY <2>1 DEF ReadersFit, Streaming
    <3>3. Fits(prefix[source[r]], buffer[source[r]], taken[r] + 1, typed[r], prefix[r],
               Append(received[r], buffer[source[r]][taken[r] + 1]))
      BY <3>1, <3>2, ReaderTypes, FitsDeliver DEF FitsOf
    <3>4. QED
      BY <2>1, <2>3, <3>3 DEF FitsOf
  <2>4. QED
    BY <2>2, <2>3
<1>10. ASSUME NEW r \in Requests, FullStop(r) PROVE ReadersFit'
  <2>1. CASE Return(r)
    BY <1>10, <2>1, ReturnFits DEF FullStop
  <2>2. CASE pc[r] = "filtering" /\ Goto(r, "reading") /\ UNCHANGED reading
    BY <1>10, <2>2, GotoFits DEF FullStop, Streaming, Places
  <2>3. QED
    BY <1>10, <2>1, <2>2 DEF FullStop
<1>11. ASSUME NEW g \in Requests, Push(g) PROVE ReadersFit'
  <2> SUFFICES ASSUME NEW q \in Requests, pc'[q] \in Streaming PROVE FitsOf(q)'
    BY DEF ReadersFit
  <2>1. pc[q] \in Streaming
    BY <1>11, WakeKeeps DEF Push
  <2>2. PICK c \in Chars : buffer' = [buffer EXCEPT ![g] = Append(@, c)]
    BY <1>11 DEF Push
  <2>3. /\ UNCHANGED <<prefix, source, taken, typed, received>>
        /\ buffer'[g] = Append(buffer[g], c)
        /\ \A h \in Requests : h # g => buffer'[h] = buffer[h]
    BY <1>11, <2>2 DEF TypeOK, Push, reading
  <2>4. FitsOf(q) /\ source[q] \in Requests
    BY <2>1, ReaderTypes DEF ReadersFit
  <2>5. CASE source[q] # g
    BY <2>3, <2>4, <2>5 DEF FitsOf
  <2>6. CASE source[q] = g
    <3>1. Fits(prefix[source[q]], Append(buffer[source[q]], c), taken[q], typed[q],
               prefix[q], received[q])
      BY <2>1, <2>4, ReaderTypes, FitsGrow DEF FitsOf
    <3>2. QED
      BY <2>3, <2>6, <3>1 DEF FitsOf
  <2>7. QED
    BY <2>5, <2>6
<1>12. ASSUME NEW g \in Requests, Settle(g) PROVE ReadersFit'
  <2>1. \A q \in Requests : pc'[q] \in Streaming => pc[q] \in Streaming
    BY <1>12, WakeKeeps DEF Settle
  <2>2. UNCHANGED <<prefix, buffer, reading>>
    BY <1>12 DEF Settle
  <2>3. QED
    BY <2>1, <2>2 DEF ReadersFit, FitsOf, reading
<1>13. CASE Cancel \/ (\E r \in Requests : Abort(r)) \/ UNCHANGED vars
  <2>1. UNCHANGED <<pc, prefix, buffer, reading>>
    BY <1>13 DEF Cancel, Abort, vars, generators
  <2>2. QED
    BY <2>1 DEF ReadersFit, FitsOf, reading
<1>14. QED
  BY <1>1, <1>2, <1>3, <1>4, <1>5, <1>6, <1>7, <1>8, <1>9, <1>10, <1>11, <1>12,
     <1>13 DEF Next, RequestStep, ModelStep

-----------------------------------------------------------------------------
LEMMA Start == Init => TypeOK /\ Shape /\ ReadersFit
<1> SUFFICES ASSUME Init PROVE TypeOK /\ Shape /\ ReadersFit
  OBVIOUS
<1>1. <<>> \in Seq(Chars)
  BY EmptySeq
<1>2. TypeOK
  BY <1>1 DEF Init, TypeOK, Places
<1>3. Shape
  BY NoneAssumption DEF Init, Shape, EarlyIsEmpty, TimerWaits, CurrentStarted, SourceStarted,
     OnlyCurrentLives, PendingIsCurrent, Early, Streaming
<1>4. ReadersFit
  BY DEF Init, ReadersFit, Streaming
<1>5. QED
  BY <1>2, <1>3, <1>4

\* The inductive invariant.
LEMMA Always == Spec => [](TypeOK /\ Shape /\ ReadersFit)
<1>1. TypeOK /\ Shape /\ ReadersFit /\ [Next]_vars => (TypeOK /\ Shape /\ ReadersFit)'
  BY TypeStep, ShapeStep, FitsStep
<1>2. QED
  BY <1>1, Start, PTL DEF Spec

\* Every variable keeps its type (CompletionProvider.ts and its helpers).
THEOREM TypeCorrect == Spec => []TypeOK
BY Always, PTL

\* pendingCompletion is the output of the current generator, whatever listeners
\* of earlier generators are still at work (GeneratorReuseManager.ts:22).
THEOREM PendingIsCurrentHolds == Spec => []PendingIsCurrent
<1>1. Shape => PendingIsCurrent
  BY DEF Shape
<1>2. QED
  BY <1>1, Always, PTL

\* A suggestion taken from the stream of an earlier request continues what the
\* user has typed since (GeneratorReuseManager.ts:55).
THEOREM ContinuesTypedHolds == Spec => []ContinuesTyped
<1>1. ReadersFit => ContinuesTyped
  BY DEF ReadersFit, FitsOf, Fits, ContinuesTyped, Written
<1>2. QED
  BY <1>1, Always, PTL
=============================================================================
