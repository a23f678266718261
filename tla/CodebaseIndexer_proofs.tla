------------------------ MODULE CodebaseIndexer_proofs ------------------------
(***************************************************************************)
(* Theorems about CodebaseIndexer, for any windows, calls and times.       *)
(***************************************************************************)
EXTENDS CodebaseIndexer, SequenceTheorems, TLAPS

\* Ages stay in range when time passes.
LEMMA OlderType ==
  ASSUME NEW age \in 0..MaxAge
  PROVE  Older(age) \in 0..MaxAge /\ Older(age) = IF age = MaxAge THEN age ELSE age + 1
BY TimesAssumption DEF Older, MaxAge

\* And when a row is added or renewed.
LEMMA RowsType ==
  ASSUME NEW rows \in Seq(0..MaxAge), NEW age \in 0..MaxAge
  PROVE  /\ Inserted(rows, age) \in Seq(0..MaxAge)
         /\ Renewed(rows, age) \in Seq(0..MaxAge)
         /\ [i \in DOMAIN rows |-> Older(rows[i])] \in Seq(0..MaxAge)
<1>1. Inserted(rows, age) \in Seq(0..MaxAge)
  BY AppendProperties DEF Inserted
<1>2. rows \in [1..Len(rows) -> 0..MaxAge] /\ Len(rows) \in Nat /\ DOMAIN rows = 1..Len(rows)
  BY LenProperties
<1>3. Renewed(rows, age) \in [1..Len(rows) -> 0..MaxAge]
  BY <1>2 DEF Renewed
<1>4. [i \in DOMAIN rows |-> Older(rows[i])] \in [1..Len(rows) -> 0..MaxAge]
  BY <1>2, OlderType
<1>5. QED
  BY <1>1, <1>2, <1>3, <1>4, SeqDef

\* Every variable keeps its type.
THEOREM TypeCorrect == Spec => []TypeOK
<1>1. Init => TypeOK
  BY TimesAssumption, MaxUpdatesAssumption
  DEF Init, TypeOK, Locations, Outside, Statuses, Results, MaxAge
<1>2. TypeOK /\ [Next]_vars => TypeOK'
  <2> SUFFICES ASSUME TypeOK, [Next]_vars PROVE TypeOK'
    OBVIOUS
  <2> USE CallsAssumption, TimesAssumption, MaxUpdatesAssumption
  <2> USE DEF TypeOK, Calls, Goto, Show, SayNothing, Statuses, Results, Locations,
              Outside, BeforeBegin, Beating, DbPending, lockVars, abortVars, progress,
              history
  <2>0. 0 \in 0..MaxAge /\ MaxDelay \in 0..MaxAge
    BY DEF MaxAge
  <2>1. ASSUME NEW c \in DirCalls, StartDir(c) PROVE TypeOK'
    BY <2>1 DEF StartDir
  <2>2. ASSUME NEW c \in Calls, Poll(c) PROVE TypeOK'
    <3>1. \/ UNCHANGED pc
          \/ pc' = [pc EXCEPT ![c] = "free"]
          \/ pc' = [pc EXCEPT ![c] = "stale"]
      BY <2>2 DEF Poll, SendLock
    <3>2. shown' \in [Windows -> Statuses] /\ silent' \in [Windows -> BOOLEAN]
      BY <2>2 DEF Poll
    <3>3. lastStamp' \in [Calls -> 0..MaxAge]
      BY <2>0, <2>2 DEF Poll, SendLock
    <3>4. pc' \in [Calls -> Locations]
      BY <3>1
    <3>5. QED
      BY <2>2, <3>2, <3>3, <3>4 DEF Poll
  <2>3. ASSUME NEW c \in Calls, StaleUnlock(c) PROVE TypeOK'
    BY <2>0, <2>3, EmptySeq DEF StaleUnlock, SendLock
  <2>4. ASSUME NEW c \in Calls, Lock(c) PROVE TypeOK'
    <3>1. lockRows' \in Seq(0..MaxAge)
      BY <2>4, RowsType DEF Lock
    <3>2. QED
      BY <2>4, <3>1 DEF Lock
  <2>5. ASSUME NEW c \in Calls, Begin(c) PROVE TypeOK'
    <3>1. \/ pc' = [pc EXCEPT ![c] = "unlocking"]
          \/ pc' = [pc EXCEPT ![c] = "walk"]
      BY <2>5 DEF Begin
    <3>2. shown' \in [Windows -> Statuses] /\ silent' \in [Windows -> BOOLEAN]
      BY <2>5 DEF Begin
    <3>3. pc' \in [Calls -> Locations]
      BY <3>1
    <3>4. QED
      BY <2>5, <3>2, <3>3 DEF Begin
  <2>6. ASSUME NEW c \in Calls, WalkFile(c) PROVE TypeOK'
    <3>1. pc' \in [Calls -> Locations]
      <4>1. \/ pc' = [pc EXCEPT ![c] = "unlocking"]
            \/ pc' = [pc EXCEPT ![c] = "walkPaused"]
        BY <2>6 DEF WalkFile
      <4>2. QED
        BY <4>1
    <3>2. shown' \in [Windows -> Statuses] /\ silent' \in [Windows -> BOOLEAN]
      BY <2>6 DEF WalkFile
    <3>3. QED
      BY <2>6, <3>1, <3>2 DEF WalkFile
  <2>7. ASSUME NEW c \in Calls, WalkEnds(c) PROVE TypeOK'
    <3>1. pc' \in [Calls -> Locations]
      <4>1. \/ pc' = [pc EXCEPT ![c] = "yielded"]
            \/ pc' = [pc EXCEPT ![c] = "walk"]
            \/ pc' = [pc EXCEPT ![c] = "unlocking"]
        BY <2>7 DEF WalkEnds, NextDirectory, LastUpdate
      <4>2. QED
        BY <4>1
    <3>2. shown' \in [Windows -> Statuses] /\ silent' \in [Windows -> BOOLEAN]
      BY <2>7 DEF WalkEnds, NextDirectory, LastUpdate
    <3>3. updates' \in [Calls -> 0..MaxUpdates]
      <4>1. updates[c] > 0 => updates[c] - 1 \in 0..MaxUpdates
        OBVIOUS
      <4>2. \/ UNCHANGED updates
            \/ updates[c] > 0 /\ updates' = [updates EXCEPT ![c] = @ - 1]
        BY <2>7 DEF WalkEnds, NextDirectory, LastUpdate
      <4>3. QED
        BY <4>1, <4>2
    <3>4. QED
      BY <2>7, <3>1, <3>2, <3>3 DEF WalkEnds
  <2>8. ASSUME NEW c \in Calls, Check(c) PROVE TypeOK'
    <3>1. pc' \in [Calls -> Locations]
      <4>1. \E place \in Locations : Goto(c, place)
        BY <2>8 DEF Check
      <4>2. QED
        BY <4>1
    <3>2. shown' \in [Windows -> Statuses] /\ silent' \in [Windows -> BOOLEAN]
      BY <2>8 DEF Check
    <3>3. QED
      BY <2>8, <3>1, <3>2 DEF Check
  <2>9. ASSUME NEW c \in Calls, Resume(c) PROVE TypeOK'
    BY <2>9 DEF Resume
  <2>10. ASSUME NEW c \in Calls, Write(c) PROVE TypeOK'
    <3>1. pc' \in [Calls -> Locations]
      <4>1. \/ pc' = [pc EXCEPT ![c] = "yielded"]
            \/ pc' = [pc EXCEPT ![c] = "walk"]
            \/ pc' = [pc EXCEPT ![c] = "unlocking"]
        BY <2>10 DEF Write, NextDirectory, LastUpdate
      <4>2. QED
        BY <4>1
    <3>2. shown' \in [Windows -> Statuses] /\ silent' \in [Windows -> BOOLEAN]
      BY <2>10 DEF Write, NextDirectory, LastUpdate
    <3>3. lateWrites' \in [Calls -> Nat]
      BY <2>10 DEF Write, IndexWrite
    <3>4. updates' \in [Calls -> 0..MaxUpdates]
      <4>1. updates[c] \in 0..MaxUpdates
        OBVIOUS
      <4>2. updates[c] > 0 => updates[c] - 1 \in 0..MaxUpdates
        BY <4>1
      <4>3. QED
        BY <2>10, <4>2 DEF Write, NextDirectory, LastUpdate
    <3>5. QED
      BY <2>10, <3>1, <3>2, <3>3, <3>4 DEF Write
  <2>11. ASSUME NEW c \in Calls, Fail(c) PROVE TypeOK'
    BY <2>11 DEF Fail, ReportError
  <2>12. ASSUME NEW c \in Calls, Unlock(c) PROVE TypeOK'
    <3>1. aborted' \in [Calls -> BOOLEAN]
      BY <2>12 DEF Unlock, ReleaseController
    <3>2. lockRows' \in Seq(0..MaxAge)
      BY <2>12, EmptySeq DEF Unlock
    <3>3. QED
      BY <2>0, <2>12, <3>1, <3>2 DEF Unlock
  <2>13. ASSUME NEW c \in Calls, DbError(c) PROVE TypeOK'
    BY <2>0, <2>13 DEF DbError
  <2>14. ASSUME NEW c \in Calls, StartFiles(c) PROVE TypeOK'
    BY <2>14 DEF StartFiles, HasLiveController
  <2>15. ASSUME NEW c \in Calls, RefreshFile(c) PROVE TypeOK'
    <3>1. pc' \in [Calls -> Locations]
      <4>1. \/ Goto(c, "filesPaused")
            \/ UNCHANGED pc
        BY <2>15 DEF RefreshFile
      <4>2. QED
        BY <4>1
    <3>2. shown' \in [Windows -> Statuses] /\ silent' \in [Windows -> BOOLEAN]
      BY <2>15 DEF RefreshFile
    <3>3. lateWrites' \in [Calls -> Nat]
      <4>1. \/ UNCHANGED lateWrites
            \/ lateWrites' = [lateWrites EXCEPT ![c] = IF aborted[c] THEN @ + 1 ELSE @]
        BY <2>15 DEF RefreshFile, IndexWrite
      <4>2. \A n \in Nat : n + 1 \in Nat
        OBVIOUS
      <4>3. lateWrites[c] \in Nat
        OBVIOUS
      <4>4. lateWrites' = [lateWrites EXCEPT ![c] = IF aborted[c] THEN @ + 1 ELSE @]
              => lateWrites' \in [Calls -> Nat]
        BY <4>2, <4>3
      <4>5. QED
        BY <4>1, <4>4
    <3>4. updates' \in [Calls -> 0..MaxUpdates]
      <4>1. updates[c] \in 0..MaxUpdates
        OBVIOUS
      <4>2. updates[c] > 0 => updates[c] - 1 \in 0..MaxUpdates
        BY <4>1
      <4>3. QED
        BY <2>15, <4>2 DEF RefreshFile
    <3>5. QED
      BY <2>15, <3>1, <3>2, <3>3, <3>4 DEF RefreshFile
  <2>16. ASSUME NEW c \in Calls, EndFiles(c) PROVE TypeOK'
    <3>1. aborted' \in [Calls -> BOOLEAN]
      BY <2>16 DEF EndFiles, ReleaseController
    <3>2. QED
      BY <2>16, <3>1 DEF EndFiles
  <2>17. ASSUME NEW c \in Calls, Heartbeat(c) \/ RenewalFails(c) PROVE TypeOK'
    <3>1. \E ages \in SUBSET (0..MaxDelay) : renewals' = [renewals EXCEPT ![c] = ages]
      <4>1. CASE Heartbeat(c)
        <5>1. renewals[c] \cup {0} \in SUBSET (0..MaxDelay)
          OBVIOUS
        <5>2. QED
          BY <4>1, <5>1 DEF Heartbeat
      <4>2. CASE RenewalFails(c)
        <5>1. \A age : renewals[c] \ {age} \in SUBSET (0..MaxDelay)
          OBVIOUS
        <5>2. QED
          BY <4>2, <5>1 DEF RenewalFails
      <4>3. QED
        BY <2>17, <4>1, <4>2
    <3>2. renewals' \in [Calls -> SUBSET (0..MaxDelay)]
      BY <3>1
    <3>3. UNCHANGED <<lockRows, lastStamp, abortVars, history, pc, updates, paused, progress>>
      BY <2>17 DEF Heartbeat, RenewalFails
    <3>4. QED
      BY <3>2, <3>3
  <2>18. ASSUME NEW c \in Calls, Renew(c) PROVE TypeOK'
    <3>1. PICK age \in renewals[c] :
            /\ lockRows' = Renewed(lockRows, age)
            /\ lastStamp' = [lastStamp EXCEPT ![c] = IF pc[c] \in Beating THEN age ELSE @]
            /\ renewals' = [renewals EXCEPT ![c] = @ \ {age}]
            /\ UNCHANGED <<abortVars, history, pc, updates, paused, progress>>
      BY <2>18 DEF Renew
    <3>2. age \in 0..MaxAge
      BY DEF MaxAge
    <3>3. lockRows' \in Seq(0..MaxAge)
      BY <3>1, <3>2, RowsType
    <3>4. QED
      BY <3>1, <3>2, <3>3
  <2>23. ASSUME Tick PROVE TypeOK'
    <3>1. lockRows' \in Seq(0..MaxAge)
      BY <2>0, <2>23, RowsType DEF Tick
    <3>2. lastStamp' \in [Calls -> 0..MaxAge]
      BY <2>23, OlderType DEF Tick
    <3>3. renewals' \in [Calls -> SUBSET (0..MaxDelay)]
      <4>1. \A c \in Calls : \A age \in renewals[c] : age + 1 \in 0..MaxDelay
        BY <2>23 DEF Tick
      <4>2. QED
        BY <2>23, <4>1 DEF Tick
    <3>4. QED
      BY <2>23, <3>1, <3>2, <3>3 DEF Tick
  <2>19. ASSUME NEW w \in Windows, SetPaused(w) PROVE TypeOK'
    BY <2>19 DEF SetPaused
  <2>20. ASSUME NEW w \in Windows, Crash(w) PROVE TypeOK'
    BY <2>0, <2>20 DEF Crash
  <2>21. CASE UNCHANGED vars
    BY <2>21 DEF vars
  <2>22. QED
    BY <2>1, <2>2, <2>3, <2>4, <2>5, <2>6, <2>7, <2>8, <2>9, <2>10, <2>11, <2>12,
       <2>13, <2>14, <2>15, <2>16, <2>17, <2>18, <2>19, <2>20, <2>21,
       <2>23
    DEF Next, DirStep, RenewalEnds, FileStep
<1>3. QED
  BY <1>1, <1>2, PTL DEF Spec

-----------------------------------------------------------------------------
\* An INSERT that is under way carries a time at most MaxDelay old.
InsertIsYoung ==
  \A c \in DirCalls : pc[c] = "free" => lastStamp[c] <= MaxDelay

\* The ages of the lock table are bounded by the times that reach it.
LEMMA YoungStep ==
  TypeOK /\ InsertIsYoung /\ RowsAreYoung /\ [Next]_vars
    => InsertIsYoung' /\ RowsAreYoung'
<1> SUFFICES ASSUME TypeOK, InsertIsYoung, RowsAreYoung, [Next]_vars
             PROVE  InsertIsYoung' /\ RowsAreYoung'
  OBVIOUS
<1> USE CallsAssumption, TimesAssumption
\* A step that leaves the table and the times of those at work alone and brings
\* nobody into the renewal interval or in front of the insertion.
<1>quiet. ASSUME UNCHANGED lockRows,
                 \A d \in DirCalls :
                   /\ pc'[d] \in Beating \cup {"free"} =>
                        pc[d] \in Beating \cup {"free"} /\ lastStamp'[d] = lastStamp[d]
                   /\ pc'[d] = "free" => pc[d] = "free"
          PROVE InsertIsYoung' /\ RowsAreYoung'
  BY <1>quiet DEF RowsAreYoung, InsertIsYoung
\* A step that empties the table.
<1>empty. ASSUME lockRows' = <<>>,
                 \A d \in DirCalls : pc'[d] = "free" =>
                   lastStamp'[d] = 0 \/ (pc[d] = "free" /\ lastStamp'[d] = lastStamp[d])
          PROVE InsertIsYoung' /\ RowsAreYoung'
  BY <1>empty DEF RowsAreYoung, InsertIsYoung
<1> USE DEF TypeOK, Goto, Beating, Outside, DbPending, lockVars, Calls
<1>1. ASSUME NEW c \in DirCalls, StartDir(c) PROVE InsertIsYoung' /\ RowsAreYoung'
  BY <1>1, <1>quiet DEF StartDir
<1>2. ASSUME NEW c \in DirCalls, Poll(c) PROVE InsertIsYoung' /\ RowsAreYoung'
  <2>1. CASE lockRows = <<>>
    BY <1>2, <1>empty, <2>1 DEF Poll, SendLock
  <2>2. CASE lockRows # <<>>
    BY <1>2, <1>quiet, <2>2 DEF Poll
  <2>3. QED
    BY <2>1, <2>2
<1>3. ASSUME NEW c \in DirCalls, StaleUnlock(c) PROVE InsertIsYoung' /\ RowsAreYoung'
  BY <1>3, <1>empty DEF StaleUnlock, SendLock
<1>4. ASSUME NEW c \in DirCalls, Lock(c) PROVE InsertIsYoung' /\ RowsAreYoung'
  <2>1. lockRows' = Append(lockRows, lastStamp[c]) /\ lastStamp' = lastStamp
    BY <1>4 DEF Lock, Inserted
  <2>2. pc[c] = "free" /\ lastStamp[c] <= MaxDelay
    BY <1>4 DEF Lock, InsertIsYoung
  <2>3. \A d \in DirCalls : pc'[d] \in Beating \cup {"free"} =>
                              pc[d] \in Beating \cup {"free"}
    BY <1>4, <2>2 DEF Lock
  <2>4. \A i \in DOMAIN lockRows' :
          (i \in DOMAIN lockRows /\ lockRows'[i] = lockRows[i]) \/ lockRows'[i] = lastStamp[c]
    BY <2>1, AppendProperties
  <2>5. \A d \in DirCalls : lastStamp[d] \in Nat
    BY DEF MaxAge
  <2>6. RowsAreYoung'
    <3> SUFFICES ASSUME NEW d \in DirCalls, pc'[d] \in Beating \cup {"free"},
                        NEW i \in DOMAIN lockRows'
                 PROVE  lockRows'[i] <= lastStamp[d] + MaxDelay
      BY <2>1 DEF RowsAreYoung
    <3>1. CASE i \in DOMAIN lockRows /\ lockRows'[i] = lockRows[i]
      BY <2>3, <3>1 DEF RowsAreYoung
    <3>2. CASE lockRows'[i] = lastStamp[c]
      BY <2>2, <2>5, <3>2
    <3>3. QED
      BY <2>4, <3>1, <3>2
  <2>7. InsertIsYoung'
    BY <1>4, <2>1 DEF Lock, InsertIsYoung
  <2>8. QED
    BY <2>6, <2>7
<1>5. ASSUME NEW c \in DirCalls, Begin(c) PROVE InsertIsYoung' /\ RowsAreYoung'
  BY <1>5, <1>quiet DEF Begin
<1>6. ASSUME NEW c \in DirCalls, WalkFile(c) PROVE InsertIsYoung' /\ RowsAreYoung'
  BY <1>6, <1>quiet DEF WalkFile
<1>7. ASSUME NEW c \in DirCalls, WalkEnds(c) PROVE InsertIsYoung' /\ RowsAreYoung'
  BY <1>7, <1>quiet DEF WalkEnds, NextDirectory, LastUpdate
<1>8. ASSUME NEW c \in DirCalls, Check(c) PROVE InsertIsYoung' /\ RowsAreYoung'
  BY <1>8, <1>quiet DEF Check
<1>9. ASSUME NEW c \in Calls, Resume(c) PROVE InsertIsYoung' /\ RowsAreYoung'
  BY <1>9, <1>quiet DEF Resume
<1>10. ASSUME NEW c \in DirCalls, Write(c) PROVE InsertIsYoung' /\ RowsAreYoung'
  BY <1>10, <1>quiet DEF Write, NextDirectory, LastUpdate
<1>11. ASSUME NEW c \in DirCalls, Fail(c) PROVE InsertIsYoung' /\ RowsAreYoung'
  BY <1>11, <1>quiet DEF Fail
<1>12. ASSUME NEW c \in DirCalls, Unlock(c) PROVE InsertIsYoung' /\ RowsAreYoung'
  BY <1>12, <1>empty DEF Unlock
<1>13. ASSUME NEW c \in DirCalls, DbError(c) PROVE InsertIsYoung' /\ RowsAreYoung'
  BY <1>13, <1>quiet DEF DbError
<1>14. ASSUME NEW c \in FileCalls, StartFiles(c) PROVE InsertIsYoung' /\ RowsAreYoung'
  BY <1>14, <1>quiet DEF StartFiles
<1>15. ASSUME NEW c \in FileCalls, RefreshFile(c) PROVE InsertIsYoung' /\ RowsAreYoung'
  BY <1>15, <1>quiet DEF RefreshFile
<1>16. ASSUME NEW c \in FileCalls, EndFiles(c) PROVE InsertIsYoung' /\ RowsAreYoung'
  BY <1>16, <1>quiet DEF EndFiles
<1>17. ASSUME NEW c \in DirCalls, Heartbeat(c) \/ RenewalFails(c)
       PROVE  InsertIsYoung' /\ RowsAreYoung'
  BY <1>17, <1>quiet DEF Heartbeat, RenewalFails
<1>18. ASSUME NEW c \in DirCalls, Renew(c) PROVE InsertIsYoung' /\ RowsAreYoung'
  <2>1. PICK age \in renewals[c] :
          /\ lockRows' = Renewed(lockRows, age)
          /\ lastStamp' = [lastStamp EXCEPT ![c] = IF pc[c] \in Beating THEN age ELSE @]
          /\ UNCHANGED pc
    BY <1>18 DEF Renew
  <2>2. age \in 0..MaxDelay
    OBVIOUS
  <2>3. \A i \in DOMAIN lockRows' : lockRows'[i] <= MaxDelay
    BY <2>1, <2>2 DEF Renewed
  <2>4. \A d \in DirCalls : lastStamp'[d] \in Nat
    BY <2>1, <2>2 DEF MaxAge
  <2>5. \A i \in DOMAIN lockRows' : lockRows'[i] = age
    BY <2>1 DEF Renewed
  <2>6. RowsAreYoung'
    BY <2>2, <2>4, <2>5 DEF RowsAreYoung
  <2>7. InsertIsYoung'
    BY <2>1, <2>2 DEF InsertIsYoung
  <2>8. QED
    BY <2>6, <2>7
<1>19. ASSUME Tick PROVE InsertIsYoung' /\ RowsAreYoung'
  <2>1. ASSUME NEW d \in DirCalls, pc'[d] = "free" PROVE lastStamp'[d] <= MaxDelay
    BY <1>19, <2>1, OlderType DEF Tick, MaxAge
  <2>2. ASSUME NEW d \in DirCalls, pc'[d] \in Beating \cup {"free"},
               NEW i \in DOMAIN lockRows'
        PROVE  lockRows'[i] <= lastStamp'[d] + MaxDelay
    <3>1. i \in DOMAIN lockRows /\ lockRows[i] \in 0..MaxAge
      <4>1. i \in DOMAIN lockRows
        BY <1>19, <2>2 DEF Tick
      <4>2. DOMAIN lockRows = 1..Len(lockRows) /\ lockRows \in Seq(0..MaxAge)
        BY LenProperties
      <4>3. QED
        BY <4>1, <4>2, ElementOfSeq
    <3>2. lockRows[i] <= lastStamp[d] + MaxDelay /\ lastStamp[d] \in 0..MaxAge
      BY <1>19, <2>2, <3>1 DEF Tick, RowsAreYoung
    <3>3. lockRows'[i] = Older(lockRows[i])
      BY <1>19, <3>1 DEF Tick
    <3>4. lastStamp'[d] = Older(lastStamp[d])
      BY <1>19, <2>2 DEF Tick
    <3>5. QED
      BY <3>1, <3>2, <3>3, <3>4 DEF Older, MaxAge
  <2>3. QED
    BY <2>1, <2>2 DEF RowsAreYoung, InsertIsYoung
<1>20. ASSUME NEW w \in Windows, SetPaused(w) PROVE InsertIsYoung' /\ RowsAreYoung'
  BY <1>20, <1>quiet DEF SetPaused
<1>21. ASSUME NEW w \in Windows, Crash(w) PROVE InsertIsYoung' /\ RowsAreYoung'
  BY <1>21, <1>quiet DEF Crash
<1>22. CASE UNCHANGED vars
  BY <1>22, <1>quiet DEF vars
<1>23. QED
  BY <1>1, <1>2, <1>3, <1>4, <1>5, <1>6, <1>7, <1>8, <1>9, <1>10, <1>11, <1>12,
     <1>13, <1>14, <1>15, <1>16, <1>17, <1>18, <1>19, <1>20, <1>21, <1>22
  DEF Next, DirStep, RenewalEnds, FileStep

\* No row of the lock is older, by more than MaxDelay, than the last time of a
\* refresh that holds it.
THEOREM Young == Spec => []RowsAreYoung
<1>1. Init => InsertIsYoung /\ RowsAreYoung
  BY DEF Init, InsertIsYoung, RowsAreYoung, Calls
<1>2. QED
  BY <1>1, YoungStep, TypeCorrect, PTL DEF Spec

\* waitForDBIndex never takes the lock from a refresh whose last renewal to reach
\* the table is younger than StaleAfter - MaxDelay, for any windows and times, and
\* whichever renewals are late, fail or overtake each other.
THEOREM StaleVerdictSound == Spec => StaleVerdictIsSound
<1> DEFINE Sound == \A c \in DirCalls :
                      (pc[c] = "waiting" /\ pc'[c] = "stale")
                        => \A d \in DirCalls :
                             pc[d] \in Beating => lastStamp[d] + MaxDelay > StaleAfter
<1>1. TypeOK /\ RowsAreYoung /\ [Next]_vars => [Sound]_vars
  <2> SUFFICES ASSUME TypeOK, RowsAreYoung, Next,
                      NEW c \in DirCalls, pc[c] = "waiting", pc'[c] = "stale",
                      NEW d \in DirCalls, pc[d] \in Beating
               PROVE  lastStamp[d] + MaxDelay > StaleAfter
    OBVIOUS
  <2> USE CallsAssumption DEF TypeOK, Goto, Calls
  \* Only a poll of c itself gives the verdict.
  <2>1. Poll(c)
    <3>1. ASSUME NEW e \in DirCalls, StartDir(e) PROVE FALSE
      BY <3>1 DEF StartDir
    <3>2. ASSUME NEW e \in DirCalls, DirStep(e) PROVE Poll(c)
      BY <3>2 DEF DirStep, Poll, SendLock, StaleUnlock, Lock, Begin, WalkFile,
                  WalkEnds, NextDirectory, LastUpdate, Check, Resume, Write, Fail,
                  Unlock, DbError
    <3>3. ASSUME NEW e \in FileCalls, StartFiles(e) \/ FileStep(e) PROVE FALSE
      BY <3>3 DEF StartFiles, FileStep, RefreshFile, Resume, EndFiles
    <3>4. QED
      BY <3>1, <3>2, <3>3 DEF Next, Heartbeat, RenewalEnds, Renew, RenewalFails, Tick,
                              SetPaused, Crash, Outside
  <2>2. lockRows # <<>> /\ Head(lockRows) > StaleAfter
    BY <2>1 DEF Poll, SendLock, IsStale
  <2>3. Head(lockRows) = lockRows[1] /\ 1 \in DOMAIN lockRows
    BY <2>2, LenProperties, EmptySeq
  <2>4. lockRows[1] <= lastStamp[d] + MaxDelay
    BY <2>3 DEF RowsAreYoung
  <2>5. lockRows[1] \in Nat /\ lastStamp[d] \in Nat
    BY <2>3, ElementOfSeq, TimesAssumption DEF MaxAge
  <2>6. QED
    BY <2>2, <2>3, <2>4, <2>5, TimesAssumption
<1>2. QED
  BY <1>1, TypeCorrect, Young, PTL DEF Spec, StaleVerdictIsSound

-----------------------------------------------------------------------------
\* At most one refresh of a window is not aborted, and its controller is the
\* one the window would abort next.
THEOREM OneCurrent == Spec => []OneCurrentRefresh
<1> USE CallsAssumption
<1>1. Init => OneCurrentRefresh
  BY DEF Init, OneCurrentRefresh, Active, Outside
<1>2. TypeOK /\ OneCurrentRefresh /\ [Next]_vars => OneCurrentRefresh'
  <2> SUFFICES ASSUME TypeOK, OneCurrentRefresh, [Next]_vars
               PROVE  OneCurrentRefresh'
    OBVIOUS
  \* A step that starts nothing and touches no controller.
  <2>quiet. ASSUME controller' = controller,
                   \A d \in Calls : /\ pc'[d] \notin Outside => pc[d] \notin Outside
                                    /\ aborted[d] => aborted'[d]
            PROVE  OneCurrentRefresh'
    BY <2>quiet DEF OneCurrentRefresh, Active
  <2> USE DEF TypeOK, Goto, Outside, DbPending, abortVars, SendLock
  <2>1. ASSUME NEW c \in DirCalls, StartDir(c) PROVE OneCurrentRefresh'
    <3> SUFFICES ASSUME NEW d \in Calls, Active(d)', ~aborted'[d]
                 PROVE  controller'[WindowOf[d]] = d
      BY DEF OneCurrentRefresh
    <3>1. CASE d = c
      BY <2>1, <3>1 DEF StartDir, Calls
    <3>2. CASE d # c
      <4>1. Active(d) /\ ~aborted[d]
        BY <2>1, <3>2 DEF StartDir, Active
      <4>2. controller[WindowOf[d]] = d
        BY <4>1 DEF OneCurrentRefresh
      <4>3. d # controller[WindowOf[c]]
        BY <2>1 DEF StartDir, Superseded
      <4>4. WindowOf[d] # WindowOf[c]
        BY <4>2, <4>3
      <4>5. QED
        BY <2>1, <4>2, <4>4 DEF StartDir, Calls
    <3>3. QED
      BY <3>1, <3>2
  <2>2. ASSUME NEW c \in DirCalls, Poll(c) PROVE OneCurrentRefresh'
    BY <2>2, <2>quiet DEF Poll, Calls
  <2>3. ASSUME NEW c \in DirCalls, StaleUnlock(c) PROVE OneCurrentRefresh'
    BY <2>3, <2>quiet DEF StaleUnlock, Calls
  <2>4. ASSUME NEW c \in DirCalls, Lock(c) PROVE OneCurrentRefresh'
    BY <2>4, <2>quiet DEF Lock, Calls
  <2>5. ASSUME NEW c \in DirCalls, Begin(c) PROVE OneCurrentRefresh'
    BY <2>5, <2>quiet DEF Begin, Calls
  <2>6. ASSUME NEW c \in DirCalls, WalkFile(c) PROVE OneCurrentRefresh'
    BY <2>6, <2>quiet DEF WalkFile, Calls
  <2>7. ASSUME NEW c \in DirCalls, WalkEnds(c) PROVE OneCurrentRefresh'
    BY <2>7, <2>quiet DEF WalkEnds, NextDirectory, LastUpdate, Calls
  <2>8. ASSUME NEW c \in DirCalls, Check(c) PROVE OneCurrentRefresh'
    BY <2>8, <2>quiet DEF Check, Calls
  <2>9. ASSUME NEW c \in Calls, Resume(c) PROVE OneCurrentRefresh'
    BY <2>9, <2>quiet DEF Resume
  <2>10. ASSUME NEW c \in DirCalls, Write(c) PROVE OneCurrentRefresh'
    BY <2>10, <2>quiet DEF Write, NextDirectory, LastUpdate, Calls
  <2>11. ASSUME NEW c \in DirCalls, Fail(c) PROVE OneCurrentRefresh'
    BY <2>11, <2>quiet DEF Fail, Calls
  <2>12. ASSUME NEW c \in DirCalls, Unlock(c) PROVE OneCurrentRefresh'
    BY <2>12, <2>quiet DEF Unlock, ReleaseController, Calls
  <2>13. ASSUME NEW c \in DirCalls, DbError(c) PROVE OneCurrentRefresh'
    BY <2>13, <2>quiet DEF DbError, Calls
  <2>14. ASSUME NEW c \in FileCalls, StartFiles(c) PROVE OneCurrentRefresh'
    <3>1. CASE HasLiveController(WindowOf[c])
      BY <2>14, <2>quiet, <3>1 DEF StartFiles, Calls
    <3>2. CASE ~HasLiveController(WindowOf[c])
      <4> SUFFICES ASSUME NEW d \in Calls, Active(d)', ~aborted'[d]
                   PROVE  controller'[WindowOf[d]] = d
        BY DEF OneCurrentRefresh
      <4>1. CASE d = c
        BY <2>14, <3>2, <4>1 DEF StartFiles, Calls
      <4>2. CASE d # c
        <5>1. Active(d) /\ ~aborted[d]
          BY <2>14, <3>2, <4>2 DEF StartFiles, Active
        <5>2. controller[WindowOf[d]] = d
          BY <5>1 DEF OneCurrentRefresh
        <5>3. WindowOf[d] # WindowOf[c]
          BY <3>2, <5>1, <5>2 DEF HasLiveController
        <5>4. QED
          BY <2>14, <3>2, <5>2, <5>3 DEF StartFiles, Calls
      <4>3. QED
        BY <4>1, <4>2
    <3>3. QED
      BY <3>1, <3>2
  <2>15. ASSUME NEW c \in FileCalls, RefreshFile(c) PROVE OneCurrentRefresh'
    BY <2>15, <2>quiet DEF RefreshFile, Calls
  <2>16. ASSUME NEW c \in FileCalls, EndFiles(c) PROVE OneCurrentRefresh'
    BY <2>16, <2>quiet DEF EndFiles, ReleaseController, Calls
  <2>17. ASSUME NEW c \in DirCalls, Heartbeat(c) \/ RenewalEnds(c) PROVE OneCurrentRefresh'
    BY <2>17, <2>quiet DEF Heartbeat, RenewalEnds, Renew, RenewalFails
  <2>18. CASE Tick
    BY <2>18, <2>quiet DEF Tick
  <2>19. ASSUME NEW w \in Windows, SetPaused(w) PROVE OneCurrentRefresh'
    BY <2>19, <2>quiet DEF SetPaused
  <2>20. ASSUME NEW w \in Windows, Crash(w) PROVE OneCurrentRefresh'
    <3> SUFFICES ASSUME NEW d \in Calls, Active(d)', ~aborted'[d]
                 PROVE  controller'[WindowOf[d]] = d
      BY DEF OneCurrentRefresh
    <3>1. WindowOf[d] # w /\ Active(d) /\ ~aborted[d]
      BY <2>20 DEF Crash, Active
    <3>2. QED
      BY <2>20, <3>1 DEF Crash, OneCurrentRefresh
  <2>21. CASE UNCHANGED vars
    BY <2>21, <2>quiet DEF vars
  <2>22. QED
    BY <2>1, <2>2, <2>3, <2>4, <2>5, <2>6, <2>7, <2>8, <2>9, <2>10, <2>11, <2>12,
       <2>13, <2>14, <2>15, <2>16, <2>17, <2>18, <2>19, <2>20, <2>21
    DEF Next, DirStep, FileStep, Calls
<1>3. QED
  BY <1>1, <1>2, TypeCorrect, PTL DEF Spec

-----------------------------------------------------------------------------
\* A superseded directory refresh makes at most one more write, none if it had
\* not begun to walk.
THEOREM SupersededStop == Spec => []SupersededStops
<1> USE CallsAssumption
<1>1. Init => LateWritesBounded
  BY DEF Init, LateWritesBounded, Calls
<1>2. TypeOK /\ LateWritesBounded /\ [Next]_vars => LateWritesBounded'
  <2> SUFFICES ASSUME TypeOK, LateWritesBounded, [Next]_vars
               PROVE  LateWritesBounded'
    OBVIOUS
  \* A step that aborts nobody, and moves a directory refresh in front of a
  \* write only if it is not aborted or was there already.
  <2>quiet. ASSUME UNCHANGED history,
                   \A d \in DirCalls :
                     /\ ~aborted'[d] => ~aborted[d]
                     /\ pc'[d] \in {"write", "paused"} =>
                          pc[d] \in {"write", "paused"} \/ ~aborted[d]
            PROVE  LateWritesBounded'
    BY <2>quiet DEF LateWritesBounded, history
  <2> USE DEF TypeOK, Goto, abortVars, SendLock
  <2>1. ASSUME NEW c \in DirCalls, StartDir(c) PROVE LateWritesBounded'
    <3> SUFFICES ASSUME NEW d \in DirCalls
                 PROVE  /\ (~aborted'[d] \/ pc'[d] \in {"write", "paused"})
                             => lateWrites'[d] = 0 /\ ~neverBegan'[d]
                        /\ lateWrites'[d] <= (IF neverBegan'[d] THEN 0 ELSE 1)
      BY DEF LateWritesBounded
    <3>1. lateWrites'[d] = lateWrites[d] /\ (~aborted'[d] => ~aborted[d])
      BY <2>1 DEF StartDir, Calls
    <3>2. pc'[d] \in {"write", "paused"} => pc[d] \in {"write", "paused"}
      BY <2>1 DEF StartDir, Calls
    <3>3. neverBegan'[d] <=> \/ neverBegan[d]
                             \/ /\ d \in Superseded(WindowOf[c])
                                /\ ~aborted[d] /\ pc[d] \in BeforeBegin
      BY <2>1 DEF StartDir, Calls
    <3>4. d \in Superseded(WindowOf[c]) => aborted'[d]
      BY <2>1 DEF StartDir, Calls
    <3>5. QED
      BY <3>1, <3>2, <3>3, <3>4 DEF LateWritesBounded, BeforeBegin
  <2>2. ASSUME NEW c \in DirCalls, Poll(c) PROVE LateWritesBounded'
    BY <2>2, <2>quiet DEF Poll, Calls
  <2>3. ASSUME NEW c \in DirCalls, StaleUnlock(c) PROVE LateWritesBounded'
    BY <2>3, <2>quiet DEF StaleUnlock, Calls
  <2>4. ASSUME NEW c \in DirCalls, Lock(c) PROVE LateWritesBounded'
    BY <2>4, <2>quiet DEF Lock, Calls
  <2>5. ASSUME NEW c \in DirCalls, Begin(c) PROVE LateWritesBounded'
    BY <2>5, <2>quiet DEF Begin, Calls
  <2>6. ASSUME NEW c \in DirCalls, WalkFile(c) PROVE LateWritesBounded'
    BY <2>6, <2>quiet DEF WalkFile, Stopped, Calls
  <2>7. ASSUME NEW c \in DirCalls, WalkEnds(c) PROVE LateWritesBounded'
    BY <2>7, <2>quiet DEF WalkEnds, NextDirectory, LastUpdate, Calls
  <2>8. ASSUME NEW c \in DirCalls, Check(c) PROVE LateWritesBounded'
    BY <2>8, <2>quiet DEF Check, Stopped, Calls
  <2>9. ASSUME NEW c \in Calls, Resume(c) PROVE LateWritesBounded'
    BY <2>9, <2>quiet DEF Resume, Calls
  <2>10. ASSUME NEW c \in DirCalls, Write(c) PROVE LateWritesBounded'
    <3>1. \A d \in Calls : d # c => /\ pc'[d] = pc[d]
                                    /\ lateWrites'[d] = lateWrites[d]
      BY <2>10 DEF Write, NextDirectory, LastUpdate, IndexWrite, Calls
    <3>2. pc'[c] \in {"yielded", "walk", "unlocking"}
      BY <2>10 DEF Write, NextDirectory, LastUpdate, Calls
    <3>3. lateWrites[c] = 0 /\ ~neverBegan[c]
      BY <2>10 DEF Write, LateWritesBounded
    <3>4. lateWrites'[c] = IF aborted[c] THEN 1 ELSE 0
      BY <2>10, <3>3 DEF Write, IndexWrite, Calls
    <3>5. UNCHANGED <<aborted, neverBegan>>
      BY <2>10 DEF Write
    <3>6. ASSUME NEW d \in DirCalls
          PROVE  /\ (~aborted'[d] \/ pc'[d] \in {"write", "paused"})
                      => lateWrites'[d] = 0 /\ ~neverBegan'[d]
                 /\ lateWrites'[d] <= (IF neverBegan'[d] THEN 0 ELSE 1)
      <4>1. CASE d = c
        BY <3>2, <3>3, <3>4, <3>5, <4>1
      <4>2. CASE d # c
        BY <3>1, <3>5, <4>2 DEF LateWritesBounded, Calls
      <4>3. QED
        BY <4>1, <4>2
    <3>7. QED
      BY <3>6 DEF LateWritesBounded
  <2>11. ASSUME NEW c \in DirCalls, Fail(c) PROVE LateWritesBounded'
    BY <2>11, <2>quiet DEF Fail, Calls
  <2>12. ASSUME NEW c \in DirCalls, Unlock(c) PROVE LateWritesBounded'
    BY <2>12, <2>quiet DEF Unlock, ReleaseController, Calls
  <2>13. ASSUME NEW c \in DirCalls, DbError(c) PROVE LateWritesBounded'
    BY <2>13, <2>quiet DEF DbError, Calls
  <2>14. ASSUME NEW c \in FileCalls, StartFiles(c) PROVE LateWritesBounded'
    BY <2>14, <2>quiet DEF StartFiles, Calls
  <2>15. ASSUME NEW c \in FileCalls, RefreshFile(c) PROVE LateWritesBounded'
    <3>1. \A d \in DirCalls : pc'[d] = pc[d] /\ lateWrites'[d] = lateWrites[d]
      BY <2>15 DEF RefreshFile, IndexWrite, Calls
    <3>2. UNCHANGED <<aborted, neverBegan>>
      BY <2>15 DEF RefreshFile
    <3>3. QED
      BY <3>1, <3>2 DEF LateWritesBounded
  <2>16. ASSUME NEW c \in FileCalls, EndFiles(c) PROVE LateWritesBounded'
    BY <2>16, <2>quiet DEF EndFiles, ReleaseController, Calls
  <2>17. ASSUME NEW c \in DirCalls, Heartbeat(c) \/ RenewalEnds(c) PROVE LateWritesBounded'
    BY <2>17, <2>quiet DEF Heartbeat, RenewalEnds, Renew, RenewalFails, Calls
  <2>18. CASE Tick
    BY <2>18, <2>quiet DEF Tick
  <2>19. ASSUME NEW w \in Windows, SetPaused(w) PROVE LateWritesBounded'
    BY <2>19, <2>quiet DEF SetPaused
  <2>20. ASSUME NEW w \in Windows, Crash(w) PROVE LateWritesBounded'
    BY <2>20, <2>quiet DEF Crash, Calls
  <2>21. CASE UNCHANGED vars
    BY <2>21, <2>quiet DEF vars
  <2>22. QED
    BY <2>1, <2>2, <2>3, <2>4, <2>5, <2>6, <2>7, <2>8, <2>9, <2>10, <2>11, <2>12,
       <2>13, <2>14, <2>15, <2>16, <2>17, <2>18, <2>19, <2>20, <2>21
    DEF Next, DirStep, FileStep, Calls
<1>3. LateWritesBounded => SupersededStops
  BY DEF LateWritesBounded, SupersededStops
<1>4. QED
  BY <1>1, <1>2, <1>3, TypeCorrect, PTL DEF Spec

-----------------------------------------------------------------------------
(***************************************************************************)
(* When nothing runs in a window                                           *)
(***************************************************************************)
\* From the first "indexing" to the last status of a call.
Working == {"walk", "walkPaused", "yielded", "paused", "write", "files",
            "filesPaused"}

\* A window that says that it works has a call that works.  One that shows
\* neither a result nor, after a refresh without a last update, what it showed
\* then has a call that will still say something, or nothing as its last word.
ShownIsWorking ==
  \A w \in Windows :
    /\ shown[w] \in {"indexing", "paused"} =>
         \E c \in Calls : WindowOf[c] = w /\ pc[c] \in Working
    /\ shown[w] \notin Results /\ ~silent[w] =>
         \E c \in Calls : WindowOf[c] = w /\ pc[c] \in BeforeBegin \cup Working

\* Where a call goes and what it shows: on to more work; to the end with a last
\* status; on towards its work; to the end without a word; or from there on.
LEMMA ShownStep ==
  ASSUME TypeOK, ShownIsWorking, NEW c \in Calls, NEW place, Goto(c, place),
         NEW status,
         \/ place \in Working /\ (UNCHANGED progress \/ Show(c, status))
         \/ Show(c, status) /\ status \in Results
         \/ /\ pc[c] \notin Working /\ place \in BeforeBegin
            /\ UNCHANGED progress \/ Show(c, "waiting")
         \/ pc[c] \notin Working /\ SayNothing(c)
         \/ pc[c] \notin BeforeBegin \cup Working /\ UNCHANGED progress
  PROVE  ShownIsWorking'
<1> DEFINE Busy(w) == \E d \in Calls : WindowOf[d] = w /\ pc[d] \in BeforeBegin \cup Working
           Works(w) == \E d \in Calls : WindowOf[d] = w /\ pc[d] \in Working
<1> SUFFICES ASSUME NEW w \in Windows
             PROVE  /\ shown'[w] \in {"indexing", "paused"} => Works(w)'
                    /\ shown'[w] \notin Results /\ ~silent'[w] => Busy(w)'
  BY DEF ShownIsWorking
<1>1. /\ pc'[c] = place /\ \A d \in Calls : d # c => pc'[d] = pc[d]
      /\ WindowOf[c] # w => shown'[w] = shown[w] /\ silent'[w] = silent[w]
  BY CallsAssumption DEF TypeOK, Goto, Show, SayNothing, progress
<1>2. CASE WindowOf[c] # w
  BY <1>1, <1>2 DEF ShownIsWorking
<1>3. CASE WindowOf[c] = w /\ place \in Working
  BY <1>1, <1>3
<1>4. CASE WindowOf[c] = w /\ Show(c, status) /\ status \in Results
  BY <1>4 DEF TypeOK, Show, Results
<1>5. CASE /\ WindowOf[c] = w /\ pc[c] \notin Working /\ place \in BeforeBegin
           /\ UNCHANGED progress \/ Show(c, "waiting")
  <2>1. Busy(w)'
    BY <1>1, <1>5
  <2>2. shown'[w] = shown[w] \/ shown'[w] = "waiting"
    BY <1>5 DEF TypeOK, Show, progress
  <2>3. Works(w) => Works(w)'
    BY <1>1, <1>5
  <2>4. QED
    BY <2>1, <2>2, <2>3 DEF ShownIsWorking
<1>6. CASE WindowOf[c] = w /\ pc[c] \notin Working /\ SayNothing(c)
  <2>1. silent'[w] /\ shown'[w] = shown[w]
    BY <1>6 DEF TypeOK, SayNothing
  <2>2. Works(w) => Works(w)'
    BY <1>1, <1>6
  <2>3. QED
    BY <2>1, <2>2 DEF ShownIsWorking
<1>7. CASE WindowOf[c] = w /\ pc[c] \notin BeforeBegin \cup Working /\ UNCHANGED progress
  BY <1>1, <1>7 DEF ShownIsWorking, progress
<1>8. QED
  BY <1>2, <1>3, <1>4, <1>5, <1>6, <1>7

\* A step that keeps the places, or lets a call that does not work yet go on.
LEMMA ShownQuiet ==
  ASSUME ShownIsWorking, UNCHANGED <<progress, pc>>
  PROVE  ShownIsWorking'
BY DEF ShownIsWorking, progress

\* When nothing runs in a window it shows how the last refresh came out, or what it
\* showed when one left off without a last update, but never that it works: for any
\* number of calls that overlap, fail, are aborted or die.
THEOREM QuietShowsResultHolds == Spec => []QuietShowsResult
<1> USE CallsAssumption
<1>1. Init => ShownIsWorking
  BY DEF Init, ShownIsWorking
<1>2. TypeOK /\ ShownIsWorking /\ [Next]_vars => ShownIsWorking'
  <2> SUFFICES ASSUME TypeOK, ShownIsWorking, [Next]_vars PROVE ShownIsWorking'
    OBVIOUS
  <2>1. ASSUME NEW c \in DirCalls, StartDir(c) \/ StaleUnlock(c) \/ Lock(c) \/ Poll(c)
        PROVE  ShownIsWorking'
    <3>1. \E place \in BeforeBegin :
            /\ Goto(c, place) /\ pc[c] \notin Working
            /\ UNCHANGED progress \/ Show(c, "waiting")
      <4>1. CASE StartDir(c) \/ StaleUnlock(c) \/ Lock(c)
        BY <4>1 DEF StartDir, StaleUnlock, Lock, SendLock, BeforeBegin, Working
      <4>2. CASE Poll(c)
        <5>1. UNCHANGED pc => Goto(c, "waiting")
          BY <4>2 DEF Poll, Goto, TypeOK, Calls
        <5>2. QED
          BY <4>2, <5>1 DEF Poll, SendLock, BeforeBegin, Working
      <4>3. QED
        BY <2>1, <4>1, <4>2
    <3>2. QED
      BY <3>1, ShownStep DEF Calls
  <2>2. ASSUME NEW c \in DirCalls, Begin(c) PROVE ShownIsWorking'
    <3>1. \/ Goto(c, "unlocking") /\ SayNothing(c) /\ pc[c] \notin Working
          \/ Goto(c, "unlocking") /\ \E s \in Results : Show(c, s)
          \/ Goto(c, "walk") /\ Show(c, "indexing")
      BY <2>2 DEF Begin, Working, Results
    <3>2. QED
      BY <3>1, ShownStep DEF Calls, Working
  <2>3. ASSUME NEW c \in DirCalls, WalkFile(c) \/ Check(c) PROVE ShownIsWorking'
    <3>1. \/ \E s \in Results : Goto(c, "unlocking") /\ Show(c, s)
          \/ \E place \in Working : \E s : Goto(c, place) /\ Show(c, s)
      BY <2>3 DEF WalkFile, Check, Working, Results
    <3>2. QED
      BY <3>1, ShownStep DEF Calls
  <2>4. ASSUME NEW c \in DirCalls, WalkEnds(c) \/ Write(c) PROVE ShownIsWorking'
    <3>1. \/ \E place \in Working : Goto(c, place) /\ UNCHANGED progress
          \/ \E s \in Results : Goto(c, "unlocking") /\ Show(c, s)
          \/ \E place \in Working : \E s : Goto(c, place) /\ Show(c, s)
      BY <2>4 DEF WalkEnds, Write, NextDirectory, LastUpdate, Working, Results
    <3>2. QED
      BY <3>1, ShownStep DEF Calls
  <2>5. ASSUME NEW c \in Calls, Resume(c) PROVE ShownIsWorking'
    <3>1. \E place \in Working : \E s :
            Goto(c, place) /\ (UNCHANGED progress \/ Show(c, s))
      BY <2>5 DEF Resume, Working
    <3>2. QED
      BY <3>1, ShownStep
  <2>6. ASSUME NEW c \in DirCalls, DbError(c) PROVE ShownIsWorking'
    <3>1. /\ Goto(c, "ended") /\ pc[c] \notin Working
          /\ \/ SayNothing(c)
             \/ pc[c] \notin BeforeBegin \cup Working /\ UNCHANGED progress
      BY <2>6 DEF DbError, DbPending, BeforeBegin, Working
    <3>2. QED
      BY <3>1, ShownStep DEF Calls
  <2>7. ASSUME NEW c \in DirCalls, Fail(c) PROVE ShownIsWorking'
    BY <2>7, ShownStep DEF Fail, ReportError, Results, Calls
  <2>8. ASSUME NEW c \in DirCalls, Unlock(c) PROVE ShownIsWorking'
    BY <2>8, ShownStep DEF Unlock, Calls, BeforeBegin, Working
  <2>9. ASSUME NEW c \in FileCalls, StartFiles(c) PROVE ShownIsWorking'
    <3>1. /\ UNCHANGED progress /\ pc[c] \notin BeforeBegin \cup Working
          /\ \E place : Goto(c, place)
      BY <2>9 DEF StartFiles, BeforeBegin, Working
    <3>2. QED
      BY <3>1, ShownStep DEF Calls
  <2>10. ASSUME NEW c \in FileCalls, RefreshFile(c) PROVE ShownIsWorking'
    <3>1. CASE paused[WindowOf[c]]
      BY <2>10, <3>1, ShownStep DEF RefreshFile, Calls, Working
    <3>2. CASE ~paused[WindowOf[c]]
      <4>1. Goto(c, "files") /\ Show(c, "indexing")
        BY <2>10, <3>2 DEF RefreshFile, Goto, TypeOK, Calls
      <4>2. QED
        BY <4>1, ShownStep DEF Calls, Working
    <3>3. QED
      BY <3>1, <3>2
  <2>11. ASSUME NEW c \in FileCalls, EndFiles(c) PROVE ShownIsWorking'
    <3>1. Goto(c, "ended") /\ \E s \in Results : Show(c, s)
      BY <2>11 DEF EndFiles, Results
    <3>2. QED
      BY <3>1, ShownStep DEF Calls
  <2>12. CASE Tick
    BY <2>12, ShownQuiet DEF Tick
  <2>13. ASSUME NEW c \in DirCalls, Heartbeat(c) \/ RenewalEnds(c) PROVE ShownIsWorking'
    BY <2>13, ShownQuiet DEF Heartbeat, RenewalEnds, Renew, RenewalFails
  <2>14. ASSUME NEW w \in Windows, SetPaused(w) PROVE ShownIsWorking'
    BY <2>14, ShownQuiet DEF SetPaused
  <2>15. ASSUME NEW w \in Windows, Crash(w) PROVE ShownIsWorking'
    BY <2>15 DEF Crash, ShownIsWorking, TypeOK
  <2>16. CASE UNCHANGED vars
    BY <2>16, ShownQuiet DEF vars
  <2>17. QED
    BY <2>1, <2>2, <2>3, <2>4, <2>5, <2>6, <2>7, <2>8, <2>9, <2>10, <2>11, <2>12,
       <2>13, <2>14, <2>15, <2>16
    DEF Next, DirStep, FileStep, Calls
<1>3. TypeOK /\ ShownIsWorking => QuietShowsResult
  <2> SUFFICES ASSUME TypeOK, ShownIsWorking, NEW w \in Windows,
                      \A c \in Calls : WindowOf[c] = w => ~Active(c)
               PROVE  shown[w] \in Results \/ (silent[w] /\ shown[w] \in {"waiting", "loading"})
    BY DEF QuietShowsResult
  <2>1. \A c \in Calls : WindowOf[c] = w => pc[c] \notin BeforeBegin \cup Working
    BY DEF Active, Working, BeforeBegin, Outside
  <2>2. shown[w] \notin {"indexing", "paused"} /\ (shown[w] \in Results \/ silent[w])
    BY <2>1 DEF ShownIsWorking, TypeOK
  <2>3. shown[w] \in Statuses
    BY DEF TypeOK
  <2>4. QED
    BY <2>2, <2>3 DEF Statuses
<1>4. QED
  BY <1>1, <1>2, <1>3, TypeCorrect, PTL DEF Spec

\* The controller of a window is that of one of its own calls; if it can still
\* be aborted, that call runs, or a statement on the lock table has ended it.
ControllerIsOwned ==
  \A w \in Windows :
    /\ controller[w] # NoCall => WindowOf[controller[w]] = w
    /\ HasLiveController(w) =>
          Active(controller[w]) \/ controller[w] \in DbMayFail

\* A step that keeps the controllers, aborts at will and lets no call end.
LEMMA OwnedQuiet ==
  ASSUME TypeOK, ControllerIsOwned, UNCHANGED controller,
         \A c \in Calls : /\ aborted[c] => aborted'[c]
                          /\ (Active(c) /\ ~aborted'[c] /\ c \notin DbMayFail
                                /\ controller[WindowOf[c]] = c)
                               => Active(c)'
  PROVE  ControllerIsOwned'
BY DEF ControllerIsOwned, HasLiveController, TypeOK

\* One that makes c, which runs, the controller of its window.
LEMMA OwnedNew ==
  ASSUME TypeOK, ControllerIsOwned, NEW c \in Calls, Active(c)',
         controller' = [controller EXCEPT ![WindowOf[c]] = c],
         \A d \in Calls : d # c => /\ aborted[d] => aborted'[d]
                                   /\ Active(d) => Active(d)'
  PROVE  ControllerIsOwned'
<1>1. /\ controller'[WindowOf[c]] = c
      /\ \A w \in Windows : w # WindowOf[c] => controller'[w] = controller[w]
  BY CallsAssumption DEF TypeOK
<1>2. \A w \in Windows : w # WindowOf[c] => controller[w] # c
  BY CallsAssumption DEF ControllerIsOwned
<1>3. ASSUME NEW w \in Windows
      PROVE  /\ controller'[w] # NoCall => WindowOf[controller'[w]] = w
             /\ HasLiveController(w)' =>
                   Active(controller[w])' \/ controller'[w] \in DbMayFail
  <2>1. CASE w = WindowOf[c]
    BY <1>1, <2>1 DEF Active
  <2>2. CASE w # WindowOf[c]
    BY <1>1, <1>2, <2>2 DEF ControllerIsOwned, HasLiveController, Active, TypeOK
  <2>3. QED
    BY <2>1, <2>2
<1>4. QED
  BY <1>3 DEF ControllerIsOwned

\* When nothing runs in a window, and no statement on the lock table has failed
\* there, its controller cannot be aborted any more, so that the next file refresh
\* is accepted, for any number of calls that overlap, fail or die.
THEOREM QuietAcceptsFilesHolds == Spec => []QuietAcceptsFiles
<1> USE CallsAssumption
<1>1. Init => ControllerIsOwned
  BY DEF Init, ControllerIsOwned, HasLiveController
<1>2. TypeOK /\ ControllerIsOwned /\ [Next]_vars => ControllerIsOwned'
  <2> SUFFICES ASSUME TypeOK, ControllerIsOwned, [Next]_vars
               PROVE  ControllerIsOwned'
    OBVIOUS
  <2> USE DEF abortVars, Goto
  \* The call that moves goes on running, unless it is the owner.
  <2>1. ASSUME NEW c \in DirCalls, StartDir(c) PROVE ControllerIsOwned'
    <3>1. \A d \in Calls : /\ aborted[d] => aborted'[d]
                           /\ Active(d) => Active(d)'
      BY <2>1 DEF StartDir, TypeOK, Active, Outside, Calls
    <3>2. Active(c)' /\ controller' = [controller EXCEPT ![WindowOf[c]] = c]
      BY <2>1 DEF StartDir, TypeOK, Active, Outside, Calls
    <3>3. QED
      BY <3>1, <3>2, OwnedNew DEF Calls
  <2>2. ASSUME NEW c \in DirCalls,
               Poll(c) \/ StaleUnlock(c) \/ Lock(c) \/ Begin(c) \/ WalkFile(c)
               \/ WalkEnds(c) \/ Check(c) \/ Write(c) \/ Fail(c)
        PROVE  ControllerIsOwned'
    <3>1. UNCHANGED <<controller, aborted>>
      BY <2>2 DEF Poll, StaleUnlock, Lock, Begin, WalkFile, WalkEnds, Check, Write,
                  Fail
    <3>2. pc' = pc \/ \E place \in Locations \ Outside : pc' = [pc EXCEPT ![c] = place]
      BY <2>2 DEF Poll, SendLock, StaleUnlock, Lock, Begin, WalkFile, WalkEnds, Check,
                  Write, NextDirectory, LastUpdate, Fail, Locations, Outside, BeforeBegin, Beating, DbPending
    <3>3. \A d \in Calls : Active(d) => Active(d)'
      BY <3>2 DEF Active, TypeOK, Calls
    <3>4. QED
      BY <3>1, <3>3, OwnedQuiet
  <2>3. ASSUME NEW c \in Calls, Resume(c) PROVE ControllerIsOwned'
    <3>1. \A d \in Calls : Active(d) => Active(d)'
      BY <2>3 DEF Resume, Active, Outside, TypeOK
    <3>2. QED
      BY <2>3, <3>1, OwnedQuiet DEF Resume
  <2>4. ASSUME NEW c \in DirCalls, Unlock(c) PROVE ControllerIsOwned'
    BY <2>4, OwnedQuiet DEF Unlock, ReleaseController, Active, TypeOK, Calls
  <2>5. ASSUME NEW c \in DirCalls, DbError(c) PROVE ControllerIsOwned'
    BY <2>5, OwnedQuiet DEF DbError, Active, TypeOK, Calls
  <2>6. ASSUME NEW c \in FileCalls, StartFiles(c) PROVE ControllerIsOwned'
    <3>1. pc[c] = "idle" /\ aborted' = aborted
      BY <2>6 DEF StartFiles
    <3>2. CASE HasLiveController(WindowOf[c])
      <4>1. /\ UNCHANGED <<controller, aborted>>
            /\ \A d \in Calls : Active(d) => Active(d)'
        BY <2>6, <3>1, <3>2 DEF StartFiles, Active, Outside, TypeOK, Calls
      <4>2. QED
        BY <4>1, OwnedQuiet
    <3>3. CASE ~HasLiveController(WindowOf[c])
      <4>1. /\ Active(c)' /\ controller' = [controller EXCEPT ![WindowOf[c]] = c]
            /\ \A d \in Calls : Active(d) => Active(d)'
        BY <2>6, <3>1, <3>3 DEF StartFiles, Active, Outside, TypeOK, Calls
      <4>2. QED
        BY <3>1, <4>1, OwnedNew DEF Calls
    <3>4. QED
      BY <3>2, <3>3
  <2>7. ASSUME NEW c \in FileCalls, RefreshFile(c) PROVE ControllerIsOwned'
    <3>1. \A d \in Calls : Active(d) => Active(d)'
      BY <2>7 DEF RefreshFile, Active, Outside, TypeOK, Calls
    <3>2. QED
      BY <2>7, <3>1, OwnedQuiet DEF RefreshFile
  <2>8. ASSUME NEW c \in FileCalls, EndFiles(c) PROVE ControllerIsOwned'
    BY <2>8, OwnedQuiet DEF EndFiles, ReleaseController, Active, TypeOK, Calls
  <2>9. CASE \/ Tick \/ UNCHANGED vars
             \/ \E c \in DirCalls : Heartbeat(c) \/ RenewalEnds(c)
             \/ \E w \in Windows : SetPaused(w)
    <3>1. UNCHANGED <<controller, aborted, pc>>
      BY <2>9 DEF Tick, vars, Heartbeat, RenewalEnds, Renew, RenewalFails, SetPaused
    <3>2. QED
      BY <3>1, OwnedQuiet DEF Active
  <2>10. ASSUME NEW w \in Windows, Crash(w) PROVE ControllerIsOwned'
    <3>1. ASSUME NEW u \in Windows, u # w
          PROVE  /\ controller'[u] = controller[u]
                 /\ controller[u] # NoCall =>
                      pc'[controller[u]] = pc[controller[u]]
      BY <2>10, <3>1 DEF Crash, ControllerIsOwned, TypeOK
    <3>2. controller'[w] = NoCall /\ aborted' = aborted
      BY <2>10 DEF Crash, TypeOK
    <3>3. QED
      BY <3>1, <3>2 DEF ControllerIsOwned, HasLiveController, Active
  <2>11. QED
    BY <2>1, <2>2, <2>3, <2>4, <2>5, <2>6, <2>7, <2>8, <2>9, <2>10
    DEF Next, DirStep, FileStep, Calls
<1>3. TypeOK /\ ControllerIsOwned => QuietAcceptsFiles
  BY DEF TypeOK, ControllerIsOwned, QuietAcceptsFiles, HasLiveController
<1>4. QED
  BY <1>1, <1>2, <1>3, TypeCorrect, PTL DEF Spec
=============================================================================
