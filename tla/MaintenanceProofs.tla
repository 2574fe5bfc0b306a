-------------------------- MODULE MaintenanceProofs --------------------------
(***************************************************************************)
(* Proofs about Maintenance, for any tasks, callers and limits.             *)
(***************************************************************************)
EXTENDS Maintenance, SequenceTheorems, FiniteSetTheorems, TLAPS

-----------------------------------------------------------------------------
(* Sequences without repetition *)

LEMMA ToSetInType ==
  ASSUME NEW S, NEW s \in Seq(S)
  PROVE  ToSet(s) \subseteq S
  BY LenProperties, ElementOfSeq DEF ToSet

\* A sequence that has an element in common with no other one can follow it.
LEMMA ConcatInjective ==
  ASSUME NEW S, NEW s \in Seq(S), NEW u \in Seq(S),
         IsInjective(s), IsInjective(u), ToSet(s) \cap ToSet(u) = {}
  PROVE  IsInjective(s \o u)
<1>1. /\ Len(s) \in Nat /\ DOMAIN s = 1 .. Len(s)
      /\ Len(u) \in Nat /\ DOMAIN u = 1 .. Len(u)
  BY LenProperties
<1>2. /\ s \o u \in Seq(S)
      /\ DOMAIN (s \o u) = 1 .. Len(s) + Len(u)
      /\ \A i \in 1 .. Len(s) + Len(u) :
           (s \o u)[i] = IF i <= Len(s) THEN s[i] ELSE u[i - Len(s)]
  BY ConcatProperties, LenProperties
<1> SUFFICES ASSUME NEW i \in 1 .. Len(s) + Len(u), NEW j \in 1 .. Len(s) + Len(u),
                    (s \o u)[i] = (s \o u)[j]
             PROVE  i = j
  BY <1>2 DEF IsInjective
<1>3. CASE i <= Len(s) /\ j <= Len(s)
  BY <1>1, <1>2, <1>3 DEF IsInjective
<1>4. CASE i > Len(s) /\ j > Len(s)
  <2>1. i - Len(s) \in DOMAIN u /\ j - Len(s) \in DOMAIN u
    BY <1>1, <1>4
  <2>2. u[i - Len(s)] = u[j - Len(s)]
    BY <1>1, <1>2, <1>4
  <2>3. i - Len(s) = j - Len(s)
    BY <2>1, <2>2 DEF IsInjective
  <2>4. QED
    BY <1>1, <2>3
<1>5. CASE i <= Len(s) /\ j > Len(s)
  <2>1. s[i] = u[j - Len(s)] /\ i \in DOMAIN s /\ j - Len(s) \in DOMAIN u
    BY <1>1, <1>2, <1>5
  <2>2. QED
    BY <2>1 DEF ToSet
<1>6. CASE i > Len(s) /\ j <= Len(s)
  <2>1. s[j] = u[i - Len(s)] /\ j \in DOMAIN s /\ i - Len(s) \in DOMAIN u
    BY <1>1, <1>2, <1>6
  <2>2. QED
    BY <2>1 DEF ToSet
<1>7. QED
  BY <1>1, <1>3, <1>4, <1>5, <1>6

LEMMA ConcatToSet ==
  ASSUME NEW S, NEW s \in Seq(S), NEW u \in Seq(S)
  PROVE  ToSet(s \o u) = ToSet(s) \cup ToSet(u)
<1>1. /\ Len(s) \in Nat /\ DOMAIN s = 1 .. Len(s)
      /\ Len(u) \in Nat /\ DOMAIN u = 1 .. Len(u)
  BY LenProperties
<1>2. /\ DOMAIN (s \o u) = 1 .. Len(s) + Len(u)
      /\ \A i \in 1 .. Len(s) + Len(u) :
           (s \o u)[i] = IF i <= Len(s) THEN s[i] ELSE u[i - Len(s)]
  BY ConcatProperties, LenProperties
<1>3. ASSUME NEW x \in ToSet(s \o u)
      PROVE  x \in ToSet(s) \cup ToSet(u)
  <2>1. PICK i \in DOMAIN (s \o u) : x = (s \o u)[i]
    BY <1>3 DEF ToSet
  <2>2. \/ i \in DOMAIN s /\ x = s[i]
        \/ i - Len(s) \in DOMAIN u /\ x = u[i - Len(s)]
    BY <1>1, <1>2, <2>1
  <2>3. QED
    BY <2>2 DEF ToSet
<1>4. ASSUME NEW x \in ToSet(s)
      PROVE  x \in ToSet(s \o u)
  <2>1. PICK i \in DOMAIN s : x = s[i]
    BY <1>4 DEF ToSet
  <2>2. i \in DOMAIN (s \o u) /\ x = (s \o u)[i]
    BY <1>1, <1>2, <2>1
  <2>3. QED
    BY <2>2 DEF ToSet
<1>5. ASSUME NEW x \in ToSet(u)
      PROVE  x \in ToSet(s \o u)
  <2>1. PICK i \in DOMAIN u : x = u[i]
    BY <1>5 DEF ToSet
  <2>2. i + Len(s) \in DOMAIN (s \o u) /\ x = (s \o u)[i + Len(s)]
    BY <1>1, <1>2, <2>1
  <2>3. QED
    BY <2>2 DEF ToSet
<1>6. QED
  BY <1>3, <1>4, <1>5

\* The rest of a sequence without repetition is what remains without its head.
LEMMA TailInjective ==
  ASSUME NEW S, NEW s \in Seq(S), s # <<>>, IsInjective(s)
  PROVE  /\ IsInjective(Tail(s))
         /\ Head(s) \in ToSet(s)
         /\ ToSet(Tail(s)) = ToSet(s) \ {Head(s)}
<1>1. /\ Len(s) \in Nat \ {0} /\ DOMAIN s = 1 .. Len(s)
      /\ DOMAIN Tail(s) = 1 .. Len(s) - 1
      /\ \A i \in 1 .. Len(s) - 1 : Tail(s)[i] = s[i + 1]
      /\ Head(s) = s[1]
  BY LenProperties, HeadTailProperties, EmptySeq
<1>2. \A i, j \in 1 .. Len(s) : s[i] = s[j] => i = j
  BY <1>1 DEF IsInjective
<1>3. ASSUME NEW i \in DOMAIN Tail(s), NEW j \in DOMAIN Tail(s),
             Tail(s)[i] = Tail(s)[j]
      PROVE  i = j
  <2>1. i + 1 \in 1 .. Len(s) /\ j + 1 \in 1 .. Len(s) /\ s[i + 1] = s[j + 1]
    BY <1>1, <1>3
  <2>2. i + 1 = j + 1
    BY <1>2, <2>1
  <2>3. QED
    BY <1>1, <2>2
<1>4. Head(s) \in ToSet(s)
  <2>1. 1 \in DOMAIN s
    BY <1>1
  <2>2. QED
    BY <1>1, <2>1 DEF ToSet
<1>5. ASSUME NEW x \in ToSet(Tail(s))
      PROVE  x \in ToSet(s) \ {Head(s)}
  <2>1. PICK i \in DOMAIN Tail(s) : x = Tail(s)[i]
    BY <1>5 DEF ToSet
  <2>2. i + 1 \in 1 .. Len(s) /\ x = s[i + 1] /\ i + 1 # 1 /\ 1 \in 1 .. Len(s)
    BY <1>1, <2>1
  <2>3. x # s[1]
    BY <1>2, <2>2
  <2>4. QED
    BY <1>1, <2>2, <2>3 DEF ToSet
<1>6. ASSUME NEW x \in ToSet(s) \ {Head(s)}
      PROVE  x \in ToSet(Tail(s))
  <2>1. PICK i \in DOMAIN s : x = s[i]
    BY <1>6 DEF ToSet
  <2>2. i # 1
    BY <1>1, <1>6, <2>1
  <2>3. i - 1 \in DOMAIN Tail(s) /\ x = Tail(s)[i - 1]
    BY <1>1, <2>1, <2>2
  <2>4. QED
    BY <2>3 DEF ToSet
<1>7. QED
  BY <1>3, <1>4, <1>5, <1>6 DEF IsInjective

\* The tasks an analysis schedules are enumerated without repetition.
LEMMA EnumerationOfFinite ==
  ASSUME NEW S, IsFiniteSet(S)
  PROVE  /\ SetToSeq(S) \in Seq(S)
         /\ IsInjective(SetToSeq(S))
         /\ ToSet(SetToSeq(S)) = S
<1> DEFINE D == 1 .. Cardinality(S)
<1>1. Cardinality(S) \in Nat /\ ExistsBijection(D, S)
  BY FS_CardinalityType
<1>2. PICK b : b \in Bijection(D, S)
  BY <1>1 DEF ExistsBijection
<1>3. b \in [D -> S] /\ IsInjective(b)
  BY <1>2 DEF Bijection, Injection
<1>4. SetToSeq(S) \in [D -> S] /\ IsInjective(SetToSeq(S))
  BY <1>3 DEF SetToSeq
<1>5. SetToSeq(S) \in Injection(D, S)
  BY <1>4 DEF Injection
<1>6. IsFiniteSet(D) /\ Cardinality(D) = Cardinality(S)
  BY <1>1, FS_Interval
<1>7. SetToSeq(S) \in Surjection(D, S)
  BY <1>5, <1>6, FS_Injection
<1>8. \A x \in S : \E i \in D : SetToSeq(S)[i] = x
  BY <1>7 DEF Surjection
<1>9. SetToSeq(S) \in Seq(S)
  BY <1>1, <1>4
<1>10. QED
  BY <1>4, <1>8, <1>9 DEF ToSet

-----------------------------------------------------------------------------
(* The inductive invariant: a task about to get the semaphore does not hold *)
(* it, because every task is in one place.                                  *)

IInv == TypeOK /\ OnePlace /\ RunsWithinLimit

LEMMA LineSplit ==
  ASSUME TypeOK, OnePlace
  PROVE  /\ Line \in Seq(Tasks)
         /\ ToSet(waiting) \subseteq {t \in Tasks : status[t] = "pending"}
         /\ ToSet(queue) \subseteq {t \in Tasks : status[t] = "pending"}
  BY ConcatProperties, ConcatToSet DEF TypeOK, OnePlace, Line

\* New tasks are appended to the line.
LEMMA ScheduleKeepsOnePlace ==
  ASSUME TypeOK, OnePlace, NEW n \in Seq(Tasks), IsInjective(n),
         ToSet(n) \subseteq Fresh,
         SchedulePending(ToSet(n)), Line' = Line \o n,
         UNCHANGED <<current, history>>
  PROVE  OnePlace'
<1>1. Line \in Seq(Tasks) /\ ToSet(Line) \cap ToSet(n) = {}
  BY LineSplit DEF OnePlace, Fresh, Scheduled
<1>2. IsInjective(Line')
  BY <1>1, ConcatInjective DEF OnePlace
<1>3. ToSet(Line') = ToSet(Line) \cup ToSet(n)
  BY <1>1, ConcatToSet
<1>4. \A t \in Tasks : status'[t] = IF t \in ToSet(n) THEN "pending" ELSE status[t]
  BY DEF SchedulePending
<1>5. \A t \in ToSet(n) : t \in Tasks /\ status[t] = "none"
  BY DEF Fresh, Scheduled
<1>6. QED
  BY <1>2, <1>3, <1>4, <1>5 DEF OnePlace, Ended

\* Taking the head of the queue leaves the line as it is.
LEMMA ProcessQueueKeepsLine ==
  ASSUME TypeOK, NEW q \in Seq(Tasks), ProcessQueue(q)
  PROVE  /\ queue' \in Seq(Tasks) /\ waiting' \in Seq(Tasks)
         /\ Line' = waiting \o q
<1>1. CASE q = <<>>
  BY <1>1 DEF ProcessQueue, Line, TypeOK
<1>2. CASE q # <<>>
  <2>1. /\ queue' = Tail(q)
        /\ waiting' = Append(waiting, Head(q))
    BY <1>2 DEF ProcessQueue, PopQueue
  <2>2. Head(q) \in Tasks /\ Tail(q) \in Seq(Tasks) /\ <<Head(q)>> \in Seq(Tasks)
    BY <1>2, HeadTailProperties
  <2>3. Append(waiting, Head(q)) = waiting \o <<Head(q)>>
    BY <2>2, AppendIsConcat DEF TypeOK
  <2>4. (waiting \o <<Head(q)>>) \o Tail(q) = waiting \o (<<Head(q)>> \o Tail(q))
    BY <2>2, ConcatAssociative, SMTT(20) DEF TypeOK
  <2>5. <<Head(q)>> \o Tail(q) = q
    BY <1>2
  <2>6. QED
    BY <2>1, <2>2, <2>3, <2>4, <2>5 DEF Line, TypeOK
<1>3. QED
  BY <1>1, <1>2

LEMMA ScheduleType ==
  ASSUME TypeOK, NEW T \in SUBSET Tasks, SchedulePending(T)
  PROVE  status' \in [Tasks -> Ended \cup {"none", "pending", "running", "cancelled"}]
  BY DEF TypeOK, SchedulePending

LEMMA NewIdIsFresh == Fresh # {} => NewId(Fresh) \in Fresh
  BY DEF NewId

LEMMA CurrentFinite ==
  ASSUME TypeOK
  PROVE  IsFiniteSet(current) /\ Cardinality(current) \in Nat
  BY MaintenanceAssumption, FS_Subset, FS_CardinalityType DEF TypeOK

LEMMA RoundKeepsCalls ==
  ASSUME TypeOK, RoundPasses
  PROVE  call' \in [Callers -> [pc : {"idle", "polling"}, task : Tasks \cup {None},
                               elapsed : 0 .. Patience]]
<1> DEFINE Calls == [pc : {"idle", "polling"}, task : Tasks \cup {None},
                     elapsed : 0 .. Patience]
<1>1. ASSUME NEW c \in Callers
      PROVE  call'[c] \in Calls
  <2>1. call[c] \in Calls
    BY DEF TypeOK
  <2>2. call'[c] = IF c \in Polling /\ call[c].elapsed < Patience
                   THEN [call[c] EXCEPT !.elapsed = @ + 1] ELSE call[c]
    BY DEF RoundPasses
  <2>3. call[c].elapsed < Patience => call[c].elapsed + 1 \in 0 .. Patience
    BY <2>1, MaintenanceAssumption
  <2>4. QED
    BY <2>1, <2>2, <2>3
<1>2. QED
  BY <1>1 DEF RoundPasses

LEMMA InitInv == Init => IInv
<1> SUFFICES ASSUME Init PROVE IInv
  OBVIOUS
<1>1. Line = <<>>
  BY DEF Init, Line
<1>2. ToSet(Line) = {} /\ IsInjective(Line)
  BY <1>1 DEF ToSet, IsInjective
<1>3. OnePlace
  BY <1>2 DEF Init, OnePlace, Ended
<1>4. Cardinality(current) = 0
  BY FS_EmptySet DEF Init
<1>5. TypeOK
  BY MaintenanceAssumption DEF Init, TypeOK, NewCall, NotServed, None, Up, Ended
<1>6. QED
  BY <1>3, <1>4, <1>5, MaintenanceAssumption DEF IInv, RunsWithinLimit, Init

\* Steps that neither start nor end a task.
LEMMA LimitUntouched ==
  ASSUME RunsWithinLimit, UNCHANGED <<permits, current>>
  PROVE  RunsWithinLimit'
  BY DEF RunsWithinLimit

\* A status that changes outside the line leaves the line where it is.
LEMMA StatusKeepsOnePlace ==
  ASSUME TypeOK, OnePlace, UNCHANGED <<queue, waiting>>,
         NEW t \in current, NEW st \in Ended \cup {"cancelled"},
         status' = [status EXCEPT ![t] = st],
         IF st \in Ended THEN current' = current \ {t} /\ history' = history \cup {t}
                         ELSE UNCHANGED <<current, history>>
  PROVE  OnePlace'
<1>1. t \in Tasks /\ status[t] \in {"running", "cancelled"}
  BY DEF OnePlace
<1>2. \A u \in Tasks : status'[u] = IF u = t THEN st ELSE status[u]
  BY <1>1 DEF TypeOK
<1>3. Line' = Line
  BY DEF Line
<1>4. ToSet(Line') = {u \in Tasks : status'[u] = "pending"}
  BY <1>1, <1>2, <1>3 DEF OnePlace, Ended
<1>5. current' = {u \in Tasks : status'[u] \in {"running", "cancelled"}}
  BY <1>1, <1>2 DEF OnePlace, Ended
<1>6. history' \subseteq {u \in Tasks : status'[u] \in Ended}
  BY <1>1, <1>2 DEF OnePlace, Ended
<1>7. QED
  BY <1>3, <1>4, <1>5, <1>6 DEF OnePlace

LEMMA TaskStartsInv == IInv /\ TaskStarts => IInv'
<1> SUFFICES ASSUME IInv, TaskStarts PROVE IInv'
  OBVIOUS
<1> DEFINE h == Head(waiting)
<1>1. /\ waiting \in Seq(Tasks) /\ waiting # <<>> /\ queue \in Seq(Tasks)
      /\ waiting' = Tail(waiting) /\ queue' = queue
      /\ status' = [status EXCEPT ![h] = "running"]
      /\ current' = current \cup {h} /\ history' = history
  BY DEF IInv, TypeOK, TaskStarts
<1>2. h \in Tasks /\ Tail(waiting) \in Seq(Tasks)
  BY <1>1, HeadTailProperties
<1>3. Line \in Seq(Tasks)
  BY LineSplit DEF IInv
<1>4. Line # <<>> /\ Head(Line) = h /\ Line' = Tail(Line)
  <2>1. <<h>> \o Tail(waiting) = waiting /\ <<h>> \in Seq(Tasks)
    BY <1>1, <1>2
  <2>2. Line = <<h>> \o (Tail(waiting) \o queue)
    BY <1>1, <1>2, <2>1, ConcatAssociative DEF Line
  <2>3. Tail(waiting) \o queue \in Seq(Tasks)
    BY <1>1, <1>2, ConcatProperties
  <2>4. QED
    BY <1>1, <1>2, <2>2, <2>3, SMTT(20) DEF Line
<1>5. /\ IsInjective(Line') /\ h \in ToSet(Line)
      /\ ToSet(Line') = ToSet(Line) \ {h}
  BY <1>3, <1>4, TailInjective DEF IInv, OnePlace
<1>6. \A t \in Tasks : status'[t] = IF t = h THEN "running" ELSE status[t]
  BY <1>1, <1>2 DEF IInv, TypeOK
<1>7. status[h] = "pending" /\ h \notin current
  BY <1>2, <1>5 DEF IInv, OnePlace
<1>8. OnePlace'
  BY <1>1, <1>2, <1>5, <1>6, <1>7 DEF IInv, OnePlace, Ended
<1>9. RunsWithinLimit'
  <2>1. Cardinality(current') = Cardinality(current) + 1
    BY <1>1, <1>7, CurrentFinite, FS_AddElement DEF IInv
  <2>2. permits > 0 /\ permits' = permits - 1
    BY DEF TaskStarts, HasPermit
  <2>3. Cardinality(current) \in Nat /\ permits \in Nat
    BY CurrentFinite, MaintenanceAssumption DEF IInv, TypeOK
  <2>4. QED
    BY <2>1, <2>2, <2>3, MaintenanceAssumption DEF IInv, RunsWithinLimit
<1>10. TypeOK'
  <2>1. permits' \in 0 .. MaxConcurrent
    BY MaintenanceAssumption DEF IInv, TypeOK, TaskStarts, HasPermit
  <2>2. QED
    BY <1>1, <1>2, <1>6, <2>1 DEF IInv, TypeOK, TaskStarts, callVars
<1>11. QED
  BY <1>8, <1>9, <1>10 DEF IInv

LEMMA TaskEndsInv ==
  ASSUME IInv, NEW t \in Tasks, NEW o \in Ended, TaskEnds(t, o)
  PROVE  IInv'
<1>1. OnePlace'
  BY StatusKeepsOnePlace DEF IInv, TaskEnds
<1>2. /\ Cardinality(current') = Cardinality(current) - 1
      /\ Cardinality(current) \in Nat \ {0}
  BY CurrentFinite, FS_RemoveElement, FS_EmptySet DEF IInv, TaskEnds
<1>3. permits' = permits + 1
  BY DEF TaskEnds, Released
<1>4. RunsWithinLimit'
  BY <1>2, <1>3, MaintenanceAssumption DEF IInv, RunsWithinLimit, TypeOK
<1>5. permits' \in 0 .. MaxConcurrent
  BY <1>2, <1>3, MaintenanceAssumption DEF IInv, RunsWithinLimit, TypeOK
<1>6. TypeOK'
  BY <1>5 DEF IInv, TypeOK, TaskEnds, callVars
<1>7. QED
  BY <1>1, <1>4, <1>6 DEF IInv

LEMMA CancelInv ==
  ASSUME IInv, NEW t \in Tasks, CancelTask(t)
  PROVE  IInv'
<1>1. OnePlace'
  BY StatusKeepsOnePlace DEF IInv, CancelTask, Cancellable, Ended
<1>2. TypeOK'
  BY DEF IInv, TypeOK, CancelTask, callVars
<1>3. RunsWithinLimit'
  BY LimitUntouched DEF IInv, CancelTask
<1>4. QED
  BY <1>1, <1>2, <1>3 DEF IInv

LEMMA AnalysisInv ==
  ASSUME IInv, NEW needs \in SUBSET Fresh, AnalysisReturns(needs)
  PROVE  IInv'
<1> DEFINE n == SetToSeq(needs)
<1>1. IsFiniteSet(needs) /\ needs \subseteq Tasks
  BY MaintenanceAssumption, FS_Subset DEF Fresh
<1>2. n \in Seq(Tasks) /\ IsInjective(n) /\ ToSet(n) = needs
  BY <1>1, EnumerationOfFinite, SeqMonotonic
<1>3. queue \o n \in Seq(Tasks) /\ ProcessQueue(queue \o n)
  BY <1>2, ConcatProperties DEF IInv, TypeOK, AnalysisReturns, Schedule
<1>4. /\ queue' \in Seq(Tasks) /\ waiting' \in Seq(Tasks)
      /\ Line' = waiting \o (queue \o n)
  BY <1>3, ProcessQueueKeepsLine DEF IInv
<1>5. Line' = Line \o n
  <2>1. waiting \in Seq(Tasks) /\ queue \in Seq(Tasks)
    BY DEF IInv, TypeOK
  <2>2. (waiting \o queue) \o n = waiting \o (queue \o n)
    BY <1>2, <2>1, ConcatAssociative
  <2>3. QED
    BY <1>4, <2>2 DEF Line
<1>6. OnePlace'
  BY <1>2, <1>5, ScheduleKeepsOnePlace DEF IInv, AnalysisReturns
<1>7. TypeOK'
  BY <1>1, <1>4, ScheduleType DEF IInv, TypeOK, AnalysisReturns, callVars, Up
<1>8. RunsWithinLimit'
  BY LimitUntouched DEF IInv, AnalysisReturns
<1>9. QED
  BY <1>6, <1>7, <1>8 DEF IInv

LEMMA RunInv ==
  ASSUME IInv, NEW c \in Callers, RunMaintenance(c)
  PROVE  IInv'
<1> DEFINE t == NewId(Fresh)
<1>1. t \in Fresh /\ t \in Tasks
  BY NewIdIsFresh DEF RunMaintenance, Fresh
<1>2. /\ <<t>> \in Seq(Tasks) /\ IsInjective(<<t>>) /\ ToSet(<<t>>) = {t}
  BY <1>1 DEF IsInjective, ToSet
<1>3. queue' = queue \o <<t>> /\ waiting' = waiting /\ SchedulePending({t})
  BY DEF RunMaintenance, Schedule
<1>4. queue' \in Seq(Tasks)
  BY <1>2, <1>3, ConcatProperties DEF IInv, TypeOK
<1>5. Line' = Line \o <<t>>
  BY <1>2, <1>3, ConcatAssociative DEF IInv, TypeOK, Line
<1>6. OnePlace'
  BY <1>1, <1>2, <1>3, <1>5, ScheduleKeepsOnePlace DEF IInv, RunMaintenance
<1>7. TypeOK'
  <2>1. scheduler' \in Up \cup {None, "stopping"}
    BY DEF IInv, TypeOK, RunMaintenance, EnsureScheduler, Up
  <2>2. status' \in [Tasks -> Ended \cup {"none", "pending", "running", "cancelled"}]
    BY <1>1, <1>3, ScheduleType DEF IInv
  <2>3. call' = [call EXCEPT ![c] = [pc |-> "polling", task |-> t, elapsed |-> 0]]
    BY DEF RunMaintenance
  <2>4. [pc |-> "polling", task |-> t, elapsed |-> 0] \in
          [pc : {"idle", "polling"}, task : Tasks \cup {None}, elapsed : 0 .. Patience]
    BY <1>1, MaintenanceAssumption
  <2>5. Len(queue) + 1 \in Nat
    BY LenProperties DEF IInv, TypeOK
  <2>6. served' \in [Callers -> [place : Nat, up : BOOLEAN]]
    BY <2>5 DEF IInv, TypeOK, RunMaintenance
  <2>7. QED
    BY <1>3, <1>4, <2>1, <2>2, <2>3, <2>4, <2>6 DEF IInv, TypeOK, RunMaintenance
<1>8. RunsWithinLimit'
  BY LimitUntouched DEF IInv, RunMaintenance
<1>9. QED
  BY <1>6, <1>7, <1>8 DEF IInv

\* The other steps: the line, the running tasks and the permits stay.
LEMMA QuietInv ==
  ASSUME IInv, TypeOK', Line' = Line, UNCHANGED <<permits, current, status>>,
         history' \subseteq history
  PROVE  IInv'
  BY DEF IInv, OnePlace, RunsWithinLimit

LEMMA RoundInv == IInv /\ RoundOutsideWindow => IInv'
<1> SUFFICES ASSUME IInv, RoundOutsideWindow PROVE IInv'
  OBVIOUS
<1>1. queue' \in Seq(Tasks) /\ waiting' \in Seq(Tasks) /\ Line' = Line
  BY ProcessQueueKeepsLine DEF IInv, TypeOK, RoundOutsideWindow, Line
<1>2. TypeOK'
  BY <1>1 DEF IInv, TypeOK, RoundOutsideWindow, callVars, Up
<1>3. QED
  BY <1>1, <1>2, QuietInv DEF RoundOutsideWindow

LEMMA CallEndsType ==
  ASSUME TypeOK, NEW c \in Callers, CallEnds(c), UNCHANGED <<scheduler, taskVars>>
  PROVE  TypeOK'
<1>1. NewCall \in [pc : {"idle", "polling"}, task : Tasks \cup {None}, elapsed : 0 .. Patience]
  BY MaintenanceAssumption DEF NewCall
<1>2. NotServed \in [place : Nat, up : BOOLEAN]
  BY DEF NotServed
<1>3. QED
  BY <1>1, <1>2 DEF TypeOK, CallEnds, taskVars

LEMMA StepInv == IInv /\ [Next]_vars => IInv'
<1> SUFFICES ASSUME IInv, [Next]_vars PROVE IInv'
  OBVIOUS
<1> USE DEF LoopStep, TaskStep, CallStep, ClientStep
<1>1. CASE RoundOutsideWindow
  BY <1>1, RoundInv
<1>2. CASE RoundInWindow
  <2>1. TypeOK'
    BY <1>2 DEF IInv, TypeOK, RoundInWindow, taskVars, callVars, Up
  <2>2. QED
    BY <1>2, <2>1, QuietInv DEF RoundInWindow, taskVars, Line
<1>3. ASSUME NEW needs \in SUBSET Fresh, AnalysisReturns(needs) PROVE IInv'
  BY <1>3, AnalysisInv
<1>4. CASE SleepEnds \/ IdleRoundPasses
  <2>1. RoundPasses /\ UNCHANGED <<taskVars, served>>
    BY <1>4 DEF SleepEnds, IdleRoundPasses
  <2>2. scheduler' \in Up \cup {None, "stopping"}
    BY <1>4 DEF IInv, TypeOK, SleepEnds, IdleRoundPasses, Up
  <2>3. TypeOK'
    BY <2>1, <2>2, RoundKeepsCalls DEF IInv, TypeOK, taskVars
  <2>4. QED
    BY <2>1, <2>3, QuietInv DEF taskVars, Line
<1>5. CASE StopBegins \/ StopEnds
  <2>1. scheduler' \in Up \cup {None, "stopping"} /\ UNCHANGED <<taskVars, call>>
    BY <1>5 DEF StopBegins, StopEnds, callVars
  <2>2. served' \in [Callers -> [place : Nat, up : BOOLEAN]]
    <3>1. NotServed \in [place : Nat, up : BOOLEAN]
      BY DEF NotServed
    <3>2. QED
      BY <1>5, <3>1 DEF StopBegins, StopEnds, callVars, IInv, TypeOK
  <2>3. TypeOK'
    BY <2>1, <2>2 DEF IInv, TypeOK, taskVars
  <2>4. QED
    BY <2>1, <2>3, QuietInv DEF taskVars, Line
<1>6. CASE TaskStarts
  BY <1>6, TaskStartsInv
<1>7. ASSUME NEW t \in Tasks, NEW o \in Ended, TaskEnds(t, o) PROVE IInv'
  BY <1>7, TaskEndsInv
<1>8. ASSUME NEW c \in Callers, PollReturns(c) \/ PollTimesOut(c) PROVE IInv'
  <2>1. CallEnds(c) /\ UNCHANGED <<scheduler, taskVars>>
    BY <1>8 DEF PollReturns, PollTimesOut
  <2>2. TypeOK'
    BY <2>1, CallEndsType DEF IInv
  <2>3. QED
    BY <2>1, <2>2, QuietInv DEF taskVars, Line
<1>9. ASSUME NEW t \in Tasks, CancelTask(t) PROVE IInv'
  BY <1>9, CancelInv
<1>10. ASSUME NEW old \in SUBSET history, CleanupHistory(old) PROVE IInv'
  <2>1. TypeOK'
    BY <1>10 DEF IInv, TypeOK, CleanupHistory, callVars
  <2>2. QED
    BY <1>10, <2>1, QuietInv DEF CleanupHistory, Line
<1>11. CASE Initialize \/ \E c \in Callers : RunRefused(c)
  <2>1. EnsureScheduler /\ UNCHANGED <<taskVars, callVars>>
    BY <1>11 DEF Initialize, RunRefused
  <2>2. TypeOK'
    BY <2>1 DEF IInv, TypeOK, EnsureScheduler, taskVars, callVars, Up
  <2>3. QED
    BY <2>1, <2>2, QuietInv DEF taskVars, Line
<1>12. ASSUME NEW c \in Callers, RunMaintenance(c) PROVE IInv'
  BY <1>12, RunInv
<1>13. CASE UNCHANGED vars
  <2>1. TypeOK'
    BY <1>13 DEF IInv, TypeOK, vars, taskVars, callVars
  <2>2. QED
    BY <1>13, <2>1, QuietInv DEF vars, taskVars, Line
<1>14. QED
  BY <1>1, <1>2, <1>3, <1>4, <1>5, <1>6, <1>7, <1>8, <1>9, <1>10, <1>11, <1>12,
     <1>13 DEF Next

-----------------------------------------------------------------------------

THEOREM Invariance == Spec => []IInv
<1>1. Init => IInv
  BY InitInv
<1>2. IInv /\ [Next]_vars => IInv'
  BY StepInv
<1>3. QED
  BY <1>1, <1>2, PTL DEF Spec

\* The permits of the semaphore and the statements that run add up to
\* max_concurrent_maintenance: no failure, cancellation, stop or restart loses
\* a permit or lets one more statement run.
THEOREM MaintenanceWithinLimit == Spec => []RunsWithinLimit
<1>1. IInv => RunsWithinLimit
  BY DEF IInv
<1>2. QED
  BY <1>1, Invariance, PTL

\* No task is lost, started twice or executed twice, wherever the scheduler is
\* stopped.
THEOREM MaintenanceOnePlace == Spec => []OnePlace
<1>1. IInv => OnePlace
  BY DEF IInv
<1>2. QED
  BY <1>1, Invariance, PTL

-----------------------------------------------------------------------------
(* Statuses *)

\* A scheduled task stays scheduled, and the status of an ended task stays.
LEMMA StatusStep ==
  ASSUME IInv, [Next]_vars, NEW t \in Tasks
  PROVE  /\ status[t] # "none" => status'[t] # "none"
         /\ status[t] \in Ended => status'[t] = status[t]
<1> USE DEF LoopStep, TaskStep, CallStep, ClientStep
<1>0. /\ status \in [Tasks -> Ended \cup {"none", "pending", "running", "cancelled"}]
      /\ \A u \in current : u \in Tasks /\ status[u] \in {"running", "cancelled"}
  BY DEF IInv, TypeOK, OnePlace
<1>1. ASSUME NEW T \in SUBSET Fresh, SchedulePending(T)
      PROVE  /\ status[t] # "none" => status'[t] # "none"
             /\ status[t] \in Ended => status'[t] = status[t]
  BY <1>1 DEF SchedulePending, Fresh, Scheduled, Ended
<1>2. ASSUME NEW needs \in SUBSET Fresh, AnalysisReturns(needs)
      PROVE  SchedulePending(needs)
  BY <1>2 DEF AnalysisReturns
<1>3. ASSUME NEW c \in Callers, RunMaintenance(c)
      PROVE  \E T \in SUBSET Fresh : SchedulePending(T)
  <2>1. {NewId(Fresh)} \in SUBSET Fresh /\ SchedulePending({NewId(Fresh)})
    BY <1>3, NewIdIsFresh DEF RunMaintenance
  <2> QED  BY <2>1
<1>4. ASSUME TaskStarts
      PROVE  /\ status[t] # "none" => status'[t] # "none"
             /\ status[t] \in Ended => status'[t] = status[t]
  <2>1. waiting \in Seq(Tasks) /\ waiting # <<>>
    BY <1>4 DEF IInv, TypeOK, TaskStarts
  <2>2. 1 \in DOMAIN waiting /\ Head(waiting) = waiting[1]
    BY <2>1, LenProperties, HeadTailProperties, EmptySeq
  <2>3. Head(waiting) \in ToSet(waiting)
    BY <2>2 DEF ToSet
  <2>4. Head(waiting) \in Tasks /\ status[Head(waiting)] = "pending"
    BY <2>3, LineSplit DEF IInv
  <2>5. status' = [status EXCEPT ![Head(waiting)] = "running"]
    BY <1>4 DEF TaskStarts
  <2> QED  BY <1>0, <2>4, <2>5 DEF Ended
<1>5. ASSUME NEW u \in Tasks, NEW o \in Ended, TaskEnds(u, o)
      PROVE  /\ status[t] # "none" => status'[t] # "none"
             /\ status[t] \in Ended => status'[t] = status[t]
  BY <1>0, <1>5 DEF TaskEnds, Ended
<1>6. ASSUME NEW u \in Tasks, CancelTask(u)
      PROVE  /\ status[t] # "none" => status'[t] # "none"
             /\ status[t] \in Ended => status'[t] = status[t]
  BY <1>0, <1>6 DEF CancelTask, Cancellable, Ended
<1>7. ASSUME \/ RoundOutsideWindow \/ RoundInWindow \/ SleepEnds \/ IdleRoundPasses
             \/ StopBegins \/ StopEnds \/ Initialize \/ UNCHANGED vars
             \/ \E old \in SUBSET history : CleanupHistory(old)
             \/ \E c \in Callers : RunRefused(c) \/ PollReturns(c) \/ PollTimesOut(c)
      PROVE  status' = status
  BY <1>7 DEF RoundOutsideWindow, RoundInWindow, SleepEnds, IdleRoundPasses, StopBegins,
              StopEnds, Initialize, CleanupHistory, RunRefused, PollReturns,
              PollTimesOut, vars, taskVars
<1> QED  BY <1>1, <1>2, <1>3, <1>4, <1>5, <1>6, <1>7 DEF Next

\* Neither a late cancellation nor a late end changes what run_maintenance
\* answered about a task.
THEOREM EndedTasksStay == Spec => EndedIsFinal
<1>1. IInv /\ [Next]_vars
        => [\A t \in Tasks : status[t] \in Ended => status'[t] = status[t]]_vars
  BY StatusStep
<1> QED  BY <1>1, Invariance, PTL DEF Spec, EndedIsFinal

-----------------------------------------------------------------------------
(* Places in the queue *)

\* The scheduler has a task of this round still to take unless it sleeps.
Ahead == IF scheduler = "sleeping" THEN 0 ELSE 1

\* A call the scheduler has served all along is one whose task was at most
\* that many rounds behind when it was scheduled.
OnTime(c) ==
  served[c].up =>
    /\ c \in Polling /\ scheduler \in Up
    /\ \A i \in DOMAIN queue :
         queue[i] = call[c].task => i + call[c].elapsed <= served[c].place + Ahead

\* What a call waits for was scheduled.
Asked(c) == c \in Polling => call[c].task \in Scheduled

PlaceInv == IInv /\ \A c \in Callers : Asked(c) /\ OnTime(c)

\* One task leaves the queue, from its head.
LEMMA ProcessQueueAdvances ==
  ASSUME NEW q \in Seq(Tasks), ProcessQueue(q), NEW i \in DOMAIN queue'
  PROVE  i \in Nat /\ i + 1 \in DOMAIN q /\ queue'[i] = q[i + 1]
<1>1. CASE q = <<>>
  BY <1>1 DEF ProcessQueue
<1>2. CASE q # <<>>
  <2>1. queue' = Tail(q)
    BY <1>2 DEF ProcessQueue, PopQueue
  <2>2. /\ Len(q) \in Nat \ {0} /\ DOMAIN q = 1 .. Len(q)
        /\ DOMAIN Tail(q) = 1 .. Len(q) - 1
        /\ \A j \in 1 .. Len(q) - 1 : Tail(q)[j] = q[j + 1]
    BY <1>2, LenProperties, HeadTailProperties, EmptySeq
  <2> QED  BY <2>1, <2>2
<1> QED  BY <1>1, <1>2

\* New tasks do not overtake the ones that were scheduled.
LEMMA ScheduleKeepsPlaces ==
  ASSUME TypeOK, NEW n \in Seq(Tasks), ToSet(n) \subseteq Fresh,
         NEW i \in DOMAIN (queue \o n), (queue \o n)[i] \in Scheduled
  PROVE  i \in DOMAIN queue /\ (queue \o n)[i] = queue[i]
<1>1. /\ queue \in Seq(Tasks)
      /\ Len(queue) \in Nat /\ DOMAIN queue = 1 .. Len(queue)
      /\ Len(n) \in Nat /\ DOMAIN n = 1 .. Len(n)
  BY LenProperties DEF TypeOK
<1>2. /\ DOMAIN (queue \o n) = 1 .. Len(queue) + Len(n)
      /\ (queue \o n)[i] = IF i <= Len(queue) THEN queue[i] ELSE n[i - Len(queue)]
  BY <1>1, ConcatProperties, LenProperties
<1>3. ASSUME i > Len(queue) PROVE FALSE
  <2>1. i - Len(queue) \in DOMAIN n
    BY <1>1, <1>2, <1>3
  <2>2. n[i - Len(queue)] \in Fresh
    BY <2>1 DEF ToSet
  <2> QED  BY <1>1, <1>2, <1>3, <2>2 DEF Fresh
<1> QED  BY <1>1, <1>2, <1>3

\* A round that is over has moved every task by one.
LEMMA RoundOnTime ==
  ASSUME PlaceInv, IInv', NEW n \in Seq(Tasks), ToSet(n) \subseteq Fresh,
         scheduler \in {"begin", "analysing"}, scheduler' = "sleeping",
         ProcessQueue(queue \o n), UNCHANGED callVars, NEW c \in Callers
  PROVE  OnTime(c)'
<1> SUFFICES ASSUME served[c].up PROVE OnTime(c)'
  BY DEF OnTime, callVars
<1>1. c \in Polling /\ call[c].task \in Scheduled
  BY DEF PlaceInv, OnTime, Asked
<1>2. /\ queue \in Seq(Tasks) /\ queue \o n \in Seq(Tasks)
      /\ call[c].elapsed \in Nat /\ served[c].place \in Nat
  BY MaintenanceAssumption, ConcatProperties DEF PlaceInv, IInv, TypeOK
<1>3. ASSUME NEW i \in DOMAIN queue', queue'[i] = call[c].task
      PROVE  i + call[c].elapsed <= served[c].place
  <2>1. i \in Nat /\ i + 1 \in DOMAIN (queue \o n) /\ queue'[i] = (queue \o n)[i + 1]
    BY <1>2, ProcessQueueAdvances
  <2>2. i + 1 \in DOMAIN queue /\ queue[i + 1] = call[c].task
    BY <1>1, <1>3, <2>1, ScheduleKeepsPlaces DEF PlaceInv, IInv
  <2>3. (i + 1) + call[c].elapsed <= served[c].place + 1
    BY <2>2 DEF PlaceInv, OnTime, Ahead
  <2> QED  BY <1>2, <2>1, <2>3, SMTT(20)
<1> QED  BY <1>1, <1>2, <1>3 DEF OnTime, Ahead, Up, callVars, Polling

\* Steps that leave the queue and the calls alone.
LEMMA PlacesUntouched ==
  ASSUME PlaceInv, UNCHANGED <<queue, call, served>>,
         scheduler \in Up => scheduler' \in Up /\ Ahead' >= Ahead, NEW c \in Callers
  PROVE  OnTime(c)'
<1> SUFFICES ASSUME served[c].up,
                    NEW i \in DOMAIN queue, queue[i] = call[c].task
             PROVE  i + call[c].elapsed <= served[c].place + Ahead'
  BY DEF PlaceInv, OnTime, Polling
<1>1. i + call[c].elapsed <= served[c].place + Ahead /\ Ahead' >= Ahead
  BY DEF PlaceInv, OnTime
<1>2. /\ i \in Nat /\ call[c].elapsed \in Nat /\ served[c].place \in Nat
      /\ Ahead \in Nat /\ Ahead' \in Nat
  BY MaintenanceAssumption, LenProperties DEF PlaceInv, IInv, TypeOK, Ahead
<1> QED  BY <1>1, <1>2

LEMMA RunOnTime ==
  ASSUME PlaceInv, NEW d \in Callers, RunMaintenance(d), NEW c \in Callers
  PROVE  OnTime(c)'
<1> DEFINE t == NewId(Fresh)
<1>1. t \in Fresh /\ t \in Tasks
  BY NewIdIsFresh DEF RunMaintenance, Fresh
<1>2. <<t>> \in Seq(Tasks) /\ ToSet(<<t>>) = {t} /\ queue' = queue \o <<t>>
  BY <1>1 DEF RunMaintenance, Schedule, ToSet
<1>3. /\ call' = [call EXCEPT ![d] = [pc |-> "polling", task |-> t, elapsed |-> 0]]
      /\ served' = IF scheduler = "stopping" THEN served
                   ELSE [served EXCEPT ![d] = [place |-> Len(queue) + 1, up |-> TRUE]]
      /\ scheduler' = IF scheduler = None THEN "begin" ELSE scheduler
      /\ call[d].pc = "idle"
  BY DEF RunMaintenance, EnsureScheduler
<1>4. /\ TypeOK /\ queue \in Seq(Tasks) /\ Len(queue) \in Nat
      /\ DOMAIN queue = 1 .. Len(queue)
      /\ call \in [Callers -> [pc : {"idle", "polling"}, task : Tasks \cup {None},
                               elapsed : 0 .. Patience]]
      /\ served \in [Callers -> [place : Nat, up : BOOLEAN]]
  BY LenProperties DEF PlaceInv, IInv, TypeOK
<1>5. /\ DOMAIN (queue \o <<t>>) = 1 .. Len(queue) + 1
      /\ \A i \in 1 .. Len(queue) : (queue \o <<t>>)[i] = queue[i]
  BY <1>2, <1>4, ConcatProperties, LenProperties
<1>6. CASE c = d
  <2>1. ~ served[d].up
    BY <1>3 DEF PlaceInv, OnTime, Polling
  <2>2. CASE scheduler = "stopping"
    BY <1>3, <1>6, <2>1, <2>2 DEF OnTime
  <2>3. CASE scheduler # "stopping"
    <3>1. /\ scheduler' \in Up /\ Ahead' \in Nat
          /\ call'[c].pc = "polling" /\ call'[c].elapsed = 0
          /\ served'[c].place = Len(queue) + 1
      BY <1>3, <1>4, <1>6, <2>3 DEF PlaceInv, IInv, TypeOK, Up, None, Ahead
    <3>2. \A i \in DOMAIN queue' : i + call'[c].elapsed <= served'[c].place + Ahead'
      BY <1>2, <1>4, <1>5, <3>1
    <3> QED  BY <3>1, <3>2 DEF OnTime, Polling
  <2> QED  BY <2>2, <2>3
<1>7. CASE c # d
  <2> SUFFICES ASSUME served[c].up
               PROVE  OnTime(c)'
    BY <1>3, <1>4, <1>7 DEF OnTime
  <2>1. call'[c] = call[c] /\ served'[c] = served[c]
    BY <1>3, <1>4, <1>7
  <2>2. c \in Polling /\ call[c].task \in Scheduled /\ scheduler \in Up
    BY DEF PlaceInv, OnTime, Asked
  <2>3. scheduler' = scheduler
    BY <1>3, <2>2 DEF Up, None
  <2>4. ASSUME NEW i \in DOMAIN queue', queue'[i] = call[c].task
        PROVE  i + call[c].elapsed <= served[c].place + Ahead
    <3>1. i \in DOMAIN queue /\ queue[i] = call[c].task
      BY <1>1, <1>2, <1>4, <2>2, <2>4, ScheduleKeepsPlaces
    <3> QED  BY <3>1 DEF PlaceInv, OnTime
  <2> QED  BY <2>1, <2>2, <2>3, <2>4 DEF OnTime, Polling, Ahead
<1> QED  BY <1>6, <1>7

\* A round more has passed, and the scheduler is about to take a task.
LEMMA SleepOnTime ==
  ASSUME PlaceInv, SleepEnds \/ IdleRoundPasses, NEW c \in Callers
  PROVE  OnTime(c)'
<1>1. /\ RoundPasses /\ queue' = queue /\ served' = served
      /\ call \in [Callers -> [pc : {"idle", "polling"}, task : Tasks \cup {None},
                               elapsed : 0 .. Patience]]
      /\ served \in [Callers -> [place : Nat, up : BOOLEAN]] /\ queue \in Seq(Tasks)
  BY DEF SleepEnds, IdleRoundPasses, taskVars, PlaceInv, IInv, TypeOK
<1> SUFFICES ASSUME served[c].up PROVE OnTime(c)'
  BY <1>1 DEF OnTime
<1>2. c \in Polling /\ scheduler \in Up
  BY DEF PlaceInv, OnTime
<1>3. scheduler = "sleeping" /\ scheduler' = "begin"
  BY <1>2 DEF SleepEnds, IdleRoundPasses, Up, None
<1>4. /\ call'[c].pc = call[c].pc /\ call'[c].task = call[c].task
      /\ call'[c].elapsed <= call[c].elapsed + 1 /\ call'[c].elapsed \in Nat
  <2>1. call'[c] = IF c \in Polling /\ call[c].elapsed < Patience
                   THEN [call[c] EXCEPT !.elapsed = @ + 1] ELSE call[c]
    BY <1>1 DEF RoundPasses
  <2>2. call[c] \in [pc : {"idle", "polling"}, task : Tasks \cup {None},
                     elapsed : 0 .. Patience]
    BY <1>1
  <2> QED  BY <2>1, <2>2, MaintenanceAssumption
<1>5. ASSUME NEW i \in DOMAIN queue, queue[i] = call[c].task
      PROVE  i + call'[c].elapsed <= served[c].place + 1
  <2>1. i + call[c].elapsed <= served[c].place + 0
    BY <1>3, <1>5 DEF PlaceInv, OnTime, Ahead
  <2>2. i \in Nat /\ call[c].elapsed \in Nat /\ served[c].place \in Nat
    BY <1>1, MaintenanceAssumption, LenProperties
  <2> QED  BY <1>4, <2>1, <2>2
<1> QED  BY <1>1, <1>2, <1>3, <1>4, <1>5 DEF OnTime, Polling, Ahead, Up

LEMMA StepOnTime ==
  ASSUME PlaceInv, IInv', [Next]_vars, NEW c \in Callers
  PROVE  OnTime(c)'
<1> USE DEF LoopStep, TaskStep, CallStep, ClientStep
<1>0. TypeOK
  BY DEF PlaceInv, IInv
<1>1. ASSUME RoundOutsideWindow PROVE OnTime(c)'
  <2>1. /\ <<>> \in Seq(Tasks) /\ ToSet(<<>>) \subseteq Fresh /\ queue \o <<>> = queue
    BY <1>0, ConcatEmptySeq, EmptySeq DEF ToSet, TypeOK
  <2>2. ProcessQueue(queue \o <<>>)
    BY <1>1, <2>1 DEF RoundOutsideWindow
  <2> QED  BY <1>1, <2>1, <2>2, RoundOnTime DEF RoundOutsideWindow
<1>2. ASSUME NEW needs \in SUBSET Fresh, AnalysisReturns(needs) PROVE OnTime(c)'
  <2> DEFINE n == SetToSeq(needs)
  <2>1. IsFiniteSet(needs) /\ needs \subseteq Tasks
    BY MaintenanceAssumption, FS_Subset DEF Fresh
  <2>2. n \in Seq(Tasks) /\ ToSet(n) \subseteq Fresh
    BY <2>1, EnumerationOfFinite, SeqMonotonic
  <2>3. ProcessQueue(queue \o n)
    BY <1>2 DEF AnalysisReturns, Schedule
  <2> HIDE DEF n
  <2> QED  BY <1>2, <2>2, <2>3, RoundOnTime DEF AnalysisReturns
<1>3. ASSUME SleepEnds \/ IdleRoundPasses PROVE OnTime(c)'
  BY <1>3, SleepOnTime
<1>4. ASSUME NEW d \in Callers, RunMaintenance(d) PROVE OnTime(c)'
  BY <1>4, RunOnTime
<1>5. ASSUME StopBegins PROVE OnTime(c)'
  BY <1>5 DEF StopBegins, NotServed, OnTime
<1>6. ASSUME NEW d \in Callers, PollReturns(d) \/ PollTimesOut(d) PROVE OnTime(c)'
  <2>1. CallEnds(d) /\ UNCHANGED <<scheduler, queue>>
    BY <1>6 DEF PollReturns, PollTimesOut, taskVars
  <2>2. CASE c = d
    <3>1. ~ served'[c].up
      BY <1>0, <2>1, <2>2 DEF CallEnds, NotServed, TypeOK
    <3> QED  BY <3>1 DEF OnTime
  <2>3. CASE c # d
    <3>1. call'[c] = call[c] /\ served'[c] = served[c]
      BY <1>0, <2>1, <2>3 DEF CallEnds, TypeOK
    <3>2. OnTime(c)
      BY DEF PlaceInv
    <3> QED  BY <2>1, <3>1, <3>2 DEF OnTime, Polling, Ahead
  <2> QED  BY <2>2, <2>3
<1>7. ASSUME \/ RoundInWindow \/ StopEnds \/ Initialize \/ TaskStarts \/ UNCHANGED vars
             \/ \E t \in Tasks, o \in Ended : TaskEnds(t, o)
             \/ \E t \in Tasks : CancelTask(t)
             \/ \E old \in SUBSET history : CleanupHistory(old)
             \/ \E d \in Callers : RunRefused(d)
      PROVE  OnTime(c)'
  <2>1. /\ UNCHANGED <<queue, call, served>>
        /\ \/ scheduler' = scheduler
           \/ scheduler = "begin" /\ scheduler' = "analysing"
           \/ scheduler \in {"stopping", None}
    BY <1>7 DEF RoundInWindow, StopEnds, Initialize, TaskStarts, TaskEnds, CancelTask,
                CleanupHistory, RunRefused, EnsureScheduler, vars, taskVars, callVars
  <2>2. scheduler \in Up => scheduler' \in Up /\ Ahead' >= Ahead
    BY <2>1 DEF Up, None, Ahead
  <2> QED  BY <2>1, <2>2, PlacesUntouched
<1> QED  BY <1>1, <1>2, <1>3, <1>4, <1>5, <1>6, <1>7 DEF Next

\* What a call polls for was scheduled, and stays so.
LEMMA StepAsked ==
  ASSUME PlaceInv, [Next]_vars, NEW c \in Callers
  PROVE  Asked(c)'
<1> USE DEF LoopStep, TaskStep, CallStep, ClientStep
<1>0. /\ IInv /\ Asked(c)
      /\ call \in [Callers -> [pc : {"idle", "polling"}, task : Tasks \cup {None},
                               elapsed : 0 .. Patience]]
  BY DEF PlaceInv, IInv, TypeOK
<1>1. Scheduled \subseteq Scheduled'
  BY <1>0, StatusStep DEF Scheduled
<1>2. ASSUME c \in Polling' => c \in Polling /\ call'[c].task = call[c].task
      PROVE  Asked(c)'
  BY <1>0, <1>1, <1>2 DEF Asked
<1>3. ASSUME NEW d \in Callers, RunMaintenance(d) PROVE Asked(c)'
  <2>1. NewId(Fresh) \in Tasks
    BY <1>3, NewIdIsFresh DEF RunMaintenance, Fresh
  <2>2. CASE c = d
    <3>1. call'[c].task = NewId(Fresh) /\ status'[NewId(Fresh)] = "pending"
      BY <1>0, <1>3, <2>1, <2>2 DEF RunMaintenance, SchedulePending
    <3> QED  BY <2>1, <3>1 DEF Asked, Scheduled
  <2>3. CASE c # d
    <3>1. call'[c] = call[c]
      BY <1>0, <1>3, <2>3 DEF RunMaintenance
    <3> QED  BY <1>2, <3>1 DEF Polling
  <2> QED  BY <2>2, <2>3
<1>4. ASSUME NEW d \in Callers, PollReturns(d) \/ PollTimesOut(d) PROVE Asked(c)'
  <2>1. call' = [call EXCEPT ![d] = NewCall]
    BY <1>4 DEF PollReturns, PollTimesOut, CallEnds
  <2>2. CASE c = d
    <3>1. call'[c].pc = "idle"
      BY <1>0, <2>1, <2>2 DEF NewCall
    <3> QED  BY <3>1 DEF Asked, Polling
  <2>3. CASE c # d
    <3>1. call'[c] = call[c]
      BY <1>0, <2>1, <2>3
    <3> QED  BY <1>2, <3>1 DEF Polling
  <2> QED  BY <2>2, <2>3
<1>5. ASSUME SleepEnds \/ IdleRoundPasses PROVE Asked(c)'
  <2>1. call'[c] = IF c \in Polling /\ call[c].elapsed < Patience
                   THEN [call[c] EXCEPT !.elapsed = @ + 1] ELSE call[c]
    BY <1>5 DEF SleepEnds, IdleRoundPasses, RoundPasses
  <2>2. call'[c].pc = call[c].pc /\ call'[c].task = call[c].task
    BY <1>0, <2>1
  <2> QED  BY <1>2, <2>2 DEF Polling
<1>6. ASSUME \/ RoundOutsideWindow \/ RoundInWindow \/ StopBegins \/ StopEnds
             \/ Initialize \/ TaskStarts \/ UNCHANGED vars
             \/ \E needs \in SUBSET Fresh : AnalysisReturns(needs)
             \/ \E t \in Tasks, o \in Ended : TaskEnds(t, o)
             \/ \E t \in Tasks : CancelTask(t)
             \/ \E old \in SUBSET history : CleanupHistory(old)
             \/ \E d \in Callers : RunRefused(d)
      PROVE  call' = call
  BY <1>6 DEF RoundOutsideWindow, RoundInWindow, StopBegins, StopEnds, Initialize,
              TaskStarts, AnalysisReturns, TaskEnds, CancelTask, CleanupHistory,
              RunRefused, vars, callVars
<1>7. ASSUME call' = call PROVE Asked(c)'
  BY <1>2, <1>7 DEF Polling
<1> QED  BY <1>3, <1>4, <1>5, <1>6, <1>7 DEF Next

LEMMA InitPlaceInv == ASSUME Init PROVE PlaceInv
<1>1. IInv
  BY InitInv
<1>2. ASSUME NEW c \in Callers PROVE Asked(c) /\ OnTime(c)
  BY DEF Init, NewCall, NotServed, Asked, OnTime, Polling
<1> QED  BY <1>1, <1>2 DEF PlaceInv

LEMMA StepPlaceInv == ASSUME PlaceInv, [Next]_vars PROVE PlaceInv'
<1>1. IInv'
  BY StepInv DEF PlaceInv
<1> QED  BY <1>1, StepAsked, StepOnTime DEF PlaceInv

\* While the scheduler stays up, a task waits for as many rounds as there were
\* tasks before it, for any queue and any number of callers: nothing that is
\* scheduled later overtakes it.
THEOREM MaintenanceInOrder == Spec => []QueueAdvances
<1>1. PlaceInv => QueueAdvances
  <2> SUFFICES ASSUME PlaceInv, NEW c \in Polling, served[c].up,
                      NEW i \in DOMAIN queue, queue[i] = call[c].task
               PROVE  i + call[c].elapsed <= served[c].place + 1
    BY DEF QueueAdvances
  <2>1. i + call[c].elapsed <= served[c].place + Ahead
    BY DEF PlaceInv, OnTime, Polling
  <2>2. /\ i \in Nat /\ call[c].elapsed \in Nat /\ served[c].place \in Nat
        /\ Ahead \in {0, 1}
    BY MaintenanceAssumption, LenProperties DEF PlaceInv, IInv, TypeOK, Polling, Ahead
  <2> QED  BY <2>1, <2>2
<1>2. Init => PlaceInv
  BY InitPlaceInv
<1>3. PlaceInv /\ [Next]_vars => PlaceInv'
  BY StepPlaceInv
<1> QED  BY <1>1, <1>2, <1>3, PTL DEF Spec
=============================================================================
