------------------------- MODULE RateLimiterProofs -------------------------
(***************************************************************************)
(* Proofs about RateLimiter, for any keys, limits, windows and costs, any  *)
(* number of checks at a time, and any bounds of clocks and delays.        *)
(***************************************************************************)
EXTENDS RateLimiter, FiniteSetTheorems, TLAPS

\* The script runs within MaxDelay of the reading of a clock that is right or
\* ahead.
StampsAreClose ==
  \A c \in Checks :
    UnderWay(c) => clock - MaxDelay <= stamp[c] /\ stamp[c] <= clock + MaxAhead

\* A score is not long before the time the member was added.
ScoresAreClose ==
  \A k \in Keys : \A u \in units[k] : u.ran <= clock /\ u.ran - MaxDelay <= u.at

Recent(k) == AddedWithin(k, Window[k] - Slack)

\* Nothing recent has been pruned or has expired.
RecentAreStored ==
  \A k \in Keys : \A u \in Recent(k) :
    Member(u) \in zset[k] /\ u.ran + Window[k] <= expires[k]

\* A member is not added again as long as it is there.
RecentAreDistinct ==
  \A k \in Keys : \A u, v \in Recent(k) : Member(u) = Member(v) => u = v

StoredAreFew ==
  \A k \in Keys : IsFiniteSet(zset[k]) /\ Cardinality(zset[k]) <= Limit[k]

IInv ==
  /\ TypeOK /\ StampsAreClose /\ ScoresAreClose
  /\ RecentAreStored /\ RecentAreDistinct /\ StoredAreFew

-----------------------------------------------------------------------------
(* What the script leaves *)

\* The members of one request are finitely many.
LEMMA MembersFinite ==
  ASSUME NEW now \in Int, NEW cost \in Nat \ {0}, NEW M \in Members(now, cost)
  PROVE  /\ M \in SUBSET Entries /\ IsFiniteSet(M)
         /\ Cardinality(M) \in Nat /\ Cardinality(M) <= cost
         /\ \A e \in M : e.at = now
<1> DEFINE All == [at : {now}, n : Draws]
           f == [d \in Draws |-> [at |-> now, n |-> d]]
<1>1. \A e \in All : e = [at |-> now, n |-> e.n] /\ e.n \in Draws /\ e.at = now
  OBVIOUS
<1>2. f \in Surjection(Draws, All)
  <2>1. f \in [Draws -> All]
    OBVIOUS
  <2>2. \A e \in All : \E d \in Draws : f[d] = e
    BY <1>1
  <2>3. QED
    BY <2>1, <2>2 DEF Surjection
<1>3. IsFiniteSet(All)
  BY <1>2, FS_Surjection, RateAssumption
<1>4. M \in SUBSET All /\ Cardinality(M) <= cost
  BY DEF Members
<1>5. IsFiniteSet(M) /\ Cardinality(M) \in Nat
  BY <1>3, <1>4, FS_Subset, FS_CardinalityType
<1>6. M \in SUBSET Entries
  BY <1>4 DEF Entries
<1>7. QED
  BY <1>1, <1>4, <1>5, <1>6

\* Pruning leaves no more members, and every one that is recent.
LEMMA KeptFew ==
  ASSUME IInv, NEW k \in Keys, NEW now \in Int
  PROVE  /\ Kept(k, now) \in SUBSET Entries /\ IsFiniteSet(Kept(k, now))
         /\ Cardinality(Kept(k, now)) \in Nat
         /\ Cardinality(Kept(k, now)) <= Limit[k]
<1>1. zset[k] \in SUBSET Entries /\ Kept(k, now) \in SUBSET zset[k]
  BY DEF IInv, TypeOK, Kept
<1>2. /\ IsFiniteSet(Kept(k, now))
      /\ Cardinality(Kept(k, now)) <= Cardinality(zset[k])
  BY <1>1, FS_Subset DEF IInv, StoredAreFew
<1>3. /\ Cardinality(Kept(k, now)) \in Nat /\ Cardinality(zset[k]) \in Nat
      /\ Limit[k] \in Nat
  BY <1>2, FS_CardinalityType, RateAssumption DEF IInv, StoredAreFew
<1>4. QED
  BY <1>1, <1>2, <1>3 DEF IInv, StoredAreFew

LEMMA RecentAreKept ==
  ASSUME IInv, NEW k \in Keys, NEW u \in Recent(k),
         NEW now \in Int, now <= clock + MaxAhead
  PROVE  Member(u) \in Kept(k, now)
<1>1. /\ u \in units[k] /\ u.ran > clock - (Window[k] - Slack)
      /\ u.ran \in Int /\ u.at \in Int /\ Member(u).at = u.at
  BY DEF IInv, TypeOK, Recent, AddedWithin, Units, Member
<1>2. u.ran - MaxDelay <= u.at /\ Member(u) \in zset[k]
  BY <1>1 DEF IInv, ScoresAreClose, RecentAreStored
<1>3. u.at > now - Window[k]
  BY <1>1, <1>2, RateAssumption DEF Slack, IInv, TypeOK
<1>4. QED
  BY <1>1, <1>2, <1>3 DEF Kept

-----------------------------------------------------------------------------
(* Steps of the script *)

DataTypes ==
  /\ zset \in [Keys -> SUBSET Entries] /\ expires \in [Keys -> Nat]
  /\ units \in [Keys -> SUBSET Units]

DataInv ==
  /\ DataTypes /\ ScoresAreClose
  /\ RecentAreStored /\ RecentAreDistinct /\ StoredAreFew

CheckTypes ==
  /\ pc \in [Checks -> Labels] /\ ask \in [Checks -> Asks \cup {None}]
  /\ stamp \in [Checks -> Int]
  /\ \A c \in Checks : ask[c] # None <=> UnderWay(c)

LEMMA ScriptTypes ==
  ASSUME IInv, NEW c \in Checks, UnderWay(c)
  PROVE  /\ Key(c) \in Keys /\ ask[c].cost \in Nat \ {0}
         /\ stamp[c] \in Int /\ stamp[c] <= clock + MaxAhead
         /\ clock - MaxDelay <= stamp[c]
<1>1. ask[c] \in Asks
  BY DEF IInv, TypeOK
<1>2. QED
  BY <1>1, RateAssumption DEF IInv, TypeOK, StampsAreClose, Key

LEMMA Numbers ==
  ASSUME IInv, NEW k \in Keys
  PROVE  clock \in Nat /\ Window[k] \in Nat \ {0} /\ Limit[k] \in Nat
<1>1. clock \in 0..MaxTime
  BY DEF IInv, TypeOK
<1>2. QED
  BY <1>1, RateAssumption

LEMMA RefusalKeeps ==
  ASSUME IInv, NEW c \in Checks, UnderWay(c), Refuses(c), UNCHANGED clock
  PROVE  DataInv'
<1> DEFINE k == Key(c)
           now == stamp[c]
<1>1. k \in Keys /\ now \in Int /\ now <= clock + MaxAhead
  BY ScriptTypes
<1>2. zset' = [zset EXCEPT ![k] = Kept(k, now)] /\ UNCHANGED <<expires, units>>
  BY DEF Refuses
<1> HIDE DEF k, now
<1>3. /\ Kept(k, now) \in SUBSET Entries /\ IsFiniteSet(Kept(k, now))
      /\ Cardinality(Kept(k, now)) <= Limit[k]
  BY <1>1, KeptFew
<1>4. DataTypes' /\ StoredAreFew'
  BY <1>1, <1>2, <1>3 DEF IInv, TypeOK, DataTypes, StoredAreFew
<1>5. \A j \in Keys : Recent(j)' = Recent(j)
  BY <1>2 DEF Recent, AddedWithin
<1>6. RecentAreStored'
  <2> SUFFICES ASSUME NEW j \in Keys, NEW u \in Recent(j)
               PROVE  Member(u) \in zset'[j]
    BY <1>2, <1>5 DEF RecentAreStored, IInv, Member
  <2>1. CASE j = k
    BY <2>1, <1>1, <1>2, RecentAreKept DEF IInv, TypeOK
  <2>2. CASE j # k
    BY <2>2, <1>1, <1>2 DEF IInv, TypeOK, RecentAreStored
  <2>3. QED
    BY <2>1, <2>2
<1>7. RecentAreDistinct' /\ ScoresAreClose'
  BY <1>2, <1>5 DEF IInv, RecentAreDistinct, ScoresAreClose, Member
<1>8. QED
  BY <1>4, <1>6, <1>7 DEF DataInv

\* What the script adds, for any key, time and members.
LEMMA AdditionKeeps ==
  ASSUME IInv, UNCHANGED clock,
         NEW k \in Keys, NEW now \in Int, now <= clock + MaxAhead,
         clock - MaxDelay <= now,
         NEW cost \in Nat \ {0}, NEW M \in Members(now, cost),
         ~ Exceeds(k, now, cost),
         zset' = [zset EXCEPT ![k] = Kept(k, now) \cup M],
         units' = [units EXCEPT ![k] = @ \cup
           {[at |-> e.at, n |-> e.n, ran |-> clock] : e \in M \ Kept(k, now)}],
         expires' = [expires EXCEPT ![k] = clock + Window[k]]
  PROVE  DataInv'
<1> DEFINE kept == Kept(k, now)
<1>1. /\ k \in Keys /\ now \in Int /\ now <= clock + MaxAhead
      /\ clock - MaxDelay <= now /\ cost \in Nat \ {0}
  OBVIOUS
<1>2. /\ zset' = [zset EXCEPT ![k] = kept \cup M]
      /\ units' = [units EXCEPT ![k] = @ \cup
             {[at |-> e.at, n |-> e.n, ran |-> clock] : e \in M \ kept}]
  OBVIOUS
<1>3. ~ (Cardinality(kept) + cost > Limit[k])
  BY DEF Exceeds
<1>4. expires' = [expires EXCEPT ![k] = clock + Window[k]]
  OBVIOUS
<1> DEFINE added == {[at |-> e.at, n |-> e.n, ran |-> clock] : e \in M \ kept}
<1>a. \A u \in Recent(k) : Member(u) \in kept
  BY <1>1, RecentAreKept
<1>b. /\ kept \in SUBSET Entries /\ IsFiniteSet(kept)
      /\ Cardinality(kept) \in Nat
  BY <1>1, KeptFew
<1> HIDE DEF kept
<1>5. /\ M \in SUBSET Entries /\ IsFiniteSet(M) /\ Cardinality(M) \in Nat
      /\ Cardinality(M) <= cost /\ \A e \in M : e.at = now
  BY <1>1, MembersFinite
<1>6. clock \in Nat /\ Window[k] \in Nat \ {0} /\ Limit[k] \in Nat
  BY Numbers
<1>7. \A u \in added : /\ u \in Units /\ Member(u) \in M \ kept
                       /\ u.ran = clock /\ u.at = now
  BY <1>5, <1>6 DEF Member, Units, Entries
<1>8. \A u, v \in added : Member(u) = Member(v) => u = v
  BY DEF Member
<1>9. DataTypes'
  BY <1>1, <1>2, <1>4, <1>5, <1>6, <1>7, <1>b DEF IInv, TypeOK, DataTypes
<1>10. StoredAreFew'
  <2>1. /\ IsFiniteSet(kept \cup M)
        /\ Cardinality(kept \cup M) \in Nat
        /\ Cardinality(kept \cup M) <= Cardinality(kept) + Cardinality(M)
    <3>1. /\ IsFiniteSet(kept \cup M) /\ IsFiniteSet(kept \cap M)
          /\ Cardinality(kept \cup M)
               = Cardinality(kept) + Cardinality(M) - Cardinality(kept \cap M)
      BY <1>5, <1>b, FS_Union, FS_Intersection
    <3>2. Cardinality(kept \cap M) \in Nat /\ Cardinality(kept \cup M) \in Nat
      BY <3>1, FS_CardinalityType
    <3>3. QED
      BY <3>1, <3>2, <1>5, <1>b
  <2>2. Cardinality(kept \cup M) <= Limit[k]
    BY <2>1, <1>1, <1>3, <1>5, <1>6, <1>b
  <2>3. QED
    BY <2>1, <2>2, <1>1, <1>2 DEF IInv, TypeOK, StoredAreFew
<1>11. ScoresAreClose'
  <2>1. \A u \in added : u.ran <= clock /\ u.ran - MaxDelay <= u.at
    BY <1>1, <1>6, <1>7, RateAssumption
  <2>2. QED
    BY <2>1, <1>1, <1>2 DEF IInv, TypeOK, ScoresAreClose
<1>12. /\ Recent(k)' \subseteq Recent(k) \cup added
       /\ \A j \in Keys : j # k => Recent(j)' = Recent(j)
  <2>1. units'[k] = units[k] \cup added
    BY <1>1, <1>2 DEF IInv, TypeOK
  <2>2. \A j \in Keys : j # k => units'[j] = units[j]
    BY <1>2 DEF IInv, TypeOK
  <2> HIDE DEF added
  <2>3. QED
    BY <2>1, <2>2 DEF Recent, AddedWithin
<1>13. RecentAreStored'
  <2> SUFFICES ASSUME NEW j \in Keys, NEW u \in Recent(j)'
               PROVE  Member(u) \in zset'[j] /\ u.ran + Window[j] <= expires'[j]
    BY DEF RecentAreStored, Member
  <2>1. CASE j # k
    <3>1. u \in Recent(j)
      BY <2>1, <1>12
    <3>2. zset'[j] = zset[j] /\ expires'[j] = expires[j]
      BY <2>1, <1>2, <1>4 DEF IInv, TypeOK
    <3>3. QED
      BY <3>1, <3>2 DEF IInv, RecentAreStored
  <2>2. CASE j = k
    <3>1. u \in Recent(k) \cup added
      BY <2>2, <1>12
    <3>2. Member(u) \in kept \cup M
      BY <3>1, <1>a, <1>7
    <3>3. u.ran \in Int /\ u.ran <= clock
      BY <3>1, <1>1, <1>6, <1>7
         DEF IInv, TypeOK, ScoresAreClose, Recent, AddedWithin, Units
    <3>4. QED
      BY <2>2, <3>2, <3>3, <1>1, <1>2, <1>4, <1>6 DEF IInv, TypeOK
  <2>3. QED
    BY <2>1, <2>2
<1>14. RecentAreDistinct'
  <2> SUFFICES ASSUME NEW j \in Keys, NEW u \in Recent(j)', NEW v \in Recent(j)',
                      Member(u) = Member(v)
               PROVE  u = v
    BY DEF RecentAreDistinct, Member
  <2>1. CASE j # k
    <3>1. u \in Recent(j) /\ v \in Recent(j)
      BY <2>1, <1>12
    <3>2. QED
      BY <3>1 DEF IInv, RecentAreDistinct
  <2>2. CASE j = k
    <3>1. u \in Recent(k) \cup added /\ v \in Recent(k) \cup added
      BY <2>2, <1>12
    <3>2. QED
      BY <3>1, <1>1, <1>7, <1>8, <1>a DEF IInv, RecentAreDistinct
  <2>3. QED
    BY <2>1, <2>2
<1>15. QED
  BY <1>9, <1>10, <1>11, <1>13, <1>14 DEF DataInv

LEMMA GrantKeeps ==
  ASSUME IInv, NEW c \in Checks, UnderWay(c), Grants(c), UNCHANGED clock
  PROVE  DataInv'
<1>1. /\ Key(c) \in Keys /\ ask[c].cost \in Nat \ {0}
      /\ stamp[c] \in Int /\ stamp[c] <= clock + MaxAhead
      /\ clock - MaxDelay <= stamp[c]
  BY ScriptTypes
<1>2. PICK k \in Keys, now \in Int, cost \in Nat \ {0} :
        k = Key(c) /\ now = stamp[c] /\ cost = ask[c].cost
  BY <1>1
<1>3. /\ ~ Exceeds(k, now, cost)
      /\ \E M \in Members(now, cost) :
           /\ zset' = [zset EXCEPT ![k] = Kept(k, now) \cup M]
           /\ units' = [units EXCEPT ![k] = @ \cup
                {[at |-> e.at, n |-> e.n, ran |-> clock] : e \in M \ Kept(k, now)}]
      /\ expires' = [expires EXCEPT ![k] = clock + Window[k]]
  BY <1>2 DEF Grants, ExpiresAt
<1>4. QED
  BY <1>1, <1>2, <1>3, AdditionKeeps

-----------------------------------------------------------------------------
(* The invariant *)

LEMMA InitIInv == Init => IInv
<1> SUFFICES ASSUME Init
             PROVE  IInv
  OBVIOUS
<1>1. TypeOK /\ StampsAreClose
  BY RateAssumption DEF Init, TypeOK, StampsAreClose, Labels, UnderWay, Entries, Units
<1>2. \A k \in Keys : units[k] = {} /\ zset[k] = {}
  BY DEF Init
<1>3. ScoresAreClose /\ RecentAreStored /\ RecentAreDistinct
  BY <1>2 DEF ScoresAreClose, RecentAreStored, RecentAreDistinct, Recent, AddedWithin
<1>4. StoredAreFew
  BY <1>2, FS_EmptySet, RateAssumption DEF StoredAreFew
<1>5. QED
  BY <1>1, <1>3, <1>4 DEF IInv

\* A step that touches a check only.
LEMMA ChecksKeep ==
  ASSUME IInv, NEW c \in Checks, NEW label \in Labels,
         Forgets(c, label), label \notin {"script", "resent"}
  PROVE  CheckTypes' /\ StampsAreClose'
  BY RateAssumption
     DEF IInv, TypeOK, Forgets, CheckTypes, StampsAreClose, UnderWay

LEMMA DataUnchanged ==
  ASSUME IInv, UNCHANGED <<clock, zset, expires, units>>
  PROVE  DataInv'
<1>1. \A k \in Keys : Recent(k)' = Recent(k)
  BY DEF Recent, AddedWithin
<1>2. RecentAreStored' /\ RecentAreDistinct'
  BY <1>1 DEF IInv, RecentAreStored, RecentAreDistinct, Member
<1>3. QED
  BY <1>2 DEF IInv, TypeOK, DataInv, DataTypes, ScoresAreClose, StoredAreFew

LEMMA ReadsClockKeeps ==
  ASSUME IInv, NEW c \in Checks, NEW q \in Asks, ReadsClock(c, q)
  PROVE  IInv'
<1>1. /\ pc' = [pc EXCEPT ![c] = "script"]
      /\ ask' = [ask EXCEPT ![c] = q]
      /\ stamp' = [stamp EXCEPT ![c] = clock + Ahead[q.process]]
      /\ UNCHANGED <<clock, zset, expires, units>>
  BY DEF ReadsClock, Now
<1>2. DataInv'
  BY <1>1, DataUnchanged
<1>3. /\ Ahead[q.process] \in Int /\ Ahead[q.process] <= MaxAhead
      /\ 0 <= Ahead[q.process]
  BY RateAssumption
<1>4. clock \in Int /\ MaxDelay \in Nat
  BY RateAssumption DEF IInv, TypeOK
<1>5. CheckTypes'
  BY <1>1, <1>3, <1>4, RateAssumption
     DEF IInv, TypeOK, CheckTypes, UnderWay, Labels
<1>6. StampsAreClose'
  BY <1>1, <1>3, <1>4, RateAssumption
     DEF IInv, TypeOK, StampsAreClose, UnderWay
<1>7. QED
  BY <1>1, <1>2, <1>5, <1>6 DEF IInv, DataInv, DataTypes, CheckTypes, TypeOK

LEMMA ScriptAnswersKeeps ==
  ASSUME IInv, NEW c \in Checks, ScriptAnswers(c)
  PROVE  IInv'
<1>1. UnderWay(c) /\ (Refuses(c) \/ Grants(c)) /\ UNCHANGED clock
  BY DEF ScriptAnswers, Forgets
<1>2. DataInv'
  BY <1>1, RefusalKeeps, GrantKeeps
<1>3. CheckTypes' /\ StampsAreClose'
  <2>1. PICK label \in {"granted", "refused"} : Forgets(c, label)
    BY DEF ScriptAnswers
  <2>2. label \in Labels /\ label \notin {"script", "resent"}
    BY DEF Labels
  <2>3. QED
    BY <2>1, <2>2, ChecksKeep
<1>4. QED
  BY <1>1, <1>2, <1>3 DEF IInv, DataInv, DataTypes, CheckTypes, TypeOK

LEMMA AnswerIsLateKeeps ==
  ASSUME IInv, NEW c \in Checks, AnswerIsLate(c)
  PROVE  IInv'
<1>1. /\ UnderWay(c) /\ (Refuses(c) \/ Grants(c))
      /\ UNCHANGED <<clock, ask, stamp>>
      /\ pc' = [pc EXCEPT ![c] = "resent"]
  BY DEF AnswerIsLate, UnderWay
<1>2. DataInv'
  BY <1>1, RefusalKeeps, GrantKeeps
<1>3. \A d \in Checks : UnderWay(d)' = UnderWay(d)
  BY <1>1 DEF IInv, TypeOK, UnderWay
<1>4. CheckTypes' /\ StampsAreClose'
  BY <1>1, <1>3 DEF IInv, TypeOK, CheckTypes, StampsAreClose, Labels
<1>5. QED
  BY <1>1, <1>2, <1>4 DEF IInv, DataInv, DataTypes, CheckTypes, TypeOK

LEMMA CheckEndsKeeps ==
  ASSUME IInv, NEW c \in Checks, CheckFails(c) \/ CheckEnds(c)
  PROVE  IInv'
<1>1. Forgets(c, "idle") /\ UNCHANGED <<clock, zset, expires, units>>
  BY DEF CheckFails, CheckEnds, Forgets
<1>2. "idle" \in Labels /\ "idle" \notin {"script", "resent"}
  BY DEF Labels
<1>3. DataInv' /\ CheckTypes' /\ StampsAreClose'
  BY <1>1, <1>2, DataUnchanged, ChecksKeep
<1>4. QED
  BY <1>1, <1>3 DEF IInv, DataInv, DataTypes, CheckTypes, TypeOK

\* A reset of one key, and the loss of all: nothing is left to be counted.
LEMMA LossKeeps ==
  ASSUME IInv, UNCHANGED <<clock, expires, check>>,
         NEW K \in SUBSET Keys,
         zset' = [k \in Keys |-> IF k \in K THEN {} ELSE zset[k]],
         units' = [k \in Keys |-> IF k \in K THEN {} ELSE units[k]]
  PROVE  IInv'
<1>1. CheckTypes' /\ StampsAreClose'
  BY DEF IInv, TypeOK, CheckTypes, StampsAreClose, UnderWay, check
<1>2. \A k \in Keys : /\ Recent(k)' \subseteq Recent(k)
                      /\ k \in K => Recent(k)' = {}
  BY DEF Recent, AddedWithin
<1>3. RecentAreStored' /\ RecentAreDistinct'
  BY <1>2 DEF IInv, RecentAreStored, RecentAreDistinct, Member
<1>4. DataTypes' /\ ScoresAreClose'
  BY DEF IInv, TypeOK, DataTypes, ScoresAreClose
<1>5. StoredAreFew'
  BY FS_EmptySet, RateAssumption DEF IInv, StoredAreFew
<1>6. QED
  BY <1>1, <1>3, <1>4, <1>5 DEF IInv, DataInv, DataTypes, CheckTypes, TypeOK

\* A key that expires has nothing recent: the window began after it was set.
LEMMA TickKeeps ==
  ASSUME IInv, Tick
  PROVE  IInv'
<1>1. clock \in Nat /\ clock' = clock + 1 /\ clock' \in 0..MaxTime
  BY RateAssumption DEF Tick, IInv, TypeOK
<1>2. UNCHANGED <<expires, pc, ask, stamp>>
  BY DEF Tick, check
<1>3. \A k \in Keys :
        /\ zset'[k] = IF expires[k] <= clock' THEN {} ELSE zset[k]
        /\ units'[k] \subseteq units[k]
  BY DEF Tick
<1>4. DataTypes' /\ CheckTypes'
  BY <1>2, <1>3 DEF Tick, IInv, TypeOK, DataTypes, CheckTypes, UnderWay
<1>5. StampsAreClose'
  <2> SUFFICES ASSUME NEW c \in Checks, UnderWay(c)
               PROVE  clock' - MaxDelay <= stamp[c] /\ stamp[c] <= clock' + MaxAhead
    BY <1>2 DEF StampsAreClose, UnderWay
  <2>1. ask[c] \in Asks /\ stamp[c] \in Int
    BY DEF IInv, TypeOK
  <2>2. Ahead[ask[c].process] \in Nat /\ MaxDelay \in Nat /\ MaxAhead \in Nat
    BY <2>1, RateAssumption
  <2>3. clock < stamp[c] - Ahead[ask[c].process] + MaxDelay
    BY DEF Tick
  <2>4. stamp[c] <= clock + MaxAhead
    BY DEF IInv, StampsAreClose
  <2>5. QED
    BY <2>1, <2>2, <2>3, <2>4, <1>1
<1>6. ScoresAreClose'
  <2> SUFFICES ASSUME NEW k \in Keys, NEW u \in units[k]
               PROVE  u.ran <= clock' /\ u.ran - MaxDelay <= u.at
    BY <1>3 DEF ScoresAreClose
  <2>1. u.ran \in Int
    BY DEF IInv, TypeOK, Units
  <2>2. QED
    BY <2>1, <1>1 DEF IInv, ScoresAreClose
<1>7. \A k \in Keys : \A u \in Recent(k)' :
        u \in Recent(k) /\ u.ran \in Int /\ clock' < u.ran + Window[k]
  <2> SUFFICES ASSUME NEW k \in Keys, NEW u \in units[k],
                      u.ran > clock' - (Window[k] - Slack)
               PROVE  u \in Recent(k) /\ u.ran \in Int /\ clock' < u.ran + Window[k]
    BY <1>3 DEF Recent, AddedWithin
  <2>1. u.ran \in Int
    BY DEF IInv, TypeOK, Units
  <2>2. Slack \in Nat /\ Window[k] \in Nat
    BY RateAssumption DEF Slack
  <2>3. QED
    BY <2>1, <2>2, <1>1 DEF Recent, AddedWithin
<1>8. RecentAreStored'
  <2> SUFFICES ASSUME NEW k \in Keys, NEW u \in Recent(k)'
               PROVE  Member(u) \in zset'[k] /\ u.ran + Window[k] <= expires[k]
    BY <1>2 DEF RecentAreStored, Member
  <2>1. /\ u.ran \in Int /\ clock' < u.ran + Window[k]
        /\ Member(u) \in zset[k] /\ u.ran + Window[k] <= expires[k]
    BY <1>7 DEF IInv, RecentAreStored
  <2>2. Window[k] \in Int /\ expires[k] \in Int
    BY RateAssumption DEF IInv, TypeOK
  <2>3. ~ (expires[k] <= clock')
    BY <2>1, <2>2, <1>1
  <2>4. QED
    BY <2>1, <2>3, <1>3
<1>9. RecentAreDistinct'
  BY <1>7 DEF IInv, RecentAreDistinct, Member
<1>10. StoredAreFew'
  BY <1>3, FS_EmptySet, RateAssumption DEF IInv, StoredAreFew
<1>11. QED
  BY <1>1, <1>4, <1>5, <1>6, <1>8, <1>9, <1>10
     DEF IInv, DataTypes, CheckTypes, TypeOK

LEMMA NextIInv == IInv /\ [Next]_vars => IInv'
<1> SUFFICES ASSUME IInv, [Next]_vars
             PROVE  IInv'
  OBVIOUS
<1>1. CASE \E c \in Checks : CheckStep(c)
  BY <1>1, ReadsClockKeeps, ScriptAnswersKeeps, AnswerIsLateKeeps, CheckEndsKeeps
     DEF CheckStep
<1>2. CASE \E k \in Keys : ResetRateLimit(k)
  <2>1. PICK k \in Keys : ResetRateLimit(k)
    BY <1>2
  <2>2. /\ zset' = [j \in Keys |-> IF j \in {k} THEN {} ELSE zset[j]]
        /\ units' = [j \in Keys |-> IF j \in {k} THEN {} ELSE units[j]]
        /\ UNCHANGED <<clock, expires, check>>
    BY <2>1 DEF ResetRateLimit, IInv, TypeOK
  <2>3. QED
    BY <2>2, LossKeeps
<1>3. CASE RedisLosesData
  <2>1. /\ zset' = [j \in Keys |-> IF j \in Keys THEN {} ELSE zset[j]]
        /\ units' = [j \in Keys |-> IF j \in Keys THEN {} ELSE units[j]]
        /\ UNCHANGED <<clock, expires, check>>
    BY <1>3 DEF RedisLosesData
  <2>2. QED
    BY <2>1, LossKeeps
<1>4. CASE Tick
  BY <1>4, TickKeeps
<1>5. CASE UNCHANGED vars
  <2>1. UNCHANGED <<clock, zset, expires, pc, ask, stamp, units>>
    BY <1>5 DEF vars, check
  <2>2. DataInv' /\ CheckTypes' /\ StampsAreClose'
    BY <2>1, DataUnchanged
       DEF CheckTypes, StampsAreClose, UnderWay, IInv, TypeOK
  <2>3. QED
    BY <2>1, <2>2 DEF IInv, DataInv, DataTypes, CheckTypes, TypeOK
<1>6. QED
  BY <1>1, <1>2, <1>3, <1>4, <1>5 DEF Next

-----------------------------------------------------------------------------
\* What was recently added is in the sorted set, each unit as a member of its
\* own.
LEMMA RecentAreFew ==
  ASSUME IInv, NEW k \in Keys
  PROVE  Cardinality(Recent(k)) <= Limit[k]
<1> DEFINE f == [u \in Recent(k) |-> Member(u)]
<1>1. f \in Injection(Recent(k), zset[k])
  <2>1. f \in [Recent(k) -> zset[k]]
    BY DEF IInv, RecentAreStored
  <2>2. \A u, v \in Recent(k) : f[u] = f[v] => u = v
    BY DEF IInv, RecentAreDistinct
  <2>3. QED
    BY <2>1, <2>2 DEF Injection, IsInjective
<1>2. IsFiniteSet(zset[k]) /\ Cardinality(zset[k]) <= Limit[k]
  BY DEF IInv, StoredAreFew
<1>3. IsFiniteSet(Recent(k)) /\ Cardinality(Recent(k)) <= Cardinality(zset[k])
  BY <1>1, <1>2, FS_Injection
<1>4. /\ Cardinality(Recent(k)) \in Nat /\ Cardinality(zset[k]) \in Nat
      /\ Limit[k] \in Nat
  BY <1>2, <1>3, FS_CardinalityType, RateAssumption
<1>5. QED
  BY <1>2, <1>3, <1>4

LEMMA IInvAlways == Spec => []IInv
  BY InitIInv, NextIInv, PTL DEF Spec

\* Every variable of the limiter keeps its type.
THEOREM LimiterTypeCorrect == Spec => []TypeOK
<1>1. IInv => TypeOK
  BY DEF IInv
<1>2. QED
  BY IInvAlways, <1>1, PTL

\* No sorted set ever holds more than its limit.
THEOREM StoredStaysWithinLimit == Spec => []StoredWithinLimit
<1>1. IInv => StoredWithinLimit
  BY DEF IInv, StoredAreFew, StoredWithinLimit
<1>2. QED
  BY IInvAlways, <1>1, PTL

\* In any window of real time, less the slack of clocks and delays, at most
\* the limit is added to a key.
THEOREM WindowIsRespected == Spec => []WindowLimit
<1>1. IInv => WindowLimit
  BY RecentAreFew DEF WindowLimit, Recent
<1>2. QED
  BY IInvAlways, <1>1, PTL

-----------------------------------------------------------------------------
(* What is refused *)

\* A member that may still count was added, not long before its score.
Backed(k) ==
  /\ IsFiniteSet(units[k])
  /\ \A u \in units[k] : u.at <= u.ran + MaxAhead
  /\ \A e \in zset[k] :
       e.at > clock - Window[k] - MaxDelay => \E u \in units[k] : Member(u) = e

UsedInv == IInv /\ \A k \in Keys : Backed(k)

\* Members of the set and units added may only go together.
LEMMA BackedShrinks ==
  ASSUME UsedInv, UNCHANGED clock, NEW k \in Keys,
         zset'[k] \subseteq zset[k], units'[k] = units[k]
  PROVE  Backed(k)'
<1>1. Backed(k)
  BY DEF UsedInv
<1> QED  BY <1>1 DEF Backed, Member

LEMMA BackedGrows ==
  ASSUME UsedInv, NEW c \in Checks, UnderWay(c), Grants(c), UNCHANGED clock,
         NEW k \in Keys
  PROVE  Backed(k)'
<1> DEFINE now == stamp[c]
           kept == Kept(Key(c), now)
           Added(M) == {[at |-> e.at, n |-> e.n, ran |-> clock] : e \in M \ kept}
<1>1. IInv /\ Backed(k)
  BY DEF UsedInv
<1>2. /\ Key(c) \in Keys /\ ask[c].cost \in Nat \ {0}
      /\ now \in Int /\ now <= clock + MaxAhead
  BY <1>1, ScriptTypes
<1>3. PICK M \in Members(now, ask[c].cost) :
        /\ zset' = [zset EXCEPT ![Key(c)] = kept \cup M]
        /\ units' = [units EXCEPT ![Key(c)] = @ \cup Added(M)]
  BY DEF Grants
<1>4. /\ M \in SUBSET Entries /\ IsFiniteSet(M) /\ \A e \in M : e.at = now
  BY <1>2, <1>3, MembersFinite
<1>5. zset \in [Keys -> SUBSET Entries] /\ units \in [Keys -> SUBSET Units]
  BY <1>1 DEF IInv, TypeOK
<1>6. CASE k # Key(c)
  BY <1>1, <1>2, <1>3, <1>5, <1>6 DEF Backed, Member
<1>7. CASE k = Key(c)
  <2>1. zset'[k] = kept \cup M /\ units'[k] = units[k] \cup Added(M)
    BY <1>2, <1>3, <1>5, <1>7
  <2>2. IsFiniteSet(Added(M))
    <3> DEFINE f == [e \in M \ kept |-> [at |-> e.at, n |-> e.n, ran |-> clock]]
    <3>1. f \in Surjection(M \ kept, Added(M))
      BY DEF Surjection
    <3>2. IsFiniteSet(M \ kept)
      BY <1>4, FS_Subset
    <3> QED  BY <3>1, <3>2, FS_Surjection
  <2>3. IsFiniteSet(units'[k])
    <3>1. IsFiniteSet(units[k])
      BY <1>1 DEF Backed
    <3> HIDE DEF Added
    <3>2. IsFiniteSet(units[k] \cup Added(M))
      BY <2>2, <3>1, FS_Union
    <3> QED  BY <2>1, <3>2
  <2>4. ASSUME NEW u \in units'[k] PROVE u.at <= u.ran + MaxAhead
    <3>1. CASE u \in units[k]
      BY <1>1, <3>1 DEF Backed
    <3>2. CASE u \in Added(M)
      <4>1. PICK e \in M \ kept : u = [at |-> e.at, n |-> e.n, ran |-> clock]
        BY <3>2
      <4>2. u.at = now /\ u.ran = clock
        BY <1>4, <4>1
      <4> QED  BY <1>2, <4>2
    <3> QED  BY <2>1, <3>1, <3>2
  <2>5. ASSUME NEW e \in zset'[k], e.at > clock - Window[k] - MaxDelay
        PROVE  \E u \in units'[k] : Member(u) = e
    <3>1. CASE e \in zset[k]
      <4>1. PICK u \in units[k] : Member(u) = e
        BY <1>1, <2>5, <3>1 DEF Backed
      <4> QED  BY <2>1, <4>1
    <3>2. CASE e \in M \ kept
      <4> DEFINE u == [at |-> e.at, n |-> e.n, ran |-> clock]
      <4>1. u \in Added(M) /\ Member(u) = [at |-> e.at, n |-> e.n]
        BY <3>2 DEF Member
      <4>2. e \in [at : Int, n : Draws]
        BY <1>4, <3>2 DEF Entries
      <4>3. Member(u) = e
        BY <4>1, <4>2
      <4> QED  BY <2>1, <4>1, <4>3
    <3> QED  BY <1>7, <2>1, <3>1, <3>2 DEF Kept
  <2> QED  BY <2>3, <2>4, <2>5 DEF Backed, Member
<1> QED  BY <1>6, <1>7

\* What time forgets of the units is too old to count for any script.
LEMMA BackedInTime ==
  ASSUME UsedInv, Tick, NEW k \in Keys
  PROVE  Backed(k)'
<1>1. /\ IInv /\ Backed(k) /\ units[k] \in SUBSET Units /\ zset[k] \in SUBSET Entries
      /\ clock \in Nat /\ Window[k] \in Nat /\ MaxDelay \in Nat /\ MaxAhead \in Nat
  BY Numbers, RateAssumption DEF UsedInv, IInv, TypeOK
<1>2. /\ clock' = clock + 1
      /\ zset'[k] \subseteq zset[k]
      /\ units'[k] = {u \in units[k] : u.ran > clock' - Window[k] - (MaxAhead + MaxDelay)}
  BY DEF Tick, Slack
<1>3. IsFiniteSet(units'[k]) /\ \A u \in units'[k] : u.at <= u.ran + MaxAhead
  BY <1>1, <1>2, FS_Subset DEF Backed
<1>4. ASSUME NEW e \in zset'[k], e.at > clock' - Window[k] - MaxDelay
      PROVE  \E u \in units'[k] : Member(u) = e
  <2>1. e \in zset[k] /\ e.at \in Int
    BY <1>1, <1>2 DEF Entries
  <2>2. e.at > clock - Window[k] - MaxDelay
    BY <1>1, <1>2, <1>4, <2>1
  <2>3. PICK u \in units[k] : Member(u) = e
    BY <1>1, <2>1, <2>2 DEF Backed
  <2>4. u.at = e.at /\ u.ran \in Int /\ u.at <= u.ran + MaxAhead
    BY <1>1, <2>3 DEF Member, Units, Backed
  <2>5. u.ran > clock' - Window[k] - (MaxAhead + MaxDelay)
    BY <1>1, <1>2, <1>4, <2>1, <2>4
  <2> QED  BY <1>2, <2>3, <2>5
<1> QED  BY <1>3, <1>4 DEF Backed, Member

LEMMA NextBacked ==
  ASSUME UsedInv, [Next]_vars, NEW k \in Keys
  PROVE  Backed(k)'
<1>0. IInv /\ zset \in [Keys -> SUBSET Entries] /\ units \in [Keys -> SUBSET Units]
  BY DEF UsedInv, IInv, TypeOK
<1>1. ASSUME NEW c \in Checks, UnderWay(c), UNCHANGED clock, Refuses(c)
      PROVE  Backed(k)'
  <2>1. Key(c) \in Keys
    BY <1>0, <1>1, ScriptTypes
  <2>2. zset'[k] \subseteq zset[k] /\ units'[k] = units[k]
    BY <1>0, <1>1, <2>1 DEF Refuses, Kept
  <2> QED  BY <1>1, <2>2, BackedShrinks
<1>2. ASSUME NEW c \in Checks, CheckStep(c) PROVE Backed(k)'
  <2>1. CASE ScriptAnswers(c) \/ AnswerIsLate(c)
    <3>1. UnderWay(c) /\ UNCHANGED clock /\ (Refuses(c) \/ Grants(c))
      BY <2>1 DEF ScriptAnswers, AnswerIsLate, Forgets, UnderWay
    <3> QED  BY <1>1, <3>1, BackedGrows
  <2>2. CASE (\E q \in Asks : ReadsClock(c, q)) \/ CheckFails(c) \/ CheckEnds(c)
    <3>1. UNCHANGED <<clock, zset, units>>
      BY <2>2 DEF ReadsClock, CheckFails, CheckEnds, Forgets
    <3> QED  BY <3>1, BackedShrinks
  <2> QED  BY <1>2, <2>1, <2>2 DEF CheckStep
<1>3. ASSUME RedisLosesData \/ \E j \in Keys : ResetRateLimit(j) PROVE Backed(k)'
  <2>1. /\ UNCHANGED clock
        /\ \/ zset'[k] = {} /\ units'[k] = {}
           \/ zset'[k] = zset[k] /\ units'[k] = units[k]
    BY <1>0, <1>3 DEF RedisLosesData, ResetRateLimit
  <2>2. CASE zset'[k] = {} /\ units'[k] = {}
    BY <2>2, FS_EmptySet DEF Backed
  <2>3. CASE zset'[k] = zset[k] /\ units'[k] = units[k]
    BY <2>1, <2>3, BackedShrinks
  <2> QED  BY <2>1, <2>2, <2>3
<1>4. ASSUME Tick PROVE Backed(k)'
  BY <1>4, BackedInTime
<1>5. ASSUME UNCHANGED vars PROVE Backed(k)'
  BY <1>5, BackedShrinks DEF vars
<1> QED  BY <1>2, <1>3, <1>4, <1>5 DEF Next

\* A script that refuses counts members with a unit each, all of them recent.
LEMMA RefusalIsBacked ==
  ASSUME UsedInv, NEW c \in Checks, UnderWay(c), Refuses(c)
  PROVE  Cardinality(AddedWithin(Key(c), Window[Key(c)] + Slack)) + ask[c].cost
           > Limit[Key(c)]
<1> DEFINE k == Key(c)
           now == stamp[c]
           used == AddedWithin(k, Window[k] + Slack)
<1>1. /\ IInv /\ k \in Keys /\ ask[c].cost \in Nat /\ now \in Int
      /\ clock - MaxDelay <= now
  BY ScriptTypes DEF UsedInv
<1>2. /\ clock \in Nat /\ Window[k] \in Nat /\ Limit[k] \in Nat
      /\ MaxDelay \in Nat /\ MaxAhead \in Nat
  BY <1>1, Numbers, RateAssumption
<1>3. Backed(k) /\ units[k] \in SUBSET Units /\ zset[k] \in SUBSET Entries
  BY <1>1 DEF UsedInv, IInv, TypeOK
<1>4. ASSUME NEW e \in Kept(k, now)
      PROVE  \E u \in used : Member(u) = e
  <2>1. e \in zset[k] /\ e.at > now - Window[k] /\ e.at \in Int
    BY <1>3 DEF Kept, Entries
  <2>2. e.at > clock - Window[k] - MaxDelay
    BY <1>1, <1>2, <2>1
  <2>3. PICK u \in units[k] : Member(u) = e
    BY <1>3, <2>1, <2>2 DEF Backed
  <2>4. u.at = e.at /\ u.ran \in Int /\ u.at <= u.ran + MaxAhead
    BY <1>3, <2>3 DEF Member, Units, Backed
  <2>5. u.ran > clock - (Window[k] + (MaxAhead + MaxDelay))
    BY <1>2, <2>1, <2>2, <2>4
  <2> QED  BY <2>3, <2>5 DEF AddedWithin, Slack
<1> DEFINE f == [e \in Kept(k, now) |-> CHOOSE u \in used : Member(u) = e]
<1>5. \A e \in Kept(k, now) : f[e] \in used /\ Member(f[e]) = e
  BY <1>4
<1>6. f \in Injection(Kept(k, now), used)
  <2>1. f \in [Kept(k, now) -> used]
    BY <1>5
  <2>2. \A d, e \in Kept(k, now) : f[d] = f[e] => d = e
    BY <1>5
  <2> QED  BY <2>1, <2>2 DEF Injection, IsInjective
<1>7. IsFiniteSet(used)
  BY <1>3, FS_Subset DEF AddedWithin, Backed
<1>8. Cardinality(Kept(k, now)) <= Cardinality(used)
  BY <1>6, <1>7, FS_Injection
<1>9. Cardinality(Kept(k, now)) + ask[c].cost > Limit[k]
  BY DEF Refuses, Exceeds
<1>10. Cardinality(Kept(k, now)) \in Nat /\ Cardinality(used) \in Nat
  BY <1>1, <1>7, KeptFew, FS_CardinalityType
<1> QED  BY <1>1, <1>2, <1>8, <1>9, <1>10

\* Only the script's refusal refuses.
LEMMA RefusedByScript ==
  ASSUME IInv, [Next]_vars, NEW c \in Checks, pc[c] # "refused", pc'[c] = "refused"
  PROVE  UnderWay(c) /\ Refuses(c)
<1>0. pc \in [Checks -> Labels]
  BY DEF IInv, TypeOK
<1>1. ASSUME NEW d \in Checks, CheckStep(d)
      PROVE  d = c /\ UnderWay(c) /\ Refuses(c)
  <2>1. PICK label : pc' = [pc EXCEPT ![d] = label]
    BY <1>1 DEF CheckStep, ReadsClock, ScriptAnswers, AnswerIsLate, CheckFails,
                CheckEnds, Forgets
  <2>2. d = c
    BY <1>0, <2>1
  <2>3. \/ ScriptAnswers(c)
        \/ \E l \in {"script", "resent", "idle"} : pc' = [pc EXCEPT ![c] = l]
    BY <1>1, <2>2 DEF CheckStep, ReadsClock, AnswerIsLate, CheckFails, CheckEnds, Forgets
  <2>4. ScriptAnswers(c)
    BY <1>0, <2>3
  <2>5. UnderWay(c) /\ (Refuses(c) \/ pc' = [pc EXCEPT ![c] = "granted"])
    BY <2>4 DEF ScriptAnswers, Forgets
  <2> QED  BY <1>0, <2>2, <2>5
<1>2. ASSUME \/ \E k \in Keys : ResetRateLimit(k)
             \/ RedisLosesData \/ Tick \/ UNCHANGED vars
      PROVE  pc' = pc
  BY <1>2 DEF ResetRateLimit, RedisLosesData, Tick, vars, check
<1> QED  BY <1>1, <1>2 DEF Next

LEMMA UsedInvAlways == Spec => []UsedInv
<1>1. Init => UsedInv
  <2> SUFFICES ASSUME Init PROVE UsedInv
    OBVIOUS
  <2>1. IInv
    BY InitIInv
  <2>2. \A k \in Keys : Backed(k)
    BY FS_EmptySet DEF Init, Backed
  <2> QED  BY <2>1, <2>2 DEF UsedInv
<1>2. UsedInv /\ [Next]_vars => UsedInv'
  BY NextIInv, NextBacked DEF UsedInv
<1> QED  BY <1>1, <1>2, PTL DEF Spec

\* Nobody is refused for what is older than the window and the slack, nor
\* because of earlier refusals: what makes a check one too many was granted.
THEOREM RefusalsAreJustified == Spec => RefusedOnlyWhenUsed
<1>1. UsedInv /\ [Next]_vars
        => [\A c \in Checks :
              pc[c] # "refused" /\ pc'[c] = "refused" =>
                Cardinality(AddedWithin(Key(c), Window[Key(c)] + Slack)) + ask[c].cost
                  > Limit[Key(c)]]_vars
  BY RefusedByScript, RefusalIsBacked DEF UsedInv
<1> QED  BY <1>1, UsedInvAlways, PTL DEF Spec, RefusedOnlyWhenUsed
=============================================================================
