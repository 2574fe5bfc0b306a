--------------------------- MODULE ServicesProofs ---------------------------
(***************************************************************************)
(* Proofs about the services that share no state with one another, each for  *)
(* every value of its constants.                                             *)
(***************************************************************************)
EXTENDS MCServices, PlatformProofs

-----------------------------------------------------------------------------
(* TokenBucket.  However late the scripts of the processes run, and in
   whatever order, a bucket grants at most its capacity and what its rate adds:
   BucketInv bounds the units granted by the tokens that are left. *)
(* Products of a natural rate with differences of times: the strategy's
   refill by elapsed time splits at any time between. *)
LEMMA RateSplits ==
  ASSUME NEW r \in Int, NEW a \in Int, NEW b \in Int, NEW c \in Int
  PROVE  r * (a - b) + r * (b - c) = r * (a - c)
  BY SMT

(* What a rate adds is not negative and grows with the time. *)
LEMMA RateGrows ==
  ASSUME NEW r \in Nat, NEW a \in Int, NEW b \in Int, a <= b
  PROVE  /\ r * a <= r * b
         /\ r * (b - a) >= 0
  BY SMT

(* refill_rate is a whole number of tokens per second, at least one. *)
LEMMA RateType == RefillRate \in Nat \ {0}
  BY BucketAssumption DEF RefillRate, AtLeast

(* The key expires some time after the script that stores it. *)
LEMMA LifetimeType == Lifetime \in Nat
<1>1. (BucketLimit + RefillRate - 1) \in Nat
  BY BucketAssumption, RateType
<1>2. (BucketLimit + RefillRate - 1) \div RefillRate \in Nat
  BY <1>1, RateType, SMT
<1> QED
  BY <1>2 DEF Lifetime

(* current_tokens is a number, never above the capacity. *)
LEMMA AvailableType ==
  ASSUME BucketTypeOK, NEW now \in Nat
  PROVE  /\ Available(now) \in Int
         /\ Available(now) <= BucketLimit
<1>1. CASE bucket = NoBucket
  BY <1>1, BucketAssumption DEF Available
<1>2. CASE bucket # NoBucket
  <2>1. bucket.tokens \in Int /\ bucket.last \in Nat
    BY <1>2 DEF BucketTypeOK
  <2>2. bucket.tokens + RefillRate * (now - bucket.last) \in Int
    BY <2>1, RateType
  <2> QED
    BY <1>2, <2>2, BucketAssumption DEF Available, Refilled, AtMost
<1> QED
  BY <1>1, <1>2

(* What a script stores is well formed, whatever it leaves in the bucket. *)
LEMMA StoresType ==
  ASSUME BucketTypeOK, NEW now \in Nat, NEW left \in Int, left <= BucketLimit,
         StoresBucket(left, now)
  PROVE  /\ bucket' \in [tokens : Int, last : Nat, expires : Nat]
         /\ bucket' # NoBucket
         /\ bucket'.tokens = left /\ bucket'.last = now
         /\ bucketSpan' \in [first : Nat, latest : Nat]
         /\ bucketSpan'.latest >= now
         /\ bucket = NoBucket => bucketSpan' = [first |-> now, latest |-> now]
         /\ bucket # NoBucket => /\ bucketSpan'.first = bucketSpan.first
                                 /\ bucketSpan'.latest >= bucketSpan.latest
<1>1. bucketClock + Lifetime \in Nat
  BY LifetimeType DEF BucketTypeOK
<1>2. bucket' = [tokens |-> left, last |-> now, expires |-> bucketClock + Lifetime]
  BY DEF StoresBucket
<1>3. bucket'.expires # NoBucket.expires
  BY <1>1, <1>2 DEF NoBucket
<1>4. CASE bucket = NoBucket
  BY <1>1, <1>2, <1>3, <1>4 DEF StoresBucket
<1>5. CASE bucket # NoBucket
  <2>1. bucketSpan \in [first : Nat, latest : Nat]
    BY DEF BucketTypeOK
  <2>2. bucketSpan' = [bucketSpan EXCEPT !.latest = AtLeast(bucketSpan.latest, now)]
    BY <1>5 DEF StoresBucket
  <2> QED
    BY <1>1, <1>2, <1>3, <1>5, <2>1, <2>2 DEF AtLeast
<1> QED
  BY <1>4, <1>5

-----------------------------------------------------------------------------
(* A bucket that is refilled and charged owes no more than before: both the
   grant and the refusal leave the two bounds of BucketInv. *)
LEMMA ScriptKeepsBounds ==
  ASSUME BucketInv, NEW now \in Nat, NEW granted \in Nat,
         granted > 0 => Available(now) >= granted,
         StoresBucket(Available(now) - granted, now),
         admitted' = IF bucket = NoBucket THEN granted ELSE admitted + granted
  PROVE  /\ admitted' \in Nat
         /\ admitted' + bucket'.tokens
              <= BucketLimit + RefillRate * (bucket'.last - bucketSpan'.first)
         /\ bucket'.tokens + RefillRate * (bucketSpan'.latest - bucket'.last) >= 0
<1> DEFINE left == Available(now) - granted
<1>1. BucketTypeOK /\ Available(now) \in Int /\ Available(now) <= BucketLimit
  BY AvailableType DEF BucketInv
<1>2. left \in Int /\ left <= BucketLimit
  BY <1>1, BucketAssumption
<1>3. /\ bucket'.tokens = left /\ bucket'.last = now
      /\ bucketSpan' \in [first : Nat, latest : Nat] /\ bucketSpan'.latest >= now
      /\ bucket = NoBucket => bucketSpan' = [first |-> now, latest |-> now]
      /\ bucket # NoBucket => /\ bucketSpan'.first = bucketSpan.first
                              /\ bucketSpan'.latest >= bucketSpan.latest
  BY <1>1, <1>2, StoresType
<1>4. admitted' \in Nat
  BY <1>1 DEF BucketTypeOK
<1>5. RefillRate \in Nat
  BY RateType
<1>6. RefillRate * (bucketSpan'.latest - now) \in Int
      /\ RefillRate * (bucketSpan'.latest - now) >= 0
  BY <1>3, <1>5, RateGrows
<1>7. CASE bucket = NoBucket
  <2>1. Available(now) = BucketLimit
    BY <1>7 DEF Available
  <2>2. bucketSpan'.first = now /\ bucketSpan'.latest = now
    BY <1>3, <1>7
  <2>3. RefillRate * (now - now) = 0
    BY <1>5, SMT
  <2>4. admitted' = granted /\ left >= 0
    BY <1>7, <2>1, BucketAssumption
  <2> QED
    BY <1>2, <1>3, <1>4, <1>6, <2>1, <2>2, <2>3, <2>4, BucketAssumption
<1>8. CASE bucket # NoBucket
  <2> DEFINE first == bucketSpan.first
             last == bucket.last
             since == RefillRate * (now - last)
  <2>1. /\ bucket.tokens \in Int /\ last \in Nat /\ first \in Nat
        /\ bucketSpan.latest \in Nat /\ admitted \in Nat
    BY <1>1, <1>8 DEF BucketTypeOK
  <2>2. since \in Int /\ RefillRate * (last - first) \in Int
    BY <1>5, <2>1
  <2>3. /\ Available(now) <= bucket.tokens + since
        /\ Available(now) = BucketLimit \/ Available(now) = bucket.tokens + since
    BY <1>8, <2>1, <2>2, BucketAssumption DEF Available, Refilled, AtMost
  <2>4. RefillRate * (last - first) + since = RefillRate * (now - first)
    BY <1>5, <2>1, RateSplits
  <2>5. admitted + bucket.tokens <= BucketLimit + RefillRate * (last - first)
    BY <1>8 DEF BucketInv
  <2>6. admitted' + left <= BucketLimit + RefillRate * (now - first)
    BY <1>1, <1>2, <1>8, <2>1, <2>2, <2>3, <2>4, <2>5, BucketAssumption
  <2>7. left + RefillRate * (bucketSpan'.latest - now) >= 0
    <3>1. CASE granted > 0 \/ Available(now) = BucketLimit
      <4>1. left >= 0
        BY <1>1, <3>1, BucketAssumption
      <4> QED
        BY <1>2, <1>6, <4>1
    <3>2. CASE granted = 0 /\ Available(now) = bucket.tokens + since
      <4>1. since + RefillRate * (bucketSpan'.latest - now)
              = RefillRate * (bucketSpan'.latest - last)
        BY <1>3, <1>5, <2>1, RateSplits
      <4>2. bucketSpan.latest - last <= bucketSpan'.latest - last
        BY <1>3, <1>8, <2>1
      <4>3. RefillRate * (bucketSpan.latest - last)
              <= RefillRate * (bucketSpan'.latest - last)
        BY <1>3, <1>5, <2>1, <4>2, RateGrows
      <4>4. bucket.tokens + RefillRate * (bucketSpan.latest - last) >= 0
        BY <1>8 DEF BucketInv
      <4>5. /\ RefillRate * (bucketSpan.latest - last) \in Int
            /\ RefillRate * (bucketSpan'.latest - last) \in Int
        BY <1>3, <1>5, <2>1
      <4> QED
        BY <1>6, <2>1, <2>2, <3>2, <4>1, <4>3, <4>4, <4>5
    <3> QED
      BY <2>3, <3>1, <3>2
  <2> QED
    BY <1>3, <1>4, <1>8, <2>6, <2>7
<1> QED
  BY <1>7, <1>8
-----------------------------------------------------------------------------
(* No bucket has granted anything before its first script. *)
LEMMA BucketInvInit ==
  ASSUME BucketInit
  PROVE  BucketInv
<1>1. BucketTypeOK
  BY BucketAssumption DEF BucketInit, BucketTypeOK, NoBucket, NoSpan
<1> QED
  BY <1>1 DEF BucketInit, BucketInv

(* A script that grants or refuses keeps the invariant. *)
LEMMA ScriptKeepsInv ==
  ASSUME BucketInv, NEW c \in BucketClients, NEW cost \in BucketCosts,
         BucketGrants(c, cost) \/ BucketRefuses(c, cost)
  PROVE  BucketInv'
<1>1. BucketTypeOK /\ bucketNow[c] \in Nat /\ cost \in Nat
  BY BucketAssumption DEF BucketInv, BucketTypeOK, BucketGrants, BucketRefuses
<1>2. Available(bucketNow[c]) \in Int /\ Available(bucketNow[c]) <= BucketLimit
  BY <1>1, AvailableType
<1>3. PICK granted \in Nat :
        /\ granted > 0 => Available(bucketNow[c]) >= granted
        /\ StoresBucket(Available(bucketNow[c]) - granted, bucketNow[c])
        /\ admitted' = IF bucket = NoBucket THEN granted ELSE admitted + granted
  <2>1. CASE BucketGrants(c, cost)
    BY <1>1, <2>1 DEF BucketGrants
  <2>2. CASE BucketRefuses(c, cost)
    <3>1. /\ StoresBucket(Available(bucketNow[c]) - 0, bucketNow[c])
          /\ admitted' = IF bucket = NoBucket THEN 0 ELSE admitted + 0
      BY <1>1, <1>2, <2>2 DEF BucketRefuses, BucketTypeOK
    <3> QED
      BY <3>1
  <2> QED
    BY <2>1, <2>2
<1>4. /\ admitted' \in Nat
      /\ admitted' + bucket'.tokens
           <= BucketLimit + RefillRate * (bucket'.last - bucketSpan'.first)
      /\ bucket'.tokens + RefillRate * (bucketSpan'.latest - bucket'.last) >= 0
  BY <1>1, <1>3, ScriptKeepsBounds
<1>5. /\ bucket' \in [tokens : Int, last : Nat, expires : Nat]
      /\ bucket' # NoBucket
      /\ bucket'.tokens <= BucketLimit
      /\ bucketSpan' \in [first : Nat, latest : Nat]
      /\ bucket'.last <= bucketSpan'.latest
  <2>1. Available(bucketNow[c]) - granted \in Int
        /\ Available(bucketNow[c]) - granted <= BucketLimit
    BY <1>2, BucketAssumption
  <2> QED
    BY <1>1, <1>3, <2>1, StoresType
<1>6. /\ bucketClock' = bucketClock
      /\ bucketNow' = [bucketNow EXCEPT ![c] = NotRead]
  BY DEF BucketGrants, BucketRefuses
<1>7. BucketTypeOK'
  BY <1>1, <1>4, <1>5, <1>6 DEF BucketTypeOK
<1> QED
  BY <1>4, <1>5, <1>7 DEF BucketInv

(* Every step of a process, and the passing of time, keeps the invariant. *)
LEMMA BucketInvNext ==
  ASSUME BucketInv, [BucketNext]_bucketVars
  PROVE  BucketInv'
<1>1. ASSUME NEW c \in BucketClients, ReadsBucketClock(c)
      PROVE  BucketInv'
  <2>1. BucketTypeOK'
    BY <1>1 DEF BucketInv, BucketTypeOK, ReadsBucketClock
  <2> QED
    BY <1>1, <2>1 DEF BucketInv, ReadsBucketClock
<1>2. ASSUME NEW c \in BucketClients, BucketCallFails(c)
      PROVE  BucketInv'
  <2>1. BucketTypeOK'
    BY <1>2 DEF BucketInv, BucketTypeOK, BucketCallFails
  <2> QED
    BY <1>2, <2>1 DEF BucketInv, BucketCallFails
<1>3. ASSUME NEW c \in BucketClients, NEW cost \in BucketCosts,
             BucketGrants(c, cost) \/ BucketRefuses(c, cost)
      PROVE  BucketInv'
  BY <1>3, ScriptKeepsInv
<1>4. CASE BucketTick
  <2> DEFINE gone == bucket # NoBucket /\ bucket.expires <= bucketClock + 1
  <2>1. /\ bucketClock' = bucketClock + 1 /\ bucketNow' = bucketNow
        /\ bucket' = IF gone THEN NoBucket ELSE bucket
        /\ admitted' = IF gone THEN 0 ELSE admitted
        /\ bucketSpan' = IF gone THEN NoSpan ELSE bucketSpan
    BY <1>4 DEF BucketTick
  <2>2. CASE gone
    <3>1. BucketTypeOK'
      BY <2>1, <2>2, BucketAssumption DEF BucketInv, BucketTypeOK, NoBucket, NoSpan
    <3> QED
      BY <2>1, <2>2, <3>1 DEF BucketInv
  <2>3. CASE ~ gone
    <3>1. BucketTypeOK'
      BY <2>1, <2>3 DEF BucketInv, BucketTypeOK
    <3> QED
      BY <2>1, <2>3, <3>1 DEF BucketInv
  <2> QED
    BY <2>2, <2>3
<1>5. CASE UNCHANGED bucketVars
  <2>1. BucketTypeOK'
    BY <1>5 DEF BucketInv, BucketTypeOK, bucketVars
  <2> QED
    BY <1>5, <2>1 DEF BucketInv, bucketVars
<1> QED
  BY <1>1, <1>2, <1>3, <1>4, <1>5 DEF BucketNext

(* The bound on what was granted follows from the tokens that are left. *)
LEMMA BucketInvBounds ==
  ASSUME BucketInv
  PROVE  BucketWithinRate
<1>1. RefillRate \in Nat /\ BucketLimit \in Nat
  BY RateType, BucketAssumption
<1>2. CASE bucket = NoBucket
  <2>1. admitted = 0 /\ bucketSpan = NoSpan
    BY <1>2 DEF BucketInv
  <2>2. RefillRate * (bucketSpan.latest - bucketSpan.first) = 0
    BY <1>1, <2>1 DEF NoSpan
  <2> QED
    BY <1>1, <2>1, <2>2 DEF BucketWithinRate
<1>3. CASE bucket # NoBucket
  <2>1. /\ bucket.tokens \in Int /\ bucket.last \in Nat /\ admitted \in Nat
        /\ bucketSpan.first \in Nat /\ bucketSpan.latest \in Nat
    BY <1>3 DEF BucketInv, BucketTypeOK
  <2>2. RefillRate * (bucketSpan.latest - bucket.last)
          + RefillRate * (bucket.last - bucketSpan.first)
          = RefillRate * (bucketSpan.latest - bucketSpan.first)
    BY <1>1, <2>1, RateSplits
  <2>3. /\ admitted + bucket.tokens
             <= BucketLimit + RefillRate * (bucket.last - bucketSpan.first)
        /\ bucket.tokens + RefillRate * (bucketSpan.latest - bucket.last) >= 0
    BY <1>3 DEF BucketInv
  <2>4. /\ RefillRate * (bucketSpan.latest - bucket.last) \in Int
        /\ RefillRate * (bucket.last - bucketSpan.first) \in Int
    BY <1>1, <2>1
  <2> QED
    BY <1>1, <2>1, <2>2, <2>3, <2>4 DEF BucketWithinRate
<1> QED
  BY <1>2, <1>3
-----------------------------------------------------------------------------
(* TokenBucketStrategy.check_limit: for every capacity, window, cost and
   number of processes, and however late and in whatever order their scripts
   run, a bucket grants no more than its capacity and what its rate adds. *)
THEOREM BucketGrantsWithinRate == BucketSpec => []BucketWithinRate
<1>1. BucketInit => BucketInv
  BY BucketInvInit
<1>2. BucketInv /\ [BucketNext]_bucketVars => BucketInv'
  BY BucketInvNext
<1>3. BucketInv => BucketWithinRate
  BY BucketInvBounds
<1> QED
  BY <1>1, <1>2, <1>3, PTL DEF BucketSpec

(* Times and tokens are numbers and a bucket never holds more than its
   capacity, for every lag of the scripts and every cost. *)
THEOREM BucketTyped == BucketSpec => []BucketTypeOK
<1>1. BucketInit => BucketInv
  BY BucketInvInit
<1>2. BucketInv /\ [BucketNext]_bucketVars => BucketInv'
  BY BucketInvNext
<1>3. BucketInv => BucketTypeOK
  BY DEF BucketInv
<1> QED
  BY <1>1, <1>2, <1>3, PTL DEF BucketSpec

-----------------------------------------------------------------------------
(* ProgressStream.  What a stream has yielded and what has reached it are,
   event by event, what its channel got since its subscription. *)
StreamEvents == [of : Operations, number : 1..MaxEvents, kind : EventKinds]

\* The events published to the channel of a stream.
Heard(s) == published[Channel(streamOf[s])]

\* Event by event: what a stream has yielded, and after it what has reached it,
\* are the events of its channel from its subscription on.
RunOK(s) ==
  /\ streamAt[s] = "opening" => yielded[s] = <<>>
  /\ \A i \in 1..Len(yielded[s]) :
       /\ streamFrom[s] + i <= Len(Heard(s)) /\ yielded[s][i] = Heard(s)[streamFrom[s] + i]
       /\ Final(yielded[s][i]) => i = Len(yielded[s])
  /\ streamAt[s] = "open" =>
       /\ streamFrom[s] + Len(yielded[s]) + Len(inbox[s]) = Len(Heard(s))
       /\ \A i \in 1..Len(inbox[s]) :
            inbox[s][i] = Heard(s)[streamFrom[s] + Len(yielded[s]) + i]
       /\ \A i \in 1..Len(yielded[s]) : ~ Final(yielded[s][i])

\* A channel carries the events of one operation, at most MaxEvents.
ChannelOK(o) ==
  /\ Len(published[Channel(o)]) <= MaxEvents
  /\ \A i \in 1..Len(published[Channel(o)]) : published[Channel(o)][i].of = o

\* The inductive invariant of the streams.
StreamInv ==
  /\ StreamTypeOK
  /\ \A o \in Operations : ChannelOK(o)
  /\ \A s \in Streams : RunOK(s)

\* The types of what a stream keeps, as the lemmas below use them.
LEMMA StreamTypes ==
  ASSUME StreamTypeOK, NEW s \in Streams
  PROVE  /\ inbox[s] \in Seq(StreamEvents) /\ yielded[s] \in Seq(StreamEvents)
         /\ streamOf[s] \in Operations /\ Channel(streamOf[s]) \in Channels
         /\ Heard(s) \in Seq(StreamEvents)
         /\ streamFrom[s] \in Nat /\ Len(Heard(s)) \in Nat
         /\ Len(inbox[s]) \in Nat /\ Len(yielded[s]) \in Nat
<1>1. /\ inbox[s] \in Seq(StreamEvents) /\ yielded[s] \in Seq(StreamEvents)
      /\ streamOf[s] \in Operations /\ published \in [Channels -> Seq(StreamEvents)]
      /\ streamFrom[s] \in 0..MaxEvents
  BY DEF StreamTypeOK, StreamEvents
<1>2. Channel(streamOf[s]) \in Channels
  BY <1>1 DEF Channels
<1> QED  BY <1>1, <1>2, StreamAssumption DEF Heard

-----------------------------------------------------------------------------
\* The step of one stream, which publishes nothing.
StreamTo(s, l, from, box, got) ==
  /\ l \in {"idle", "opening", "open", "closing"} /\ streamAt' = [streamAt EXCEPT ![s] = l]
  /\ from \in 0..MaxEvents /\ streamFrom' = [streamFrom EXCEPT ![s] = from]
  /\ box \in Seq(StreamEvents) /\ inbox' = [inbox EXCEPT ![s] = box]
  /\ got \in Seq(StreamEvents) /\ yielded' = [yielded EXCEPT ![s] = got]
  /\ box # <<>> => l \in {"open", "closing"}
  /\ UNCHANGED <<sseReady, published>>
  /\ streamOf' \in [Streams -> Operations]
  /\ \A k \in Streams \ {s} : streamOf'[k] = streamOf[k]

\* A step of one stream that keeps its run right keeps the invariant.
LEMMA StreamStepKeeps ==
  ASSUME StreamInv, NEW s \in Streams, NEW l, NEW from, NEW box, NEW got,
         StreamTo(s, l, from, box, got), RunOK(s)'
  PROVE  StreamInv'
<1>1. StreamTypeOK
  BY DEF StreamInv
<1>2. /\ streamAt'[s] = l /\ inbox'[s] = box
      /\ \A k \in Streams \ {s} :
           /\ streamAt'[k] = streamAt[k] /\ streamFrom'[k] = streamFrom[k]
           /\ inbox'[k] = inbox[k] /\ yielded'[k] = yielded[k] /\ streamOf'[k] = streamOf[k]
  BY <1>1 DEF StreamTypeOK, StreamTo
<1>3. StreamTypeOK'
  <2>1. /\ streamAt' \in [Streams -> {"idle", "opening", "open", "closing"}]
        /\ streamFrom' \in [Streams -> 0..MaxEvents]
        /\ inbox' \in [Streams -> Seq(StreamEvents)] /\ yielded' \in [Streams -> Seq(StreamEvents)]
    BY <1>1 DEF StreamTypeOK, StreamTo, StreamEvents
  <2>2. \A k \in Streams : inbox'[k] # <<>> => streamAt'[k] \in {"open", "closing"}
    BY <1>1, <1>2 DEF StreamTypeOK, StreamTo
  <2> QED  BY <1>1, <2>1, <2>2 DEF StreamTypeOK, StreamTo, StreamEvents
<1>4. \A k \in Streams \ {s} : RunOK(k)'
  <2> SUFFICES ASSUME NEW k \in Streams \ {s} PROVE RunOK(k)'
    OBVIOUS
  <2>1. RunOK(k) /\ Heard(k)' = Heard(k)
    BY <1>2 DEF StreamInv, StreamTo, Heard
  <2> QED  BY <1>2, <2>1 DEF RunOK
<1>5. \A o \in Operations : ChannelOK(o)'
  BY DEF StreamInv, StreamTo, ChannelOK
<1> QED  BY <1>3, <1>4, <1>5 DEF StreamInv

\* A stream that opens has yielded nothing.
LEMMA StreamOpensKeeps ==
  ASSUME StreamInv, NEW s \in Streams, NEW o \in Operations, OpensStream(s, o)
  PROVE  StreamInv'
<1>1. StreamTypeOK
  BY DEF StreamInv
<1>2. StreamTo(s, "opening", streamFrom[s], <<>>, <<>>)
  BY <1>1 DEF OpensStream, StreamTo, StreamTypeOK
<1>3. yielded'[s] = <<>> /\ streamAt'[s] = "opening"
  BY <1>1 DEF OpensStream, StreamTypeOK
<1>4. RunOK(s)'
  BY <1>3 DEF RunOK
<1> QED  BY <1>2, <1>4, StreamStepKeeps

\* A subscription begins after what its channel has got.
LEMMA StreamSubscribesKeeps ==
  ASSUME StreamInv, NEW s \in Streams, Subscribes(s)
  PROVE  StreamInv'
<1>1. StreamTypeOK /\ RunOK(s) /\ streamAt[s] = "opening"
  BY DEF StreamInv, Subscribes
<1>2. inbox[s] = <<>> /\ yielded[s] = <<>>
  BY <1>1 DEF StreamTypeOK, RunOK
<1>3. Len(Heard(s)) \in 0..MaxEvents /\ streamOf[s] \in Operations
  <2>1. Len(Heard(s)) \in Nat /\ streamOf[s] \in Operations
    BY <1>1, StreamTypes
  <2>2. Len(Heard(s)) <= MaxEvents
    BY <2>1 DEF StreamInv, ChannelOK, Heard
  <2> QED  BY <2>1, <2>2, StreamAssumption
<1>4. StreamTo(s, "open", Len(Heard(s)), <<>>, <<>>)
  BY <1>1, <1>2, <1>3 DEF Subscribes, StreamTo, StreamTypeOK, Heard
<1>5. /\ yielded'[s] = <<>> /\ inbox'[s] = <<>> /\ streamAt'[s] = "open"
      /\ streamFrom'[s] = Len(Heard(s)) /\ Heard(s)' = Heard(s)
  BY <1>1, <1>2 DEF Subscribes, StreamTypeOK, Heard
<1>6. RunOK(s)'
  BY <1>3, <1>5 DEF RunOK
<1> QED  BY <1>4, <1>6, StreamStepKeeps

\* What is yielded is the first of the inbox, and ends the stream if it is final.
LEMMA StreamYieldsKeeps ==
  ASSUME StreamInv, NEW s \in Streams, YieldsEvent(s)
  PROVE  StreamInv'
<1> DEFINE e == Head(inbox[s])  got == Append(yielded[s], e)  box == Tail(inbox[s])
<1>1. StreamTypeOK /\ RunOK(s) /\ streamAt[s] = "open" /\ inbox[s] # <<>>
  BY DEF StreamInv, YieldsEvent
<1>2. /\ inbox[s] \in Seq(StreamEvents) /\ yielded[s] \in Seq(StreamEvents)
      /\ streamFrom[s] \in Nat /\ Len(Heard(s)) \in Nat
      /\ Len(inbox[s]) \in Nat /\ Len(yielded[s]) \in Nat
  BY <1>1, StreamTypes
<1>3. /\ e \in StreamEvents /\ e = inbox[s][1] /\ box \in Seq(StreamEvents)
      /\ Len(box) = Len(inbox[s]) - 1 /\ Len(inbox[s]) >= 1
      /\ \A i \in 1..Len(box) : box[i] = inbox[s][i + 1]
  BY <1>1, <1>2
<1>4. /\ got \in Seq(StreamEvents) /\ Len(got) = Len(yielded[s]) + 1
      /\ got[Len(yielded[s]) + 1] = e
      /\ \A i \in 1..Len(yielded[s]) : got[i] = yielded[s][i]
  BY <1>2, <1>3
<1>5. /\ inbox' = [inbox EXCEPT ![s] = box] /\ yielded' = [yielded EXCEPT ![s] = got]
      /\ streamAt' = [streamAt EXCEPT ![s] = AfterEvent(e)]
      /\ UNCHANGED <<sseReady, published, streamOf, streamFrom>>
  BY DEF YieldsEvent
<1> HIDE DEF got, box, e
<1>6. AfterEvent(e) = IF Final(e) THEN "closing" ELSE "open"
  BY DEF AfterEvent
<1>7. StreamTo(s, AfterEvent(e), streamFrom[s], box, got)
  BY <1>1, <1>3, <1>4, <1>5, <1>6 DEF StreamTo, StreamTypeOK
<1>8. /\ yielded'[s] = got /\ inbox'[s] = box /\ streamAt'[s] = AfterEvent(e)
      /\ streamFrom'[s] = streamFrom[s] /\ Heard(s)' = Heard(s)
  BY <1>1, <1>5 DEF StreamTypeOK, Heard
<1> DEFINE f == streamFrom[s]  y == Len(yielded[s])  b == Len(inbox[s])  h == Len(Heard(s))
<1>9. f \in Nat /\ y \in Nat /\ b \in Nat /\ h \in Nat /\ b >= 1 /\ f + y + b = h
  BY <1>1, <1>2, <1>3 DEF RunOK
<1>10. /\ \A i \in 1..b : inbox[s][i] = Heard(s)[f + y + i]
       /\ \A i \in 1..y : ~ Final(yielded[s][i]) /\ f + i <= h /\ yielded[s][i] = Heard(s)[f + i]
  BY <1>1 DEF RunOK
<1>11. Len(got) = y + 1 /\ Len(box) = b - 1
  BY <1>3, <1>4
<1>12. e = Heard(s)[f + (y + 1)]
  <2>1. e = Heard(s)[f + y + 1]
    BY <1>3, <1>10
  <2> HIDE DEF f, y, b, h
  <2>2. f + y + 1 = f + (y + 1)
    BY <1>9
  <2> QED  BY <2>1, <2>2
<1>13. ASSUME NEW i \in 1..Len(got)
       PROVE  /\ f + i <= h /\ got[i] = Heard(s)[f + i]
              /\ Final(got[i]) => i = Len(got)
              /\ ~ Final(e) => ~ Final(got[i])
  <2>1. CASE i = y + 1
    <3>1. got[i] = e /\ i = Len(got)
      BY <1>4, <1>11, <2>1
    <3> HIDE DEF f, y, b, h
    <3>2. f + i <= h
      BY <1>9, <2>1
    <3> QED  BY <1>12, <2>1, <3>1, <3>2
  <2>2. CASE i \in 1..y
    BY <1>4, <1>10, <2>2
  <2>3. i \in 1..(y + 1)
    BY <1>11
  <2> HIDE DEF f, y, b, h
  <2> QED  BY <1>9, <2>1, <2>2, <2>3
<1>14. f + Len(got) + Len(box) = h
  <2> HIDE DEF f, y, b, h
  <2>1. f + (y + 1) + (b - 1) = h
    BY <1>9
  <2> QED  BY <1>11, <2>1
<1>15. ASSUME NEW i \in 1..Len(box) PROVE box[i] = Heard(s)[f + Len(got) + i]
  <2>1. box[i] = inbox[s][i + 1] /\ i \in 1..(b - 1)
    BY <1>3, <1>11
  <2> HIDE DEF f, y, b, h
  <2>2. i + 1 \in 1..b /\ f + y + (i + 1) = f + (y + 1) + i
    BY <1>9, <2>1
  <2> QED  BY <1>10, <1>11, <2>1, <2>2
<1>16. RunOK(s)'
  BY <1>6, <1>8, <1>13, <1>14, <1>15 DEF RunOK
<1> QED  BY <1>7, <1>16, StreamStepKeeps

\* A stream that ends keeps what it has yielded.
LEMMA StreamEndsKeeps ==
  ASSUME StreamInv, NEW s \in Streams, StreamBreaks(s) \/ Unsubscribes(s)
  PROVE  StreamInv'
<1>1. StreamTypeOK /\ RunOK(s)
  BY DEF StreamInv
<1>2. UNCHANGED <<sseReady, published, streamOf, streamFrom, yielded>>
  BY DEF StreamBreaks, Unsubscribes
<1>3. /\ streamFrom[s] \in 0..MaxEvents /\ streamFrom' = [streamFrom EXCEPT ![s] = streamFrom[s]]
      /\ yielded[s] \in Seq(StreamEvents) /\ yielded' = [yielded EXCEPT ![s] = yielded[s]]
      /\ inbox[s] \in Seq(StreamEvents) /\ streamOf' \in [Streams -> Operations]
  BY <1>1, <1>2 DEF StreamTypeOK, StreamEvents
<1>4. CASE StreamBreaks(s)
  <2>1. /\ streamAt' = [streamAt EXCEPT ![s] = "closing"]
        /\ inbox' = [inbox EXCEPT ![s] = inbox[s]]
    BY <1>1, <1>4 DEF StreamBreaks, StreamTypeOK
  <2>2. StreamTo(s, "closing", streamFrom[s], inbox[s], yielded[s])
    BY <1>2, <1>3, <2>1 DEF StreamTo
  <2>3. streamAt'[s] = "closing" /\ Heard(s)' = Heard(s)
    BY <1>1, <1>2, <2>1 DEF StreamTypeOK, Heard
  <2>4. RunOK(s)'
    BY <1>1, <1>2, <2>3 DEF RunOK
  <2> QED  BY <2>2, <2>4, StreamStepKeeps
<1>5. CASE Unsubscribes(s)
  <2>1. /\ streamAt' = [streamAt EXCEPT ![s] = "idle"]
        /\ inbox' = [inbox EXCEPT ![s] = <<>>]
    BY <1>5 DEF Unsubscribes
  <2>2. <<>> \in Seq(StreamEvents)
    OBVIOUS
  <2>3. StreamTo(s, "idle", streamFrom[s], <<>>, yielded[s])
    BY <1>2, <1>3, <2>1, <2>2 DEF StreamTo
  <2>4. streamAt'[s] = "idle" /\ Heard(s)' = Heard(s)
    BY <1>1, <1>2, <2>1 DEF StreamTypeOK, Heard
  <2>5. RunOK(s)'
    BY <1>1, <1>2, <2>4 DEF RunOK
  <2> QED  BY <2>3, <2>5, StreamStepKeeps
<1> QED  BY <1>4, <1>5

-----------------------------------------------------------------------------
\* A publication goes to the channel and to the inboxes of the streams it has.
LEMMA StreamPublishesKeeps ==
  ASSUME StreamInv, NEW o \in Operations, NEW kind \in EventKinds, PublishesEvent(o, kind)
  PROVE  StreamInv'
<1> DEFINE e == [of |-> o, number |-> Len(published[Channel(o)]) + 1, kind |-> kind]
<1> DEFINE hears(s) == streamAt[s] \in {"open", "closing"} /\ Channel(streamOf[s]) = Channel(o)
<1>1. StreamTypeOK /\ Channel(o) \in Channels /\ published[Channel(o)] \in Seq(StreamEvents)
  BY DEF StreamInv, StreamTypeOK, StreamEvents, Channels
<1>2. /\ Len(published[Channel(o)]) < MaxEvents
      /\ published' = [published EXCEPT ![Channel(o)] = Append(published[Channel(o)], e)]
      /\ inbox' = [s \in Streams |-> IF hears(s) THEN Append(inbox[s], e) ELSE inbox[s]]
      /\ UNCHANGED <<sseReady, streamAt, streamOf, streamFrom, yielded>>
  BY DEF PublishesEvent
<1>3. e \in StreamEvents /\ e.of = o
  <2>1. Len(published[Channel(o)]) + 1 \in 1..MaxEvents
    BY <1>1, <1>2, StreamAssumption
  <2> QED  BY <2>1 DEF StreamEvents
<1> HIDE DEF e
<1>4. /\ published' \in [Channels -> Seq(StreamEvents)]
      /\ \A c \in Channels \ {Channel(o)} : published'[c] = published[c]
      /\ Len(published'[Channel(o)]) = Len(published[Channel(o)]) + 1
      /\ published'[Channel(o)][Len(published[Channel(o)]) + 1] = e
      /\ \A i \in 1..Len(published[Channel(o)]) : published'[Channel(o)][i] = published[Channel(o)][i]
      /\ Len(published[Channel(o)]) \in Nat
  <2>1. published \in [Channels -> Seq(StreamEvents)]
    BY <1>1 DEF StreamTypeOK, StreamEvents
  <2> DEFINE sent == published[Channel(o)]  more == Append(sent, e)
  <2>2. /\ more \in Seq(StreamEvents) /\ Len(more) = Len(sent) + 1 /\ more[Len(sent) + 1] = e
        /\ Len(sent) \in Nat /\ \A i \in 1..Len(sent) : more[i] = sent[i]
    BY <1>1, <1>3
  <2>3. published' = [published EXCEPT ![Channel(o)] = more]
    BY <1>2
  <2> HIDE DEF more
  <2>4. /\ published' \in [Channels -> Seq(StreamEvents)] /\ published'[Channel(o)] = more
        /\ \A c \in Channels \ {Channel(o)} : published'[c] = published[c]
    BY <1>1, <2>1, <2>2, <2>3
  <2> QED  BY <2>2, <2>4
<1>5. StreamTypeOK'
  <2>1. \A s \in Streams : inbox'[s] \in Seq(StreamEvents)
    BY <1>1, <1>2, <1>3, StreamTypes
  <2>2. inbox' \in [Streams -> Seq(StreamEvents)]
    BY <1>2, <2>1
  <2>3. \A s \in Streams : inbox'[s] # <<>> => streamAt'[s] \in {"open", "closing"}
    BY <1>1, <1>2 DEF StreamTypeOK
  <2> QED  BY <1>1, <1>2, <1>4, <2>2, <2>3 DEF StreamTypeOK, StreamEvents
<1>6. ASSUME NEW p \in Operations PROVE ChannelOK(p)'
  <2>1. ChannelOK(p) /\ ChannelOK(o) /\ Channel(p) \in Channels
    BY DEF StreamInv, Channels
  <2>2. CASE p = o
    BY <1>2, <1>3, <1>4, <2>1, <2>2, StreamAssumption DEF ChannelOK
  <2>3. CASE p # o
    <3>1. published'[Channel(p)] = published[Channel(p)]
      BY <1>4, <2>1, <2>3 DEF Channel
    <3> QED  BY <2>1, <3>1 DEF ChannelOK
  <2> QED  BY <2>2, <2>3
<1>7. ASSUME NEW s \in Streams PROVE RunOK(s)'
  <2>1. /\ RunOK(s) /\ inbox[s] \in Seq(StreamEvents) /\ streamFrom[s] \in Nat
        /\ Len(Heard(s)) \in Nat /\ Len(inbox[s]) \in Nat /\ Len(yielded[s]) \in Nat
        /\ Channel(streamOf[s]) \in Channels
    BY <1>1, StreamTypes DEF StreamInv
  <2>2. CASE Channel(streamOf[s]) # Channel(o)
    <3>1. Heard(s)' = Heard(s) /\ inbox'[s] = inbox[s]
      BY <1>2, <1>4, <2>1, <2>2 DEF Heard
    <3>2. /\ streamAt'[s] = streamAt[s] /\ yielded'[s] = yielded[s]
          /\ streamFrom'[s] = streamFrom[s]
      BY <1>2
    <3> QED  BY <2>1, <3>1, <3>2 DEF RunOK
  <2>3. CASE Channel(streamOf[s]) = Channel(o)
    <3>1. /\ Len(Heard(s)') = Len(Heard(s)) + 1 /\ Heard(s)'[Len(Heard(s)) + 1] = e
          /\ \A i \in 1..Len(Heard(s)) : Heard(s)'[i] = Heard(s)[i]
      BY <1>2, <1>4, <2>3 DEF Heard
    <3>2. ASSUME NEW i \in 1..Len(yielded[s])
          PROVE  /\ streamFrom[s] + i <= Len(Heard(s)')
                 /\ yielded[s][i] = Heard(s)'[streamFrom[s] + i]
      <4>1. streamFrom[s] + i <= Len(Heard(s)) /\ yielded[s][i] = Heard(s)[streamFrom[s] + i]
        BY <2>1 DEF RunOK
      <4>2. streamFrom[s] + i \in 1..Len(Heard(s))
        BY <2>1, <4>1
      <4> QED  BY <2>1, <3>1, <4>1, <4>2
    <3>3. ASSUME streamAt[s] = "open"
          PROVE  /\ streamFrom[s] + Len(yielded[s]) + Len(inbox'[s]) = Len(Heard(s)')
                 /\ \A i \in 1..Len(inbox'[s]) :
                      inbox'[s][i] = Heard(s)'[streamFrom[s] + Len(yielded[s]) + i]
      <4>1. /\ streamFrom[s] + Len(yielded[s]) + Len(inbox[s]) = Len(Heard(s))
            /\ \A i \in 1..Len(inbox[s]) :
                 inbox[s][i] = Heard(s)[streamFrom[s] + Len(yielded[s]) + i]
        BY <2>1, <3>3 DEF RunOK
      <4>2. inbox'[s] = Append(inbox[s], e)
        BY <1>2, <2>3, <3>3
      <4>3. /\ Len(inbox'[s]) = Len(inbox[s]) + 1 /\ inbox'[s][Len(inbox[s]) + 1] = e
            /\ \A i \in 1..Len(inbox[s]) : inbox'[s][i] = inbox[s][i]
        BY <1>3, <2>1, <4>2
      <4> DEFINE f == streamFrom[s]  y == Len(yielded[s])  b == Len(inbox[s])  h == Len(Heard(s))
      <4>4. f \in Nat /\ y \in Nat /\ b \in Nat /\ h \in Nat /\ f + y + b = h
        BY <2>1, <4>1
      <4>5. f + y + (b + 1) = h + 1
        <5> HIDE DEF f, y, b, h
        <5> QED  BY <4>4
      <4>6. ASSUME NEW i \in 1..(b + 1) PROVE inbox'[s][i] = Heard(s)'[f + y + i]
        <5>1. CASE i = b + 1
          BY <3>1, <4>3, <4>5, <5>1
        <5>2. CASE i \in 1..b
          <6>1. inbox'[s][i] = Heard(s)[f + y + i]
            BY <4>1, <4>3, <5>2
          <6> HIDE DEF f, y, b
          <6>2. f + y + i \in 1..h
            <7> HIDE DEF h
            <7> QED  BY <4>4, <5>2
          <6> QED  BY <3>1, <6>1, <6>2
        <5> HIDE DEF f, y, b, h
        <5> QED  BY <4>4, <5>1, <5>2
      <4> QED  BY <3>1, <4>3, <4>5, <4>6
    <3>4. /\ streamAt'[s] = streamAt[s] /\ yielded'[s] = yielded[s]
          /\ streamFrom'[s] = streamFrom[s]
      BY <1>2
    <3> QED  BY <2>1, <3>2, <3>3, <3>4 DEF RunOK
  <2> QED  BY <2>2, <2>3
<1> QED  BY <1>5, <1>6, <1>7 DEF StreamInv

\* Without a step of a stream or a channel the runs are what they were.
LEMMA StreamUnchanged ==
  ASSUME StreamInv, StreamTypeOK',
         UNCHANGED <<published, streamAt, streamOf, streamFrom, inbox, yielded>>
  PROVE  StreamInv'
<1>1. \A o \in Operations : ChannelOK(o)'
  BY DEF StreamInv, ChannelOK
<1>2. ASSUME NEW s \in Streams PROVE RunOK(s)'
  <2>1. RunOK(s) /\ Heard(s)' = Heard(s)
    BY DEF StreamInv, Heard
  <2> QED  BY <2>1 DEF RunOK
<1> QED  BY <1>1, <1>2 DEF StreamInv

\* Induction over the steps of streams and publishers.
LEMMA StreamInvariant == StreamSpec => []StreamInv
<1>1. StreamInit => StreamInv
  <2> SUFFICES ASSUME StreamInit PROVE StreamInv
    OBVIOUS
  <2>1. StreamTypeOK
    <3>1. streamOf \in [Streams -> Operations] /\ 0 \in 0..MaxEvents
      BY StreamAssumption DEF StreamInit
    <3>2. <<>> \in Seq(StreamEvents)
      OBVIOUS
    <3> QED  BY <3>1, <3>2 DEF StreamInit, StreamTypeOK, StreamEvents
  <2>2. \A o \in Operations : ChannelOK(o)
    BY StreamAssumption DEF StreamInit, ChannelOK, Channels
  <2>3. \A s \in Streams : RunOK(s)
    BY DEF StreamInit, RunOK
  <2> QED  BY <2>1, <2>2, <2>3 DEF StreamInv
<1>2. StreamInv /\ [StreamNext]_streamVars => StreamInv'
  <2> SUFFICES ASSUME StreamInv, [StreamNext]_streamVars PROVE StreamInv'
    OBVIOUS
  <2>1. CASE UNCHANGED streamVars
    BY <2>1, StreamUnchanged DEF streamVars, StreamInv, StreamTypeOK
  <2>2. CASE InitializesSse
    BY <2>2, StreamUnchanged DEF InitializesSse, StreamInv, StreamTypeOK
  <2>3. CASE \E s \in Streams :
               \/ \E o \in Operations : OpensStream(s, o)
               \/ Subscribes(s) \/ YieldsEvent(s) \/ StreamBreaks(s) \/ Unsubscribes(s)
    BY <2>3, StreamOpensKeeps, StreamSubscribesKeeps, StreamYieldsKeeps, StreamEndsKeeps
  <2>4. CASE \E o \in Operations, kind \in EventKinds : PublishesEvent(o, kind)
    BY <2>4, StreamPublishesKeeps
  <2> QED  BY <2>1, <2>2, <2>3, <2>4 DEF StreamNext
<1> QED  BY <1>1, <1>2, PTL DEF StreamSpec

\* Streams, channels and events keep their types, and only a subscribed stream
\* receives (services/sse.py).
THEOREM StreamsTyped == StreamSpec => []StreamTypeOK
<1>1. StreamInv => StreamTypeOK
  BY DEF StreamInv
<1> QED  BY <1>1, StreamInvariant, PTL

\* RunOK, event by event, as an equation between sequences.
LEMMA RunYields ==
  ASSUME StreamInv, NEW s \in Streams
  PROVE  LET got == yielded[s]
             all == published[Channel(streamOf[s])]
         IN
         /\ streamAt[s] = "open" =>
              got \o inbox[s] = SubSeq(all, streamFrom[s] + 1, Len(all))
         /\ IsPrefix(got, SubSeq(all, streamFrom[s] + 1, Len(all)))
         /\ \A i \in 1..Len(got) : got[i].of = streamOf[s] /\ (Final(got[i]) => i = Len(got))
<1> DEFINE got == yielded[s]  all == Heard(s)  from == streamFrom[s]
           run == SubSeq(all, from + 1, Len(all))
<1>1. /\ inbox[s] \in Seq(StreamEvents) /\ got \in Seq(StreamEvents)
      /\ all \in Seq(StreamEvents) /\ from \in Nat /\ Len(all) \in Nat
      /\ Len(inbox[s]) \in Nat /\ Len(got) \in Nat /\ streamOf[s] \in Operations
  BY StreamTypes DEF StreamInv
<1>2. /\ run \in Seq(StreamEvents)
      /\ Len(run) = IF from + 1 <= Len(all) THEN Len(all) - from ELSE 0
      /\ \A i \in 1..Len(all) - from : run[i] = all[from + i]
  <2> HIDE DEF all, from
  <2>1. \A i \in from + 1..Len(all) : all[i] \in StreamEvents
    BY <1>1
  <2>2. /\ run \in Seq(StreamEvents)
        /\ Len(run) = IF from + 1 <= Len(all) THEN Len(all) - (from + 1) + 1 ELSE 0
        /\ \A i \in 1..Len(all) - (from + 1) + 1 : run[i] = all[from + 1 + i - 1]
    BY <1>1, <2>1, SubSeqProperties
  <2>3. Len(all) - (from + 1) + 1 = Len(all) - from
    BY <1>1
  <2>4. ASSUME NEW i \in 1..Len(all) - from PROVE run[i] = all[from + i]
    <3>1. from + 1 + i - 1 = from + i
      BY <1>1
    <3> QED  BY <2>2, <2>3, <3>1
  <2> HIDE DEF run
  <2> QED  BY <2>2, <2>3, <2>4
<1>3. RunOK(s) /\ ChannelOK(streamOf[s])
  BY <1>1 DEF StreamInv
<1> HIDE DEF run
<1>4. ASSUME NEW i \in 1..Len(got)
      PROVE  /\ from + i <= Len(all) /\ got[i] = run[i] /\ got[i].of = streamOf[s]
             /\ Final(got[i]) => i = Len(got)
  <2>1. from + i <= Len(all) /\ got[i] = all[from + i] /\ (Final(got[i]) => i = Len(got))
    BY <1>3 DEF RunOK
  <2>2. i \in 1..Len(all) - from /\ from + i \in 1..Len(all)
    BY <1>1, <2>1
  <2>3. all[from + i].of = streamOf[s]
    BY <1>3, <2>2 DEF ChannelOK, Heard
  <2> QED  BY <1>2, <2>1, <2>2, <2>3
<1>5. Len(got) <= Len(run)
  <2>1. CASE Len(got) = 0
    BY <1>1, <1>2, <2>1
  <2>2. CASE Len(got) # 0
    <3>1. from + Len(got) <= Len(all)
      BY <1>1, <1>4, <2>2
    <3> QED  BY <1>1, <1>2, <3>1
  <2> QED  BY <2>1, <2>2
<1>6. SubSeq(got, 1, Len(got)) = SubSeq(run, 1, Len(got))
  <2>1. Len(run) \in Nat
    BY <1>2
  <2>2. /\ SubSeq(got, 1, Len(got)) \in Seq(StreamEvents)
        /\ Len(SubSeq(got, 1, Len(got))) = Len(got)
        /\ \A i \in 1..Len(got) : SubSeq(got, 1, Len(got))[i] = got[i]
    BY <1>1
  <2>3. /\ SubSeq(run, 1, Len(got)) \in Seq(StreamEvents)
        /\ Len(SubSeq(run, 1, Len(got))) = Len(got)
        /\ \A i \in 1..Len(got) : SubSeq(run, 1, Len(got))[i] = run[i]
    BY <1>1, <1>2, <1>5, <2>1
  <2> QED  BY <1>4, <2>2, <2>3, SeqEqual
<1>7. ASSUME streamAt[s] = "open" PROVE got \o inbox[s] = run
  <2>1. /\ from + Len(got) + Len(inbox[s]) = Len(all)
        /\ \A i \in 1..Len(inbox[s]) : inbox[s][i] = all[from + Len(got) + i]
    BY <1>3, <1>7 DEF RunOK
  <2>2. /\ got \o inbox[s] \in Seq(StreamEvents)
        /\ Len(got \o inbox[s]) = Len(got) + Len(inbox[s])
        /\ \A i \in 1..Len(got) + Len(inbox[s]) :
             (got \o inbox[s])[i] = IF i <= Len(got) THEN got[i] ELSE inbox[s][i - Len(got)]
    BY <1>1, ConcatProperties
  <2> DEFINE f == from  y == Len(got)  b == Len(inbox[s])  h == Len(all)
  <2>3. f \in Nat /\ y \in Nat /\ b \in Nat /\ h \in Nat /\ f + y + b = h
    BY <1>1, <2>1
  <2>4. Len(run) = y + b
    <3>1. Len(run) = IF f + 1 <= h THEN h - f ELSE 0
      BY <1>2
    <3> HIDE DEF f, y, b, h
    <3> QED  BY <2>3, <3>1
  <2>5. ASSUME NEW i \in 1..y + b PROVE (got \o inbox[s])[i] = run[i]
    <3>1. CASE i <= y
      BY <1>1, <1>4, <2>2, <3>1
    <3>2. CASE ~ (i <= y)
      <4>1. i - y \in 1..b /\ f + y + (i - y) = f + i /\ i \in 1..h - f
        <5> HIDE DEF f, y, b, h
        <5> QED  BY <2>3, <3>2
      <4>2. inbox[s][i - y] = all[f + i]
        BY <2>1, <4>1
      <4> QED  BY <1>2, <2>2, <3>2, <4>1, <4>2
    <3> QED  BY <3>1, <3>2
  <2> QED  BY <1>2, <2>2, <2>4, <2>5, SeqEqual
<1> QED  BY <1>4, <1>5, <1>6, <1>7 DEF IsPrefix, Heard, run

\* A stream yields what was published for its operation from its subscription
\* on, in order and without a gap, up to the first event that ends the
\* operation (stream_progress), however publications and streams interleave.
THEOREM StreamsYieldARun == StreamSpec => []YieldsARun
<1>1. StreamInv => YieldsARun
  BY RunYields DEF YieldsARun
<1> QED  BY <1>1, StreamInvariant, PTL

-----------------------------------------------------------------------------
(* IsolatedRedis.  A list of a project, read from its end, is what was pushed
   and not yet popped. *)
-----------------------------------------------------------------------------
(* Reverse and RemoveAt.                                                   *)

\* The reverse of a sequence has its elements in the other order.
LEMMA ReverseType ==
  ASSUME NEW S, NEW s \in Seq(S)
  PROVE  /\ Reverse(s) \in Seq(S) /\ Len(Reverse(s)) = Len(s)
         /\ \A i \in 1..Len(s) : Reverse(s)[i] = s[Len(s) - i + 1]
<1> DEFINE n == Len(s)
<1>1. n \in Nat
  OBVIOUS
<1>2. \A i \in 1..n : s[n - i + 1] \in S
  <2> HIDE DEF n
  <2>1. \A i \in 1..n : n - i + 1 \in 1..n
    BY <1>1
  <2> QED  BY <2>1 DEF n
<1>3. [i \in 1..n |-> s[n - i + 1]] \in Seq(S)
  BY <1>1, <1>2
<1> QED  BY <1>1, <1>3 DEF Reverse

\* An element that is put in front comes last in the reverse.
LEMMA ReversePush ==
  ASSUME NEW S, NEW s \in Seq(S), NEW t \in S
  PROVE  Reverse(<<t>> \o s) = Reverse(s) \o <<t>>
<1> DEFINE n == Len(s)  u == <<t>> \o s
<1>1. /\ n \in Nat /\ u \in Seq(S) /\ Len(u) = n + 1 /\ u[1] = t
      /\ \A i \in 1..n : u[i + 1] = s[i]
  OBVIOUS
<1> HIDE DEF u
<1>2. /\ Reverse(u) \in Seq(S) /\ Len(Reverse(u)) = n + 1
      /\ \A i \in 1..n + 1 : Reverse(u)[i] = u[n + 1 - i + 1]
  BY <1>1, ReverseType
<1>3. /\ Reverse(s) \in Seq(S) /\ Len(Reverse(s)) = n
      /\ \A i \in 1..n : Reverse(s)[i] = s[n - i + 1]
  BY ReverseType
<1>4. /\ Reverse(s) \o <<t>> \in Seq(S) /\ Len(Reverse(s) \o <<t>>) = n + 1
      /\ \A i \in 1..n : (Reverse(s) \o <<t>>)[i] = Reverse(s)[i]
      /\ (Reverse(s) \o <<t>>)[n + 1] = t
  BY <1>1, <1>3
<1> HIDE DEF n
<1>5. ASSUME NEW i \in 1..n + 1 PROVE Reverse(u)[i] = (Reverse(s) \o <<t>>)[i]
  <2>1. CASE i = n + 1
    <3>1. n + 1 - i + 1 = 1
      BY <1>1, <2>1
    <3> QED  BY <1>1, <1>2, <1>4, <2>1, <3>1
  <2>2. CASE i # n + 1
    <3>1. i \in 1..n /\ n - i + 1 \in 1..n /\ n + 1 - i + 1 = (n - i + 1) + 1
      BY <1>1, <2>2
    <3>2. u[(n - i + 1) + 1] = s[n - i + 1]
      BY <1>1, <3>1
    <3> QED  BY <1>2, <1>3, <1>4, <3>1, <3>2
  <2> QED  BY <2>1, <2>2
<1> QED  BY <1>2, <1>4, <1>5, SeqEqual DEF u

\* Without its last element.
LEMMA RemoveLast ==
  ASSUME NEW S, NEW s \in Seq(S), s # <<>>
  PROVE  /\ RemoveAt(s, Len(s)) \in Seq(S) /\ Len(RemoveAt(s, Len(s))) = Len(s) - 1
         /\ \A i \in 1..Len(s) - 1 : RemoveAt(s, Len(s))[i] = s[i]
<1> DEFINE n == Len(s)
<1>1. n \in Nat /\ n >= 1
  OBVIOUS
<1>2. /\ SubSeq(s, 1, n - 1) \in Seq(S) /\ Len(SubSeq(s, 1, n - 1)) = n - 1
      /\ \A i \in 1..n - 1 : SubSeq(s, 1, n - 1)[i] = s[i]
  <2>1. 1 \in Int /\ n - 1 \in Int /\ \A i \in 1..n - 1 : s[i] \in S
    BY <1>1
  <2>2. /\ SubSeq(s, 1, n - 1) \in Seq(S)
        /\ Len(SubSeq(s, 1, n - 1)) = IF 1 <= n - 1 THEN n - 1 - 1 + 1 ELSE 0
        /\ \A i \in 1..n - 1 - 1 + 1 : SubSeq(s, 1, n - 1)[i] = s[1 + i - 1]
    BY <2>1, SubSeqProperties
  <2> HIDE DEF n
  <2>3. n - 1 - 1 + 1 = n - 1 /\ \A i \in 1..n - 1 : 1 + i - 1 = i
    BY <1>1
  <2>4. (IF 1 <= n - 1 THEN n - 1 - 1 + 1 ELSE 0) = n - 1
    BY <1>1
  <2> QED  BY <2>2, <2>3, <2>4
<1>3. SubSeq(s, n + 1, n) = <<>>
  BY <1>1, SubSeqEmpty
<1>4. RemoveAt(s, n) = SubSeq(s, 1, n - 1)
  BY <1>2, <1>3, ConcatEmptySeq DEF RemoveAt
<1> QED  BY <1>2, <1>4

\* The last element comes first in the reverse.
LEMMA ReverseLast ==
  ASSUME NEW S, NEW s \in Seq(S), s # <<>>
  PROVE  Reverse(s) = <<s[Len(s)]>> \o Reverse(RemoveAt(s, Len(s)))
<1> DEFINE n == Len(s)  r == RemoveAt(s, n)  v == <<s[n]>> \o Reverse(r)
<1>1. n \in Nat /\ n >= 1 /\ s[n] \in S
  OBVIOUS
<1>2. r \in Seq(S) /\ Len(r) = n - 1 /\ \A i \in 1..n - 1 : r[i] = s[i]
  BY RemoveLast
<1> HIDE DEF r
<1>3. /\ Reverse(r) \in Seq(S) /\ Len(Reverse(r)) = n - 1
      /\ \A i \in 1..n - 1 : Reverse(r)[i] = r[n - 1 - i + 1]
  BY <1>2, ReverseType
<1>4. /\ v \in Seq(S) /\ Len(v) = n /\ v[1] = s[n]
      /\ \A i \in 2..n : v[i] = Reverse(r)[i - 1]
  <2>1. Len(<<s[n]>>) = 1 /\ <<s[n]>>[1] = s[n] /\ <<s[n]>> \in Seq(S)
    BY <1>1
  <2>2. /\ v \in Seq(S) /\ Len(v) = 1 + (n - 1)
        /\ \A i \in 1..1 + (n - 1) : v[i] = IF i <= 1 THEN <<s[n]>>[i] ELSE Reverse(r)[i - 1]
    BY <1>3, <2>1, ConcatProperties
  <2> HIDE DEF v
  <2> QED  BY <1>1, <2>1, <2>2
<1>5. /\ Reverse(s) \in Seq(S) /\ Len(Reverse(s)) = n
      /\ \A i \in 1..n : Reverse(s)[i] = s[n - i + 1]
  BY ReverseType
<1> HIDE DEF n, v
<1>6. ASSUME NEW i \in 1..n PROVE Reverse(s)[i] = v[i]
  <2>1. CASE i = 1
    <3>1. n - i + 1 = n
      BY <1>1, <2>1
    <3> QED  BY <1>4, <1>5, <2>1, <3>1
  <2>2. CASE i # 1
    <3>1. /\ i \in 2..n /\ i - 1 \in 1..n - 1
          /\ n - 1 - (i - 1) + 1 = n - i + 1 /\ n - i + 1 \in 1..n - 1
      BY <1>1, <2>2
    <3>2. v[i] = r[n - i + 1]
      BY <1>3, <1>4, <3>1
    <3> QED  BY <1>2, <1>5, <3>1, <3>2
  <2> QED  BY <2>1, <2>2
<1> QED  BY <1>4, <1>5, <1>6, SeqEqual DEF v, r, n

-----------------------------------------------------------------------------
(* Every operation has a command to send.                                  *)

\* What an operation may send: a command of the wrapper or one it refuses.
CommandNames == IsolatedCommands \cup {"setex", "raise", "pipeline", "keys", "slowlog_get"}
\* The commands of an operation; there is at least one.
Operated == Seq(CommandNames) \ {<<>>}

\* An operation of one command.
LEMMA OneCommand ==
  ASSUME NEW a \in CommandNames
  PROVE  <<a>> \in Operated
BY DEF Operated

\* An operation of two commands.
LEMMA TwoCommands ==
  ASSUME NEW a \in CommandNames, NEW b \in CommandNames
  PROVE  <<a, b>> \in Operated
BY DEF Operated

\* An operation that goes on with the commands of another.
LEMMA MoreCommands ==
  ASSUME NEW s \in Operated, NEW t \in Operated
  PROVE  s \o t \in Operated
BY ConcatProperties, ConcatEqualIffEmpty DEF Operated

\* The operations that are written down as commands.
LEMMA SimpleOps ==
  /\ SaveProjectCache \in Operated /\ UpdateAccessStats \in Operated
  /\ InvalidateProject \in Operated /\ SaveSession \in Operated /\ FindSession \in Operated
  /\ DropSession \in Operated /\ ExtendSession \in Operated
  /\ UpdateTaskStatus \in Operated /\ EnqueueTask \in Operated /\ FindTask \in Operated
  /\ ClearQueue \in Operated /\ SaveProgress \in Operated /\ FindProgress \in Operated
  /\ SaveRateLimit \in Operated /\ FindRateLimit \in Operated /\ CheckAndIncrement \in Operated
  /\ ResetWindow \in Operated /\ ServerInfo \in Operated /\ SlowLog \in Operated
  /\ LoadScripts \in Operated /\ CheckSlidingWindow \in Operated /\ CheckTokenBucket \in Operated
  /\ ForgetLimit \in Operated /\ CleanupLimits \in Operated /\ LimitMetrics \in Operated
  /\ CheckLimit \in Operated /\ ForgetWindow \in Operated /\ SlidingWindowCheck \in Operated
  /\ FixedWindowCheck \in Operated /\ AdaptiveMultiplier \in Operated
<1>1. {"get", "setex", "scan", "delete", "lpush", "llen", "clear", "pipeline", "info",
       "slowlog_get", "raise", "keys", "hgetall"} \subseteq CommandNames
  BY DEF CommandNames, IsolatedCommands
<1> QED  BY <1>1, OneCommand, TwoCommands
         DEF SaveProjectCache, UpdateAccessStats, InvalidateProject, SaveSession, FindSession,
             DropSession, ExtendSession, UpdateTaskStatus, EnqueueTask, FindTask, ClearQueue,
             SaveProgress, FindProgress, SaveRateLimit, FindRateLimit, CheckAndIncrement,
             ResetWindow, ServerInfo, SlowLog, LoadScripts, CheckSlidingWindow,
             CheckTokenBucket, ForgetLimit, CleanupLimits, LimitMetrics, CheckLimit,
             ForgetWindow, SlidingWindowCheck, FixedWindowCheck, AdaptiveMultiplier

\* The operations that call others.
LEMMA ComposedOps ==
  /\ FindProjectCache \in Operated /\ UpdateActivity \in Operated /\ DequeueTask \in Operated
  /\ MoveToDeadLetter \in Operated /\ UpdateProgress \in Operated /\ ServerMetrics \in Operated
  /\ CreateSession \in Operated /\ ValidateSession \in Operated /\ RevokeSession \in Operated
  /\ GrantProjectAccess \in Operated /\ CheckRateLimit \in Operated /\ CheckHealth \in Operated
  /\ CurrentUsage \in Operated /\ AdaptiveCheck \in Operated
<1>1. {"get", "rpop", "ttl", "setex", "zcount", "zrange"} \subseteq CommandNames
  BY DEF CommandNames, IsolatedCommands
<1>2. UpdateActivity \in Operated /\ CurrentUsage \in Operated
  BY <1>1 DEF UpdateActivity, CurrentUsage, Operated
<1>3. FindProjectCache \in Operated /\ DequeueTask \in Operated
  <2>1. <<"get">> \in Operated /\ <<"rpop">> \in Operated
    BY <1>1, OneCommand
  <2> QED  BY <2>1, SimpleOps, MoreCommands DEF FindProjectCache, DequeueTask
<1>4. /\ MoveToDeadLetter \in Operated /\ UpdateProgress \in Operated
      /\ CreateSession \in Operated /\ ValidateSession \in Operated
      /\ RevokeSession \in Operated /\ GrantProjectAccess \in Operated
      /\ AdaptiveCheck \in Operated
  BY SimpleOps, MoreCommands DEF MoveToDeadLetter, UpdateProgress, CreateSession,
     ValidateSession, RevokeSession, GrantProjectAccess, AdaptiveCheck
<1>5. /\ ServerInfo \o ServerInfo \o ServerInfo \o ServerInfo \in Operated
      /\ CheckAndIncrement \o FindRateLimit \o FindRateLimit \o FindRateLimit \in Operated
  <2>1. /\ ServerInfo \o ServerInfo \in Operated
        /\ CheckAndIncrement \o FindRateLimit \in Operated
    BY SimpleOps, MoreCommands
  <2>2. /\ ServerInfo \o ServerInfo \o ServerInfo \in Operated
        /\ CheckAndIncrement \o FindRateLimit \o FindRateLimit \in Operated
    BY <2>1, SimpleOps, MoreCommands
  <2> QED  BY <2>2, SimpleOps, MoreCommands
<1> QED  BY <1>2, <1>3, <1>4, <1>5 DEF ServerMetrics, CheckRateLimit, CheckHealth

\* Every operation has a command to send first.
LEMMA EveryOpHasCommands == CacheOps \subseteq Operated
<1>1. {"delete", "exists", "ttl", "expire", "lrange", "llen", "setex", "get", "raise",
       "zcount", "zrange"} \subseteq CommandNames
  BY DEF CommandNames, IsolatedCommands
<1>2. /\ <<"delete">> \in Operated /\ <<"exists">> \in Operated /\ <<"ttl">> \in Operated
      /\ <<"expire">> \in Operated /\ <<"lrange">> \in Operated /\ <<"llen">> \in Operated
      /\ <<"setex">> \in Operated /\ <<"get">> \in Operated /\ <<"raise">> \in Operated
      /\ <<"zcount">> \in Operated /\ <<"zrange">> \in Operated
  BY <1>1, OneCommand
<1>3. ProjectKeyOps \cup QueueReads \cup DropProgress \cup RateLimitReads \subseteq Operated
  BY <1>2, SimpleOps DEF ProjectKeyOps, QueueReads, DropProgress, RateLimitReads
<1>4. RepositoryOps \subseteq Operated
  BY <1>3, SimpleOps, ComposedOps DEF RepositoryOps
<1>5. ServiceOps \subseteq Operated
  BY SimpleOps, ComposedOps DEF ServiceOps, InvalidateProjectCaches, ResetRateLimit,
     RateLimitStatus, ReadPerformance
<1>6. ContextOps \cup UserSessionOps \cup LimitOps \cup ProgressOps \cup StatisticsOps
        \cup AgentConfigOps \subseteq Operated
  BY <1>2, SimpleOps, ComposedOps DEF ContextOps, UserSessionOps, LimitOps, ProgressOps,
     StatisticsOps, AgentConfigOps, RateLimitStatus
<1>7. ManagerOps \subseteq Operated
  BY <1>6, SimpleOps, ComposedOps DEF ManagerOps, CacheProjectData, GetProjectData,
     InvalidateProjectCache, InvalidateProjectCaches, CreateUserSession, GetProgress, ManagerHealth
<1>8. LimitRepositoryOps \subseteq Operated
  BY <1>2, SimpleOps, ComposedOps DEF LimitRepositoryOps, LimitReads
<1> QED  BY <1>4, <1>5, <1>7, <1>8 DEF CacheOps

-----------------------------------------------------------------------------
\* A call under way and what it still has to send.
CacheCalls == [project : CacheProjects, commands : Operated]
\* The keys of the task lists.
ListKeys == {MakeKey(p, "queue") : p \in CacheProjects}

\* The inductive invariant of the project cache.
CacheInv ==
  /\ CacheTypeOK /\ ProjectListIsFifo
  /\ cacheCalls \in [CacheClients -> CacheCalls \cup {NoCall}]

\* What a step does to the list of one project.
LEMMA ListStep ==
  ASSUME CacheInv, NEW p \in CacheProjects,
         NEW L \in Seq(CacheTasks), redisLists' = [redisLists EXCEPT ![MakeKey(p, "queue")] = L],
         NEW P \in Seq(CacheTasks), pushed' = [pushed EXCEPT ![p] = P],
         NEW R \in Seq(CacheTasks), removed' = [removed EXCEPT ![p] = R],
         R \o Reverse(L) = P,
         cacheCalls' \in [CacheClients -> CacheCalls \cup {NoCall}]
  PROVE  CacheInv'
<1>1. /\ redisLists \in [ListKeys -> Seq(CacheTasks)] /\ pushed \in [CacheProjects -> Seq(CacheTasks)]
      /\ removed \in [CacheProjects -> Seq(CacheTasks)] /\ MakeKey(p, "queue") \in ListKeys
  BY DEF CacheInv, CacheTypeOK, ListKeys
<1>2. /\ redisLists' \in [ListKeys -> Seq(CacheTasks)] /\ pushed' \in [CacheProjects -> Seq(CacheTasks)]
      /\ removed' \in [CacheProjects -> Seq(CacheTasks)]
      /\ redisLists'[MakeKey(p, "queue")] = L /\ pushed'[p] = P /\ removed'[p] = R
  BY <1>1
<1>3. ASSUME NEW k \in CacheProjects
      PROVE  removed'[k] \o Reverse(redisLists'[MakeKey(k, "queue")]) = pushed'[k]
  <2>1. CASE k = p
    BY <1>2, <2>1
  <2>2. CASE k # p
    <3>1. MakeKey(k, "queue") # MakeKey(p, "queue") /\ MakeKey(k, "queue") \in ListKeys
      BY <2>2 DEF MakeKey, ListKeys
    <3>2. /\ redisLists'[MakeKey(k, "queue")] = redisLists[MakeKey(k, "queue")]
          /\ pushed'[k] = pushed[k] /\ removed'[k] = removed[k]
      BY <1>1, <2>2, <3>1
    <3> QED  BY <3>2 DEF CacheInv, ProjectListIsFifo
  <2> QED  BY <2>1, <2>2
<1>4. ASSUME NEW c \in CacheClients, cacheCalls'[c] # NoCall
      PROVE  cacheCalls'[c].project \in CacheProjects /\ cacheCalls'[c].commands # <<>>
  BY <1>4 DEF CacheCalls, Operated
<1> QED  BY <1>2, <1>3, <1>4 DEF CacheInv, CacheTypeOK, ProjectListIsFifo, ListKeys

\* A step that leaves the lists as they are.
LEMMA CallStep ==
  ASSUME CacheInv, UNCHANGED <<redisLists, pushed, removed>>,
         cacheCalls' \in [CacheClients -> CacheCalls \cup {NoCall}]
  PROVE  CacheInv'
<1>1. ASSUME NEW c \in CacheClients, cacheCalls'[c] # NoCall
      PROVE  cacheCalls'[c].project \in CacheProjects /\ cacheCalls'[c].commands # <<>>
  BY <1>1 DEF CacheCalls, Operated
<1> QED  BY <1>1 DEF CacheInv, CacheTypeOK, ProjectListIsFifo

\* After its last command a call is over.
LEMMA CommandDoneType ==
  ASSUME CacheInv, NEW c \in CacheClients, cacheCalls[c] # NoCall, CommandDone(c)
  PROVE  cacheCalls' \in [CacheClients -> CacheCalls \cup {NoCall}]
<1> DEFINE call == cacheCalls[c]  rest == Tail(call.commands)
<1>1. call \in CacheCalls /\ cacheCalls \in [CacheClients -> CacheCalls \cup {NoCall}]
  BY DEF CacheInv
<1>2. rest \in Seq(CommandNames)
  BY <1>1 DEF CacheCalls, Operated
<1> HIDE DEF rest
<1>3. rest # <<>> => [call EXCEPT !.commands = rest] \in CacheCalls
  BY <1>1, <1>2 DEF CacheCalls, Operated
<1>4. cacheCalls' = [cacheCalls EXCEPT
                       ![c] = IF rest = <<>> THEN NoCall ELSE [call EXCEPT !.commands = rest]]
  BY DEF CommandDone, rest
<1> QED  BY <1>1, <1>3, <1>4

\* A call works on the list of its own project, which is first in first out so far.
LEMMA ListTypes ==
  ASSUME CacheInv, NEW c \in CacheClients, cacheCalls[c] # NoCall
  PROVE  /\ cacheCalls[c].project \in CacheProjects
         /\ redisLists[ListOf(c)] \in Seq(CacheTasks)
         /\ pushed[cacheCalls[c].project] \in Seq(CacheTasks)
         /\ removed[cacheCalls[c].project] \in Seq(CacheTasks)
         /\ removed[cacheCalls[c].project] \o Reverse(redisLists[ListOf(c)])
              = pushed[cacheCalls[c].project]
<1>1. cacheCalls[c].project \in CacheProjects
  BY DEF CacheInv, CacheTypeOK
<1> QED  BY <1>1 DEF CacheInv, CacheTypeOK, ListOf, ProjectListIsFifo

\* LPUSH puts a task in front, which is behind all the others.
LEMMA PushKeeps ==
  ASSUME CacheInv, NEW c \in CacheClients, PushesTask(c)
  PROVE  CacheInv'
<1> DEFINE p == cacheCalls[c].project  t == <<p, Len(pushed[p]) + 1>>  L == redisLists[ListOf(c)]
<1>1. /\ cacheCalls[c] # NoCall /\ CommandDone(c) /\ Len(pushed[p]) < MaxPushed
      /\ redisLists' = [redisLists EXCEPT ![MakeKey(p, "queue")] = <<t>> \o L]
      /\ pushed' = [pushed EXCEPT ![p] = Append(pushed[p], t)]
      /\ removed' = removed
  BY DEF PushesTask, Sends, ListOf
<1>2. /\ p \in CacheProjects /\ L \in Seq(CacheTasks) /\ pushed[p] \in Seq(CacheTasks)
      /\ removed[p] \in Seq(CacheTasks) /\ removed[p] \o Reverse(L) = pushed[p]
  BY <1>1, ListTypes
<1>3. t \in CacheTasks
  <2>1. Len(pushed[p]) + 1 \in 1..MaxPushed
    BY <1>1, <1>2, CacheAssumption
  <2> QED  BY <1>2, <2>1 DEF CacheTasks
<1>4. removed' = [removed EXCEPT ![p] = removed[p]]
  BY <1>1 DEF CacheInv, CacheTypeOK
<1> HIDE DEF t, L, p
<1>5. <<t>> \in Seq(CacheTasks) /\ Reverse(L) \in Seq(CacheTasks)
  BY <1>2, <1>3, ReverseType
<1>6. <<t>> \o L \in Seq(CacheTasks) /\ Append(pushed[p], t) \in Seq(CacheTasks)
  BY <1>2, <1>3, <1>5
<1>7. removed[p] \o Reverse(<<t>> \o L) = Append(pushed[p], t)
  <2>1. Reverse(<<t>> \o L) = Reverse(L) \o <<t>>
    BY <1>2, <1>3, ReversePush
  <2> DEFINE one == <<t>>  back == Reverse(L)  r == removed[p]
  <2>2. (r \o back) \o one = r \o (back \o one)
    <3>1. r \in Seq(CacheTasks) /\ back \in Seq(CacheTasks) /\ one \in Seq(CacheTasks)
      BY <1>2, <1>5
    <3> HIDE DEF one, back, r
    <3> QED  BY <3>1, ConcatAssociative
  <2>3. Append(pushed[p], t) = pushed[p] \o <<t>>
    BY <1>2, <1>3, AppendIsConcat
  <2> QED  BY <1>2, <2>1, <2>2, <2>3
<1> QED  BY <1>1, <1>2, <1>4, <1>6, <1>7, CommandDoneType, ListStep

\* RPOP takes the last, which is the oldest.
LEMMA PopKeeps ==
  ASSUME CacheInv, NEW c \in CacheClients, PopsTask(c)
  PROVE  CacheInv'
<1> DEFINE p == cacheCalls[c].project  L == redisLists[ListOf(c)]
           t == L[Len(L)]  rest == RemoveAt(L, Len(L))
<1>1. /\ cacheCalls[c] # NoCall /\ CommandDone(c) /\ L # <<>>
      /\ redisLists' = [redisLists EXCEPT ![MakeKey(p, "queue")] = rest]
      /\ removed' = [removed EXCEPT ![p] = Append(removed[p], t)]
      /\ pushed' = pushed
  BY DEF PopsTask, Sends, ListOf, EndOfList
<1>2. /\ p \in CacheProjects /\ L \in Seq(CacheTasks) /\ pushed[p] \in Seq(CacheTasks)
      /\ removed[p] \in Seq(CacheTasks) /\ removed[p] \o Reverse(L) = pushed[p]
  BY <1>1, ListTypes
<1>3. t \in CacheTasks /\ rest \in Seq(CacheTasks)
  BY <1>1, <1>2, RemoveLast
<1>4. pushed' = [pushed EXCEPT ![p] = pushed[p]]
  BY <1>1 DEF CacheInv, CacheTypeOK
<1>5. Reverse(L) = <<t>> \o Reverse(rest)
  BY <1>1, <1>2, ReverseLast
<1> HIDE DEF t, L, p, rest
<1>6. Append(removed[p], t) \o Reverse(rest) = pushed[p]
  <2>1. <<t>> \in Seq(CacheTasks) /\ Reverse(rest) \in Seq(CacheTasks)
    BY <1>3, ReverseType
  <2>2. Append(removed[p], t) = removed[p] \o <<t>>
    BY <1>2, <1>3, AppendIsConcat
  <2> DEFINE one == <<t>>  back == Reverse(rest)  r == removed[p]
  <2>3. (r \o one) \o back = r \o (one \o back)
    <3>1. r \in Seq(CacheTasks) /\ back \in Seq(CacheTasks) /\ one \in Seq(CacheTasks)
      BY <1>2, <2>1
    <3> HIDE DEF one, back, r
    <3> QED  BY <3>1, ConcatAssociative
  <2> QED  BY <1>2, <1>5, <2>2, <2>3
<1>7. Append(removed[p], t) \in Seq(CacheTasks)
  BY <1>2, <1>3
<1> QED  BY <1>1, <1>2, <1>3, <1>4, <1>6, <1>7, CommandDoneType, ListStep

\* DEL removes all that is left, oldest first.
LEMMA ClearKeeps ==
  ASSUME CacheInv, NEW c \in CacheClients, ClearsList(c)
  PROVE  CacheInv'
<1> DEFINE p == cacheCalls[c].project  L == redisLists[ListOf(c)]
<1>1. /\ cacheCalls[c] # NoCall /\ CommandDone(c)
      /\ redisLists' = [redisLists EXCEPT ![MakeKey(p, "queue")] = <<>>]
      /\ removed' = [removed EXCEPT ![p] = removed[p] \o Reverse(L)]
      /\ pushed' = pushed
  BY DEF ClearsList, Sends, ListOf
<1>2. /\ p \in CacheProjects /\ L \in Seq(CacheTasks) /\ pushed[p] \in Seq(CacheTasks)
      /\ removed[p] \in Seq(CacheTasks) /\ removed[p] \o Reverse(L) = pushed[p]
  BY <1>1, ListTypes
<1>3. pushed' = [pushed EXCEPT ![p] = pushed[p]]
  BY <1>1 DEF CacheInv, CacheTypeOK
<1> HIDE DEF L, p
<1>4. <<>> \in Seq(CacheTasks) /\ Reverse(<<>>) = <<>>
  BY DEF Reverse
<1>5. removed' = [removed EXCEPT ![p] = pushed[p]]
  BY <1>1, <1>2
<1>6. pushed[p] \o Reverse(<<>>) = pushed[p]
  BY <1>2, <1>4, ConcatEmptySeq
<1> DEFINE none == <<>>
<1>7. /\ none \in Seq(CacheTasks) /\ pushed[p] \o Reverse(none) = pushed[p]
      /\ redisLists' = [redisLists EXCEPT ![MakeKey(p, "queue")] = none]
  BY <1>1, <1>4, <1>6
<1>8. cacheCalls' \in [CacheClients -> CacheCalls \cup {NoCall}]
  BY <1>1, CommandDoneType
<1> HIDE DEF none
<1> QED  BY <1>2, <1>3, <1>5, <1>7, <1>8, ListStep

\* Every step of a caller keeps the invariant.
LEMMA CacheStepKeeps ==
  ASSUME CacheInv, NEW c \in CacheClients, CacheStep(c)
  PROVE  CacheInv'
<1>1. ASSUME NEW p \in CacheProjects, NEW op \in CacheOps, CallsCache(c, p, op)
      PROVE  CacheInv'
  <2>1. op \in Operated
    BY EveryOpHasCommands
  <2>2. [project |-> p, commands |-> op] \in CacheCalls
    BY <2>1 DEF CacheCalls
  <2> QED  BY <1>1, <2>2, CallStep DEF CallsCache, CacheInv
<1>2. CASE FindsNothing(c) \/ CommandRaises(c)
  BY <1>2, CallStep DEF FindsNothing, CommandRaises, CacheInv
<1>3. CASE ReadsOn(c)
  BY <1>3, CommandDoneType, CallStep DEF ReadsOn
<1> QED  BY <1>1, <1>2, <1>3, PushKeeps, PopKeeps, ClearKeeps DEF CacheStep

\* Induction over the steps of the callers.
LEMMA CacheInvariant == CacheSpec => []CacheInv
<1>1. CacheInit => CacheInv
  <2> SUFFICES ASSUME CacheInit PROVE CacheInv
    OBVIOUS
  <2>1. <<>> \in Seq(CacheTasks) /\ Reverse(<<>>) = <<>> /\ <<>> \o <<>> = <<>>
    BY DEF Reverse
  <2>2. /\ redisLists \in [ListKeys -> Seq(CacheTasks)]
        /\ pushed \in [CacheProjects -> Seq(CacheTasks)]
        /\ removed \in [CacheProjects -> Seq(CacheTasks)]
        /\ cacheCalls \in [CacheClients -> CacheCalls \cup {NoCall}]
        /\ \A c \in CacheClients : cacheCalls[c] = NoCall
    BY <2>1 DEF CacheInit, ListKeys
  <2>3. ProjectListIsFifo
    BY <2>1 DEF CacheInit, ProjectListIsFifo
  <2> QED  BY <2>2, <2>3 DEF CacheInv, CacheTypeOK, ListKeys
<1>2. CacheInv /\ [CacheNext]_cacheVars => CacheInv'
  <2> SUFFICES ASSUME CacheInv, [CacheNext]_cacheVars PROVE CacheInv'
    OBVIOUS
  <2>1. CASE UNCHANGED cacheVars
    BY <2>1 DEF cacheVars, CacheInv, CacheTypeOK, ProjectListIsFifo
  <2> QED  BY <2>1, CacheStepKeeps DEF CacheNext
<1> QED  BY <1>1, <1>2, PTL DEF CacheSpec

\* Lists, calls and histories of the project cache keep their types: no call
\* under way is without a command to send (cache_repository.py and above).
THEOREM CacheTyped == CacheSpec => []CacheTypeOK
<1>1. CacheInv => CacheTypeOK
  BY DEF CacheInv
<1> QED  BY <1>1, CacheInvariant, PTL

\* The task list of a project is a queue of its own (enqueue_task, dequeue_task,
\* clear_queue), whatever calls interleave and whichever fail half way.
THEOREM ProjectListsAreFifo == CacheSpec => []ProjectListIsFifo
<1>1. CacheInv => ProjectListIsFifo
  BY DEF CacheInv
<1> QED  BY <1>1, CacheInvariant, PTL

-----------------------------------------------------------------------------
(* VectorStore.  What a request still has to index and what it has indexed
   make up the indexes of the collection. *)
\* What a request that is about to index still owes, and what it was asked.
RequestOK(r) ==
  /\ vectorAt[r] = "index" /\ ~ recreated =>
       collection /\ IndexFields \ vectorLeft[r] \subseteq indexed
  /\ vectorAt[r] = "create" => vectorLeft[r] = IndexFields
  /\ vectorAt[r] = "retrieve" =>
       vectorAsk[r].context \in VectorContexts /\ vectorAsk[r].id \in PointIds
  /\ vectorAt[r] \in {"search", "upsert"} => vectorAsk[r].context \in VectorContexts

\* The inductive invariant of the vector store.
VectorInv ==
  /\ VectorTypeOK /\ InitializedIsIndexed
  /\ \A r \in VectorRequests : RequestOK(r)

\* The part of the type that is not about requests.
StoreTypeOK ==
  /\ collection \in BOOLEAN /\ vectorReady \in BOOLEAN /\ recreated \in BOOLEAN
  /\ indexed \subseteq IndexFields
  /\ points \in [PointIds -> VectorContexts \cup {NoPoint}]
  /\ ~ collection => indexed = {} /\ points = [i \in PointIds |-> NoPoint]

\* A step that loses an index or the collection is a recreation.
StoreGrows ==
  ~ recreated' => /\ ~ recreated /\ indexed \subseteq indexed'
                  /\ collection => collection'

\* A step of one request, and where it leads.
StepTo(r, l, q, S, A) ==
  /\ l \in VectorLabels /\ vectorAt' = [vectorAt EXCEPT ![r] = l]
  /\ q \in VectorAsks \cup {NoVectorAsk} /\ vectorAsk' = [vectorAsk EXCEPT ![r] = q]
  /\ S \in SUBSET (IndexFields \cup PointIds) /\ vectorLeft' = [vectorLeft EXCEPT ![r] = S]
  /\ A \in SUBSET VectorContexts /\ vectorAnswer' = [vectorAnswer EXCEPT ![r] = A]
  /\ l = "index" /\ ~ recreated' => collection' /\ IndexFields \ S \subseteq indexed'
  /\ l = "create" => S = IndexFields
  /\ l = "retrieve" => q.context \in VectorContexts /\ q.id \in PointIds
  /\ l \in {"search", "upsert"} => q.context \in VectorContexts

\* A step of one request after which the store has grown, or was recreated, keeps what
\* the other requests have done.
LEMMA RequestStep ==
  ASSUME VectorInv, NEW r \in VectorRequests,
         StoreTypeOK', StoreGrows, InitializedIsIndexed',
         NEW l, NEW q, NEW S, NEW A, StepTo(r, l, q, S, A)
  PROVE  VectorInv'
<1>1. VectorTypeOK
  BY DEF VectorInv
<1>2. /\ vectorAt' \in [VectorRequests -> VectorLabels]
      /\ vectorAsk' \in [VectorRequests -> VectorAsks \cup {NoVectorAsk}]
      /\ vectorLeft' \in [VectorRequests -> SUBSET (IndexFields \cup PointIds)]
      /\ vectorAnswer' \in [VectorRequests -> SUBSET VectorContexts]
  BY <1>1 DEF VectorTypeOK, StepTo
<1>3. VectorTypeOK'
  BY <1>2 DEF StoreTypeOK, VectorTypeOK
<1>4. vectorAt'[r] = l /\ vectorAsk'[r] = q /\ vectorLeft'[r] = S
  BY <1>1 DEF VectorTypeOK, StepTo
<1>5. RequestOK(r)'
  BY <1>4 DEF RequestOK, StepTo
<1>6. ASSUME NEW k \in VectorRequests \ {r} PROVE RequestOK(k)'
  <2>1. vectorAt'[k] = vectorAt[k] /\ vectorAsk'[k] = vectorAsk[k] /\ vectorLeft'[k] = vectorLeft[k]
    BY <1>1 DEF VectorTypeOK, StepTo
  <2>2. RequestOK(k)
    BY DEF VectorInv
  <2> QED  BY <2>1, <2>2 DEF RequestOK, StoreGrows
<1> QED  BY <1>3, <1>5, <1>6 DEF VectorInv

\* One that leaves the store as it is.
LEMMA StoreStays ==
  ASSUME VectorInv, UNCHANGED <<Stored, recreated, vectorReady>>
  PROVE  StoreTypeOK' /\ StoreGrows /\ InitializedIsIndexed'
BY DEF VectorInv, VectorTypeOK, StoreTypeOK, StoreGrows, InitializedIsIndexed, Stored

\* A step of one request that leaves the store alone.
LEMMA QuietStep ==
  ASSUME VectorInv, NEW r \in VectorRequests, UNCHANGED <<Stored, recreated, vectorReady>>,
         NEW l \in VectorLabels, VectorGoes(r, l), UNCHANGED <<vectorAsk, vectorAnswer>>,
         NEW S \in SUBSET (IndexFields \cup PointIds), Remains(r, S),
         l = "index" /\ ~ recreated => collection /\ IndexFields \ S \subseteq indexed,
         l = "create" => S = IndexFields,
         l \notin {"retrieve", "search", "upsert"}
  PROVE  VectorInv'
<1>1. VectorTypeOK
  BY DEF VectorInv
<1>2. /\ vectorAsk[r] \in VectorAsks \cup {NoVectorAsk}
      /\ vectorAsk' = [vectorAsk EXCEPT ![r] = vectorAsk[r]]
      /\ vectorAnswer[r] \in SUBSET VectorContexts
      /\ vectorAnswer' = [vectorAnswer EXCEPT ![r] = vectorAnswer[r]]
  BY <1>1 DEF VectorTypeOK
<1>3. StepTo(r, l, vectorAsk[r], S, vectorAnswer[r])
  BY <1>2 DEF VectorGoes, Remains, StepTo, Stored
<1> QED  BY <1>3, StoreStays, RequestStep

\* A request that ends owes nothing.
LEMMA EndingStep ==
  ASSUME VectorInv, NEW r \in VectorRequests, StoreTypeOK', StoreGrows, InitializedIsIndexed',
         VectorEnds(r),
         NEW A \in SUBSET VectorContexts, vectorAnswer' = [vectorAnswer EXCEPT ![r] = A]
  PROVE  VectorInv'
<1>1. StepTo(r, "idle", NoVectorAsk, {}, A)
  BY DEF StepTo, VectorLabels, VectorEnds, VectorGoes, Remains
<1> QED  BY <1>1, RequestStep

\* An answer that does not change is still one.
LEMMA AnswersStay ==
  ASSUME VectorInv, NEW r \in VectorRequests, UNCHANGED vectorAnswer
  PROVE  /\ vectorAnswer[r] \in SUBSET VectorContexts
         /\ vectorAnswer' = [vectorAnswer EXCEPT ![r] = vectorAnswer[r]]
BY DEF VectorInv, VectorTypeOK

-----------------------------------------------------------------------------
\* A request begins with what it was asked and nothing indexed.
LEMMA BeginsKeeps ==
  ASSUME VectorInv, NEW r \in VectorRequests, NEW q \in VectorAsks,
         NEW l \in VectorLabels \ {"create", "index"}, NEW ids \in SUBSET PointIds,
         Begins(r, q, l, ids),
         l = "retrieve" => q.context \in VectorContexts /\ q.id \in PointIds,
         l \in {"search", "upsert"} => q.context \in VectorContexts
  PROVE  VectorInv'
<1>1. /\ vectorAt' = [vectorAt EXCEPT ![r] = l]
      /\ vectorAsk' = [vectorAsk EXCEPT ![r] = q]
      /\ vectorLeft' = [vectorLeft EXCEPT ![r] = ids]
      /\ vectorAnswer' = [vectorAnswer EXCEPT ![r] = {}]
      /\ UNCHANGED <<Stored, recreated, vectorReady>>
  BY DEF Begins, VectorGoes, Remains
<1>2. StepTo(r, l, q, ids, {})
  BY <1>1 DEF StepTo
<1> QED  BY <1>1, <1>2, StoreStays, RequestStep

\* The requests of one context.
LEMMA ContextRequests ==
  ASSUME VectorInv, NEW r \in VectorRequests, NEW context \in VectorContexts,
         \/ SearchVectors(r, context) \/ DeleteByFilter(r, context)
         \/ \E i \in PointIds : GetPoint(r, context, i)
         \/ \E ids \in SUBSET PointIds \ {{}} :
              \/ UpsertVectors(r, context, ids) \/ DeletePoints(r, context, ids)
              \/ TestVectorUpsert(r, context, ids)
  PROVE  VectorInv'
<1>1. CASE SearchVectors(r, context)
  <2> DEFINE q == [op |-> "search", context |-> context]
  <2>1. q \in VectorAsks /\ q.context = context
    BY DEF VectorAsks
  <2>2. Begins(r, q, "search", {})
    BY <1>1 DEF SearchVectors
  <2> HIDE DEF q
  <2> QED  BY <2>1, <2>2, BeginsKeeps DEF VectorLabels
<1>2. CASE DeleteByFilter(r, context)
  <2> DEFINE q == [op |-> "purge", context |-> context]
  <2>1. q \in VectorAsks
    BY DEF VectorAsks
  <2>2. Begins(r, q, "count", {})
    BY <1>2 DEF DeleteByFilter
  <2> HIDE DEF q
  <2> QED  BY <2>1, <2>2, BeginsKeeps DEF VectorLabels
<1>3. ASSUME NEW i \in PointIds, GetPoint(r, context, i) PROVE VectorInv'
  <2> DEFINE q == [op |-> "get", context |-> context, id |-> i]
  <2>1. q \in VectorAsks /\ q.context = context /\ q.id = i
    BY DEF VectorAsks
  <2>2. Begins(r, q, "retrieve", {})
    BY <1>3 DEF GetPoint
  <2> HIDE DEF q
  <2> QED  BY <2>1, <2>2, BeginsKeeps DEF VectorLabels
<1>4. ASSUME NEW ids \in SUBSET PointIds,
             UpsertVectors(r, context, ids) \/ TestVectorUpsert(r, context, ids)
      PROVE  VectorInv'
  <2> DEFINE q == [op |-> "upsert", context |-> context]
  <2>1. q \in VectorAsks /\ q.context = context
    BY DEF VectorAsks
  <2>2. Begins(r, q, "upsert", ids)
    BY <1>4 DEF TestVectorUpsert, UpsertVectors
  <2> HIDE DEF q
  <2> QED  BY <2>1, <2>2, BeginsKeeps DEF VectorLabels
<1>5. ASSUME NEW ids \in SUBSET PointIds, DeletePoints(r, context, ids) PROVE VectorInv'
  <2> DEFINE q == [op |-> "delete", context |-> context]
  <2>1. q \in VectorAsks
    BY DEF VectorAsks
  <2>2. Begins(r, q, "delete", ids)
    BY <1>5 DEF DeletePoints
  <2> HIDE DEF q
  <2> QED  BY <2>1, <2>2, BeginsKeeps DEF VectorLabels
<1> QED  BY <1>1, <1>2, <1>3, <1>4, <1>5

\* The requests of every context, or of none.
LEMMA OtherRequests ==
  ASSUME VectorInv, NEW r \in VectorRequests,
         \/ TestVectorSearch(r) \/ TestMixedWorkload(r)
         \/ HealthCheck(r) \/ GetStatistics(r) \/ InitializesVector(r) \/ RecreateCollection(r)
  PROVE  VectorInv'
<1>1. PICK o \in {"initialize", "recreate", "health", "statistics", "test"},
           l \in {"test", "health", "statistics", "exists", "drop"} :
        Begins(r, [op |-> o], l, {})
  BY DEF TestVectorSearch, TestMixedWorkload, HealthCheck, GetStatistics, LazyStart,
         InitializesVector, RecreateCollection
<1>2. [op |-> o] \in VectorAsks
  BY DEF VectorAsks
<1>3. l \in VectorLabels \ {"create", "index"} /\ l \notin {"retrieve", "search", "upsert"}
  BY DEF VectorLabels
<1> QED  BY <1>1, <1>2, <1>3, BeginsKeeps

\* A request that fails leaves the store as it is.
LEMMA FailsKeeps ==
  ASSUME VectorInv, NEW r \in VectorRequests,
         \/ VectorFails(r) \/ ValidatesSchema(r)
         \/ ChecksCollection(r) /\ ~ collection
  PROVE  VectorInv'
<1>1. VectorEnds(r) /\ UNCHANGED <<Stored, vectorReady, recreated, vectorAnswer>>
  BY DEF VectorFails, ValidatesSchema, ChecksCollection
<1> QED  BY <1>1, StoreStays, AnswersStay, EndingStep

\* A look at the collection decides what a request does next.
LEMMA GoesOnKeeps ==
  ASSUME VectorInv, NEW r \in VectorRequests,
         \/ LooksForCollection(r) \/ RetriesVector(r)
         \/ ChecksCollection(r) /\ collection
         \/ ReportsStatistics(r) \/ CountsPoints(r)
  PROVE  VectorInv'
<1>1. VectorTypeOK /\ RequestOK(r)
  BY DEF VectorInv
<1>2. CASE LooksForCollection(r)
  <2>1. PICK l \in {"index", "create"} : VectorGoes(r, l) /\ (l = "index" => collection)
    BY <1>2 DEF LooksForCollection
  <2> QED  BY <1>2, <2>1, QuietStep DEF LooksForCollection, VectorLabels
<1>3. CASE RetriesVector(r)
  <2>1. PICK l \in {"exists", "index"} : (l = "index" => vectorAt[r] = "index") /\ VectorGoes(r, l)
    BY <1>3 DEF RetriesVector
  <2> QED  BY <1>1, <1>3, <2>1, QuietStep DEF RetriesVector, VectorLabels, RequestOK
<1>4. CASE (ChecksCollection(r) /\ collection) \/ ReportsStatistics(r) \/ CountsPoints(r)
  <2>1. PICK l \in {"schema", "health", "purge"} : VectorGoes(r, l)
    BY <1>4 DEF ChecksCollection, ReportsStatistics, CountsPoints
  <2>2. /\ UNCHANGED <<Stored, vectorReady, recreated, vectorAsk, vectorLeft, vectorAnswer>>
    BY <1>4 DEF ChecksCollection, ReportsStatistics, CountsPoints
  <2>3. vectorLeft[r] \in SUBSET (IndexFields \cup PointIds) /\ Remains(r, vectorLeft[r])
    BY <1>1, <2>2 DEF VectorTypeOK, Remains
  <2> QED  BY <2>1, <2>2, <2>3, QuietStep DEF VectorLabels
<1> QED  BY <1>2, <1>3, <1>4

\* A new collection has no index yet, and its request owes all of them.
LEMMA CreatesKeeps ==
  ASSUME VectorInv, NEW r \in VectorRequests, CreatesCollection(r)
  PROVE  VectorInv'
<1>1. VectorTypeOK /\ InitializedIsIndexed
  BY DEF VectorInv
<1>2. /\ ~ collection /\ collection' = TRUE /\ VectorGoes(r, "index")
      /\ UNCHANGED <<indexed, points, vectorReady, recreated, vectorAsk, vectorLeft, vectorAnswer>>
      /\ vectorAt[r] = "create"
  BY DEF CreatesCollection
<1>3. /\ vectorAt' = [vectorAt EXCEPT ![r] = "index"]
      /\ vectorAsk[r] \in VectorAsks \cup {NoVectorAsk}
      /\ vectorAsk' = [vectorAsk EXCEPT ![r] = vectorAsk[r]]
      /\ vectorLeft' = [vectorLeft EXCEPT ![r] = IndexFields]
      /\ "index" \in VectorLabels
  <2>1. vectorLeft[r] = IndexFields
    BY <1>2 DEF VectorInv, RequestOK
  <2> QED  BY <1>1, <1>2, <2>1 DEF VectorTypeOK, VectorLabels, VectorGoes
<1>4. StoreTypeOK' /\ StoreGrows /\ InitializedIsIndexed'
  BY <1>1, <1>2 DEF VectorTypeOK, StoreTypeOK, StoreGrows, InitializedIsIndexed
<1>5. ~ recreated' => collection' /\ IndexFields \ IndexFields \subseteq indexed'
  BY <1>2
<1>6. StepTo(r, "index", vectorAsk[r], IndexFields, vectorAnswer[r])
  BY <1>2, <1>3, <1>5, AnswersStay DEF StepTo
<1> QED  BY <1>4, <1>6, RequestStep

\* A request owes one index less when it has created it.
LEMMA IndexKeeps ==
  ASSUME VectorInv, NEW r \in VectorRequests, NEW f \in IndexFields, CreatesIndex(r, f)
  PROVE  VectorInv'
<1>1. VectorTypeOK /\ RequestOK(r) /\ InitializedIsIndexed
  BY DEF VectorInv
<1>2. /\ vectorAt[r] = "index" /\ collection /\ indexed' = indexed \cup {f}
      /\ vectorLeft' = [vectorLeft EXCEPT ![r] = vectorLeft[r] \ {f}]
      /\ UNCHANGED <<collection, points, vectorReady, recreated, vectorAt, vectorAsk, vectorAnswer>>
  BY DEF CreatesIndex, Remains
<1>3. /\ vectorAt' = [vectorAt EXCEPT ![r] = "index"]
      /\ vectorAsk[r] \in VectorAsks \cup {NoVectorAsk}
      /\ vectorAsk' = [vectorAsk EXCEPT ![r] = vectorAsk[r]]
      /\ vectorLeft[r] \ {f} \in SUBSET (IndexFields \cup PointIds)
      /\ "index" \in VectorLabels
  BY <1>1, <1>2 DEF VectorTypeOK, VectorLabels
<1>4. StoreTypeOK' /\ StoreGrows /\ InitializedIsIndexed'
  BY <1>1, <1>2 DEF VectorTypeOK, StoreTypeOK, StoreGrows, InitializedIsIndexed
<1>5. ~ recreated' => collection' /\ IndexFields \ (vectorLeft[r] \ {f}) \subseteq indexed'
  BY <1>1, <1>2 DEF RequestOK
<1>6. StepTo(r, "index", vectorAsk[r], vectorLeft[r] \ {f}, vectorAnswer[r])
  BY <1>2, <1>3, <1>5, AnswersStay DEF StepTo
<1> QED  BY <1>4, <1>6, RequestStep

\* A request that has created all indexes marks the store initialised, unless it recreates.
LEMMA InitializedKeeps ==
  ASSUME VectorInv, NEW r \in VectorRequests, VectorInitialized(r)
  PROVE  VectorInv'
<1>1. VectorTypeOK /\ RequestOK(r) /\ InitializedIsIndexed
  BY DEF VectorInv
<1>2. /\ vectorAt[r] = "index" /\ vectorLeft[r] = {}
      /\ UNCHANGED <<Stored, recreated, vectorAnswer>>
      /\ vectorReady' = (vectorReady \/ vectorAsk[r].op # "recreate")
  BY DEF VectorInitialized, AllIndexed
<1>3. vectorReady' \in BOOLEAN
  BY <1>2
<1>4. InitializedIsIndexed'
  <2>1. ~ recreated => collection /\ indexed = IndexFields
    BY <1>1, <1>2 DEF RequestOK, VectorTypeOK
  <2> QED  BY <1>2, <2>1 DEF InitializedIsIndexed, Stored
<1>5. StoreTypeOK' /\ StoreGrows
  BY <1>1, <1>2, <1>3 DEF VectorTypeOK, StoreTypeOK, StoreGrows, Stored
<1>6. CASE vectorAsk[r].op \in {"health", "statistics"}
  <2>1. /\ vectorAt' = [vectorAt EXCEPT ![r] = vectorAsk[r].op]
        /\ UNCHANGED <<vectorAsk, vectorLeft>>
    BY <1>6 DEF VectorInitialized, VectorGoes
  <2>2. /\ vectorAsk[r] \in VectorAsks \cup {NoVectorAsk}
        /\ vectorAsk' = [vectorAsk EXCEPT ![r] = vectorAsk[r]]
        /\ vectorLeft[r] \in SUBSET (IndexFields \cup PointIds)
        /\ vectorLeft' = [vectorLeft EXCEPT ![r] = vectorLeft[r]]
    BY <1>1, <2>1 DEF VectorTypeOK
  <2>3. vectorAsk[r].op \in VectorLabels \ {"create", "index", "retrieve", "search", "upsert"}
    BY <1>6 DEF VectorLabels
  <2>4. StepTo(r, vectorAsk[r].op, vectorAsk[r], vectorLeft[r], vectorAnswer[r])
    BY <1>2, <2>1, <2>2, <2>3, AnswersStay DEF StepTo
  <2> QED  BY <1>4, <1>5, <2>4, RequestStep
<1>7. CASE vectorAsk[r].op \notin {"health", "statistics"}
  BY <1>2, <1>4, <1>5, <1>7, AnswersStay, EndingStep DEF VectorInitialized
<1> QED  BY <1>6, <1>7

\* A recreation drops the collection; from then on nothing is promised.
LEMMA DropsKeeps ==
  ASSUME VectorInv, NEW r \in VectorRequests, DropsCollection(r)
  PROVE  VectorInv'
<1>1. VectorTypeOK /\ InitializedIsIndexed
  BY DEF VectorInv
<1>2. /\ collection' = FALSE /\ indexed' = {} /\ points' = [i \in PointIds |-> NoPoint]
      /\ recreated' = (recreated \/ collection)
      /\ vectorAt' = [vectorAt EXCEPT ![r] = "exists"]
      /\ UNCHANGED <<vectorReady, vectorAsk, vectorLeft, vectorAnswer>>
  BY DEF DropsCollection, VectorGoes
<1>3. /\ vectorAsk[r] \in VectorAsks \cup {NoVectorAsk}
      /\ vectorAsk' = [vectorAsk EXCEPT ![r] = vectorAsk[r]]
      /\ vectorLeft[r] \in SUBSET (IndexFields \cup PointIds)
      /\ vectorLeft' = [vectorLeft EXCEPT ![r] = vectorLeft[r]]
      /\ "exists" \in VectorLabels
  BY <1>1, <1>2 DEF VectorTypeOK, VectorLabels
<1>4. StoreTypeOK'
  BY <1>1, <1>2 DEF VectorTypeOK, StoreTypeOK
<1>5. StoreGrows /\ InitializedIsIndexed'
  BY <1>1, <1>2 DEF VectorTypeOK, StoreGrows, InitializedIsIndexed
<1>6. StepTo(r, "exists", vectorAsk[r], vectorLeft[r], vectorAnswer[r])
  BY <1>2, <1>3, AnswersStay DEF StepTo
<1> QED  BY <1>4, <1>5, <1>6, RequestStep

\* The clean-up forgets that the store is initialised.
LEMMA CleansUpKeeps ==
  ASSUME VectorInv, CleansUpVector
  PROVE  VectorInv'
<1>1. /\ vectorReady' = FALSE
      /\ UNCHANGED <<collection, indexed, points, recreated, vectorAt, vectorAsk, vectorLeft, vectorAnswer>>
  BY DEF CleansUpVector, Stored
<1>2. VectorTypeOK' /\ InitializedIsIndexed'
  BY <1>1 DEF VectorInv, VectorTypeOK, InitializedIsIndexed
<1>3. ASSUME NEW k \in VectorRequests PROVE RequestOK(k)'
  BY <1>1 DEF VectorInv, RequestOK
<1> QED  BY <1>2, <1>3 DEF VectorInv

-----------------------------------------------------------------------------
\* Points that change in a collection.
LEMMA PointsChange ==
  ASSUME VectorInv, collection, points' \in [PointIds -> VectorContexts \cup {NoPoint}],
         UNCHANGED <<collection, indexed, vectorReady, recreated>>
  PROVE  StoreTypeOK' /\ StoreGrows /\ InitializedIsIndexed'
BY DEF VectorInv, VectorTypeOK, StoreTypeOK, StoreGrows, InitializedIsIndexed

\* An upsert writes points of the context it was asked in.
LEMMA UpsertsKeeps ==
  ASSUME VectorInv, NEW r \in VectorRequests, UpsertsBatch(r)
  PROVE  VectorInv'
<1>1. VectorTypeOK /\ RequestOK(r) /\ vectorAt[r] = "upsert"
  BY DEF VectorInv, UpsertsBatch
<1>2. PICK batch \in Batches(vectorLeft[r]) :
        /\ points' = [i \in PointIds |-> IF i \in batch THEN vectorAsk[r].context ELSE points[i]]
        /\ IF batch = vectorLeft[r] THEN VectorEnds(r)
           ELSE Remains(r, vectorLeft[r] \ batch) /\ UNCHANGED <<vectorAt, vectorAsk>>
  BY DEF UpsertsBatch
<1>3. collection /\ UNCHANGED <<collection, indexed, vectorReady, recreated, vectorAnswer>>
  BY DEF UpsertsBatch
<1>4. vectorAsk[r].context \in VectorContexts
  BY <1>1 DEF RequestOK
<1>5. points' \in [PointIds -> VectorContexts \cup {NoPoint}]
  BY <1>1, <1>2, <1>4 DEF VectorTypeOK
<1>6. StoreTypeOK' /\ StoreGrows /\ InitializedIsIndexed'
  BY <1>3, <1>5, PointsChange
<1>7. CASE batch = vectorLeft[r]
  BY <1>2, <1>3, <1>6, <1>7, AnswersStay, EndingStep
<1>8. CASE batch # vectorLeft[r]
  <2>1. /\ vectorLeft' = [vectorLeft EXCEPT ![r] = vectorLeft[r] \ batch]
        /\ UNCHANGED <<vectorAt, vectorAsk>>
    BY <1>2, <1>8 DEF Remains
  <2>2. /\ vectorAt' = [vectorAt EXCEPT ![r] = "upsert"]
        /\ vectorAsk[r] \in VectorAsks \cup {NoVectorAsk}
        /\ vectorAsk' = [vectorAsk EXCEPT ![r] = vectorAsk[r]]
        /\ vectorLeft[r] \ batch \in SUBSET (IndexFields \cup PointIds)
        /\ "upsert" \in VectorLabels
    BY <1>1, <2>1 DEF VectorTypeOK, VectorLabels
  <2>3. StepTo(r, "upsert", vectorAsk[r], vectorLeft[r] \ batch, vectorAnswer[r])
    BY <1>3, <1>4, <2>1, <2>2, AnswersStay DEF StepTo
  <2> QED  BY <1>6, <2>3, RequestStep
<1> QED  BY <1>7, <1>8

\* A deletion removes points and no index.
LEMMA RemovesKeeps ==
  ASSUME VectorInv, NEW r \in VectorRequests, DeletesPoints(r) \/ PurgesPoints(r)
  PROVE  VectorInv'
<1>1. VectorTypeOK
  BY DEF VectorInv
<1>2. /\ collection /\ UNCHANGED <<collection, indexed, vectorReady, recreated, vectorAnswer>>
      /\ VectorEnds(r)
  BY DEF DeletesPoints, PurgesPoints
<1>3. points' \in [PointIds -> VectorContexts \cup {NoPoint}]
  BY <1>1 DEF DeletesPoints, PurgesPoints, VectorTypeOK
<1> QED  BY <1>2, <1>3, PointsChange, AnswersStay, EndingStep

\* A stored payload that can be read in a context is that context.
LEMMA ReadableIsContext ==
  ASSUME VectorTypeOK, NEW context \in VectorContexts, NEW i \in PointIds,
         Readable(context, points[i])
  PROVE  points[i] = context
<1>1. /\ points[i].project = context.project
      /\ points[i].language = context.language
  BY DEF Readable
<1>2. context = [project |-> context.project, language |-> context.language]
  BY VectorAssumption
<1>3. points[i] = [project |-> points[i].project, language |-> points[i].language]
  <2>1. points[i] \in VectorContexts \cup {NoPoint}
    BY DEF VectorTypeOK
  <2> QED  BY <2>1, VectorAssumption DEF NoPoint
<1> QED  BY <1>1, <1>2, <1>3

\* What a get or a search answers.
LEMMA AnswerIsContext ==
  ASSUME VectorInv, NEW r \in VectorRequests, GetsPoint(r) \/ SearchesPoints(r)
  PROVE  \E A \in SUBSET {vectorAsk[r].context} :
           /\ vectorAnswer' = [vectorAnswer EXCEPT ![r] = A]
           /\ vectorAsk[r].context \in VectorContexts
<1> DEFINE context == vectorAsk[r].context
<1>1. VectorTypeOK /\ RequestOK(r)
  BY DEF VectorInv
<1>2. CASE GetsPoint(r)
  <2>1. context \in VectorContexts /\ vectorAsk[r].id \in PointIds
    BY <1>1, <1>2 DEF RequestOK, GetsPoint
  <2>2. PICK A : /\ vectorAnswer' = [vectorAnswer EXCEPT ![r] = A]
                 /\ A = IF Readable(context, points[vectorAsk[r].id])
                          THEN {points[vectorAsk[r].id]} ELSE {}
    BY <1>2 DEF GetsPoint
  <2>3. A \in SUBSET {context}
    BY <1>1, <2>1, <2>2, ReadableIsContext
  <2> QED  BY <2>1, <2>2, <2>3
<1>3. CASE SearchesPoints(r)
  <2>1. context \in VectorContexts
    BY <1>1, <1>3 DEF RequestOK, SearchesPoints
  <2>2. PICK found \in Nearest(context) :
          vectorAnswer' = [vectorAnswer EXCEPT
            ![r] = {points[i] : i \in {j \in found : Readable(context, points[j])}}]
    BY <1>3 DEF SearchesPoints
  <2>3. found \subseteq PointIds
    BY DEF Nearest
  <2>4. {points[i] : i \in {j \in found : Readable(context, points[j])}} \in SUBSET {context}
    BY <1>1, <2>1, <2>3, ReadableIsContext
  <2> QED  BY <2>1, <2>2, <2>4
<1> QED  BY <1>2, <1>3

\* A read answers and ends.
LEMMA ReadsKeep ==
  ASSUME VectorInv, NEW r \in VectorRequests, GetsPoint(r) \/ SearchesPoints(r)
  PROVE  VectorInv'
<1>1. PICK A \in SUBSET {vectorAsk[r].context} :
        /\ vectorAnswer' = [vectorAnswer EXCEPT ![r] = A]
        /\ vectorAsk[r].context \in VectorContexts
  BY AnswerIsContext
<1>2. VectorEnds(r) /\ UNCHANGED <<Stored, vectorReady, recreated>>
  BY DEF GetsPoint, SearchesPoints
<1>3. A \in SUBSET VectorContexts
  BY <1>1
<1> QED  BY <1>1, <1>2, <1>3, StoreStays, EndingStep

-----------------------------------------------------------------------------
\* Every step of a request keeps the invariant.
LEMMA VectorStepKeeps ==
  ASSUME VectorInv, NEW r \in VectorRequests, VectorStep(r)
  PROVE  VectorInv'
<1>1. CASE \E f \in IndexFields : CreatesIndex(r, f)
  BY <1>1, IndexKeeps
<1>2. CASE ChecksCollection(r)
  BY <1>2, FailsKeeps, GoesOnKeeps
<1> QED  BY <1>1, <1>2, ContextRequests, OtherRequests, FailsKeeps, GoesOnKeeps, CreatesKeeps,
         InitializedKeeps, DropsKeeps, UpsertsKeeps, RemovesKeeps, ReadsKeep DEF VectorStep

\* Induction over the steps of the requests.
LEMMA VectorInvariant == VectorSpec => []VectorInv
<1>1. VectorInit => VectorInv
  BY DEF VectorInit, VectorInv, VectorTypeOK, InitializedIsIndexed, RequestOK, VectorLabels
<1>2. VectorInv /\ [VectorNext]_vectorVars => VectorInv'
  <2> SUFFICES ASSUME VectorInv, [VectorNext]_vectorVars PROVE VectorInv'
    OBVIOUS
  <2>1. CASE UNCHANGED vectorVars
    BY <2>1 DEF vectorVars, VectorInv, VectorTypeOK, InitializedIsIndexed, RequestOK
  <2> QED  BY <2>1, CleansUpKeeps, VectorStepKeeps DEF VectorNext
<1> QED  BY <1>1, <1>2, PTL DEF VectorSpec

\* Every variable of the vector store keeps its type, and nothing is indexed or
\* stored without a collection (core/vector.py, services/vector/).
THEOREM VectorTyped == VectorSpec => []VectorTypeOK
<1>1. VectorInv => VectorTypeOK
  BY DEF VectorInv
<1> QED  BY <1>1, VectorInvariant, PTL

\* Until a recreation an initialised process finds the collection with all its
\* indexes: VectorDatabaseManager.initialize and create_indexes, whatever
\* requests run at once, fail or try again.
THEOREM IndexesAreComplete == VectorSpec => []InitializedIsIndexed
<1>1. VectorInv => InitializedIsIndexed
  BY DEF VectorInv
<1> QED  BY <1>1, VectorInvariant, PTL

\* Only the two reads answer with points.
LEMMA AnswersChange ==
  ASSUME VectorInv, NEW r \in VectorRequests, VectorStep(r)
  PROVE  \/ UNCHANGED vectorAnswer
         \/ vectorAnswer' = [vectorAnswer EXCEPT ![r] = {}]
         \/ GetsPoint(r) \/ SearchesPoints(r)
BY DEF VectorStep, SearchVectors, DeleteByFilter, GetPoint, UpsertVectors, DeletePoints,
       TestVectorUpsert, TestVectorSearch, TestMixedWorkload, HealthCheck, GetStatistics,
       InitializesVector, RecreateCollection, Begins, VectorFails, LooksForCollection,
       CreatesCollection, CreatesIndex, RetriesVector, VectorInitialized, DropsCollection,
       ChecksCollection, ValidatesSchema, ReportsStatistics, UpsertsBatch, DeletesPoints,
       CountsPoints, PurgesPoints

\* A get or a search answers points of the context that was asked for and of no
\* other (get_point, search_similar), also when requests of other projects have
\* written the same ids meanwhile.
THEOREM AnswersStayInContext == VectorSpec => AnswersInContext
<1>1. VectorInv /\ [VectorNext]_vectorVars =>
        [\A r \in VectorRequests :
           vectorAnswer'[r] # {} /\ vectorAnswer'[r] # vectorAnswer[r] =>
             vectorAnswer'[r] = {vectorAsk[r].context}]_vectorVars
  <2> SUFFICES ASSUME VectorInv, VectorNext, NEW r \in VectorRequests,
                      vectorAnswer'[r] # {}, vectorAnswer'[r] # vectorAnswer[r]
               PROVE  vectorAnswer'[r] = {vectorAsk[r].context}
    BY DEF vectorVars
  <2>1. PICK k \in VectorRequests : VectorStep(k)
    BY DEF VectorNext, CleansUpVector
  <2>2. vectorAnswer \in [VectorRequests -> SUBSET VectorContexts]
    BY DEF VectorInv, VectorTypeOK
  <2>3. GetsPoint(k) \/ SearchesPoints(k)
    BY <2>1, <2>2, AnswersChange
  <2>4. PICK A \in SUBSET {vectorAsk[k].context} : vectorAnswer' = [vectorAnswer EXCEPT ![k] = A]
    BY <2>3, AnswerIsContext
  <2>5. k = r /\ vectorAnswer'[r] = A
    BY <2>2, <2>4
  <2> QED  BY <2>4, <2>5
<1> QED  BY <1>1, VectorInvariant, PTL DEF VectorSpec, AnswersInContext

-----------------------------------------------------------------------------
(* AgentExecutions.  A request past its check is about a project of its user,
   and a row it has written is of that project. *)
UpdateAsks == [op : {"update"}, user : AgentUsers, project : AgentProjects,
               id : ExecutionIds, status : AskedStatus]
\* A row that was written and not yet committed.
AgentWrites == [id : ExecutionIds, row : ExecutionRows]

\* What a request has been asked, and the row it is about to change: since it
\* has passed its check it belongs to the project, which the user owns.
AgentOK(r) ==
  LET q == agentAsk[r]  w == agentWrite[r] IN
  /\ agentAt[r] # "idle" => q \in AgentAsks
  /\ agentAt[r] \in {"insert", "select", "write", "commit"} => ProjectOwner[q.project] = q.user
  /\ agentAt[r] = "insert" => q.op = "create"
  /\ agentAt[r] = "mark" => q.id \in ExecutionIds \cup {NoExecution}
  /\ agentAt[r] = "write" =>
       /\ q \in UpdateAsks
       /\ executions[q.id] \in ExecutionRows /\ executions[q.id].project = q.project
  /\ agentAt[r] = "commit" =>
       /\ q.op \in {"create", "update"} /\ w.row.project = q.project
       /\ executions[w.id] # NoRow => executions[w.id].project = q.project

\* No two transactions have written one row.
WritesAreApart ==
  \A r, s \in AgentRequests :
    r # s /\ agentWrite[r] # NoAgentWrite => agentWrite[r].id # agentWrite[s].id

\* The inductive invariant of the agent executions.
AgentsInv ==
  /\ AgentsTypeOK /\ WritesAreApart
  /\ \A r \in AgentRequests : AgentOK(r)

\* No execution is the row of none.
LEMMA NoRowIsNone == NoRow \notin ExecutionRows
<1> SUFFICES ASSUME NoRow \in ExecutionRows PROVE FALSE
  OBVIOUS
<1>1. NoRow.project \in AgentProjects
  BY DEF ExecutionRows
<1> QED  BY <1>1, AgentsAssumption DEF NoRow

\* No write is the one of a transaction that has not written.
LEMMA NoWriteIsNone ==
  ASSUME NEW w \in AgentWrites
  PROVE  w # NoAgentWrite
<1>1. w.id \in ExecutionIds
  BY DEF AgentWrites
<1> QED  BY <1>1, AgentsAssumption DEF NoAgentWrite

\* What a request was asked, by its kind.
LEMMA AskKinds ==
  ASSUME NEW q \in AgentAsks
  PROVE  /\ q.op \in {"create", "read", "update", "workflow"}
         /\ q.user \in AgentUsers /\ q.project \in AgentProjects
         /\ q.op = "update" => q \in UpdateAsks
         /\ q.op = "workflow" => q.id \in ExecutionIds \cup {NoExecution}
BY DEF AgentAsks, UpdateAsks

-----------------------------------------------------------------------------
\* A step of one request that commits nothing.
AgentTo(r, l, q, w) ==
  /\ l \in AgentLabels /\ agentAt' = [agentAt EXCEPT ![r] = l]
  /\ q \in AgentAsks \cup {NoAsk} /\ agentAsk' = [agentAsk EXCEPT ![r] = q]
  /\ w \in AgentWrites \cup {NoAgentWrite} /\ agentWrite' = [agentWrite EXCEPT ![r] = w]
  /\ (w # NoAgentWrite) <=> (l \in {"commit", "raise"})
  /\ w = NoAgentWrite \/ ~ Written(w.id)
  /\ UNCHANGED <<executions, erased>>

\* A step of one request that writes no row, after which it is right, keeps the invariant.
LEMMA AgentStepKeeps ==
  ASSUME AgentsInv, NEW r \in AgentRequests, NEW l, NEW q, NEW w, AgentTo(r, l, q, w),
         AgentOK(r)'
  PROVE  AgentsInv'
<1>1. AgentsTypeOK
  BY DEF AgentsInv
<1>2. agentAt'[r] = l /\ agentAsk'[r] = q /\ agentWrite'[r] = w
  BY <1>1 DEF AgentsTypeOK, AgentTo
<1>3. \A k \in AgentRequests \ {r} :
        agentAt'[k] = agentAt[k] /\ agentAsk'[k] = agentAsk[k] /\ agentWrite'[k] = agentWrite[k]
  BY <1>1 DEF AgentsTypeOK, AgentTo
<1>4. AgentsTypeOK'
  <2>1. /\ agentAt' \in [AgentRequests -> AgentLabels]
        /\ agentAsk' \in [AgentRequests -> AgentAsks \cup {NoAsk}]
        /\ agentWrite' \in [AgentRequests -> AgentWrites \cup {NoAgentWrite}]
    BY <1>1 DEF AgentsTypeOK, AgentTo, AgentWrites
  <2>2. \A k \in AgentRequests : (agentWrite'[k] # NoAgentWrite) <=> (agentAt'[k] \in {"commit", "raise"})
    BY <1>1, <1>2, <1>3 DEF AgentsTypeOK, AgentTo
  <2> QED  BY <1>1, <2>1, <2>2 DEF AgentsTypeOK, AgentTo, AgentWrites
<1>5. \A k \in AgentRequests \ {r} : AgentOK(k)'
  <2> SUFFICES ASSUME NEW k \in AgentRequests \ {r} PROVE AgentOK(k)'
    OBVIOUS
  <2>1. AgentOK(k) /\ executions' = executions
    BY DEF AgentsInv, AgentTo
  <2> QED  BY <1>3, <2>1 DEF AgentOK
<1>6. WritesAreApart'
  <2> SUFFICES ASSUME NEW j \in AgentRequests, NEW k \in AgentRequests, j # k,
                      agentWrite'[j] # NoAgentWrite
               PROVE  agentWrite'[j].id # agentWrite'[k].id
    BY DEF WritesAreApart
  <2>1. CASE j # r /\ k # r
    BY <1>3, <2>1 DEF AgentsInv, WritesAreApart
  <2>2. CASE j = r
    BY <1>2, <1>3, <2>2 DEF AgentTo, Written
  <2>3. CASE k = r
    <3>1. w = NoAgentWrite \/ agentWrite[j].id # w.id
      BY <2>3 DEF AgentTo, Written
    <3>2. agentWrite'[j] \in AgentWrites
      BY <1>4, <2>3 DEF AgentsTypeOK, AgentWrites
    <3>3. agentWrite'[j].id # NoExecution
      BY <3>2, AgentsAssumption DEF AgentWrites
    <3> QED  BY <1>2, <1>3, <2>3, <3>1, <3>3 DEF NoAgentWrite
  <2> QED  BY <2>1, <2>2, <2>3
<1> QED  BY <1>4, <1>5, <1>6 DEF AgentsInv

\* A request that ends has written nothing, or what it wrote is rolled back.
LEMMA AgentRefusalKeeps ==
  ASSUME AgentsInv, NEW r \in AgentRequests, AgentEnds(r), UNCHANGED <<executions, erased>>
  PROVE  AgentsInv'
<1>1. AgentTo(r, "idle", NoAsk, NoAgentWrite)
  BY DEF AgentTo, AgentEnds, AgentGoes, AgentLabels
<1>2. agentAt'[r] = "idle"
  BY DEF AgentsInv, AgentsTypeOK, AgentEnds, AgentGoes
<1>3. AgentOK(r)'
  BY <1>2 DEF AgentOK
<1> QED  BY <1>1, <1>3, AgentStepKeeps

\* A request begins without having passed a check.
LEMMA AgentAsksKeeps ==
  ASSUME AgentsInv, NEW r \in AgentRequests, NEW q \in AgentAsks, AsksAgents(r, q)
  PROVE  AgentsInv'
<1>1. agentWrite[r] = NoAgentWrite /\ agentWrite' = [agentWrite EXCEPT ![r] = NoAgentWrite]
  BY DEF AgentsInv, AgentsTypeOK, AsksAgents
<1>2. AgentTo(r, "check", q, NoAgentWrite)
  BY <1>1 DEF AgentTo, AsksAgents, AgentGoes, AgentLabels
<1>3. agentAt'[r] = "check" /\ agentAsk'[r] = q
  BY DEF AgentsInv, AgentsTypeOK, AsksAgents, AgentGoes
<1>4. AgentOK(r)'
  BY <1>3 DEF AgentOK
<1> QED  BY <1>2, <1>4, AgentStepKeeps

\* The requests of the endpoints, each as it is asked.
LEMMA AgentRequestsKeep ==
  ASSUME AgentsInv, NEW r \in AgentRequests, NEW u \in AgentUsers, NEW p \in AgentProjects,
         \/ CreateAgentExecution(r, u, p)
         \/ \E e \in ExecutionIds, s \in AskedStatus : UpdateAgentExecution(r, u, p, e, s)
         \/ GetAgentExecution(r, u, p) \/ ListAgentExecutions(r, u, p)
         \/ GetAgentMetrics(r, u, p)
         \/ \E e \in ExecutionIds \cup {NoExecution} : StartAgentWorkflow(r, u, p, e)
  PROVE  AgentsInv'
<1>1. CASE CreateAgentExecution(r, u, p)
  <2>1. [op |-> "create", user |-> u, project |-> p] \in AgentAsks
    BY DEF AgentAsks
  <2> QED  BY <1>1, <2>1, AgentAsksKeeps DEF CreateAgentExecution
<1>2. CASE GetAgentExecution(r, u, p) \/ ListAgentExecutions(r, u, p) \/ GetAgentMetrics(r, u, p)
  <2>1. ReadOf(u, p) \in AgentAsks
    BY DEF AgentAsks, ReadOf
  <2> QED  BY <1>2, <2>1, AgentAsksKeeps DEF GetAgentExecution, ListAgentExecutions, GetAgentMetrics
<1>3. ASSUME NEW e \in ExecutionIds, NEW s \in AskedStatus, UpdateAgentExecution(r, u, p, e, s)
      PROVE  AgentsInv'
  <2>1. [op |-> "update", user |-> u, project |-> p, id |-> e, status |-> s] \in AgentAsks
    BY DEF AgentAsks
  <2> QED  BY <1>3, <2>1, AgentAsksKeeps DEF UpdateAgentExecution
<1>4. ASSUME NEW e \in ExecutionIds \cup {NoExecution}, StartAgentWorkflow(r, u, p, e)
      PROVE  AgentsInv'
  <2>1. [op |-> "workflow", user |-> u, project |-> p, id |-> e] \in AgentAsks
    BY DEF AgentAsks
  <2> QED  BY <1>4, <2>1, AgentAsksKeeps DEF StartAgentWorkflow
<1> QED  BY <1>1, <1>2, <1>3, <1>4

\* The step of a request that keeps what it was asked.
LEMMA AgentGoesOn ==
  ASSUME AgentsInv, NEW r \in AgentRequests, NEW l \in AgentLabels, AgentGoes(r, l),
         NEW w, agentWrite' = [agentWrite EXCEPT ![r] = w],
         UNCHANGED <<executions, erased, agentAsk>>
  PROVE  /\ agentAt'[r] = l /\ agentAsk'[r] = agentAsk[r] /\ agentWrite'[r] = w
         /\ w = NoAgentWrite /\ l \notin {"commit", "raise"} => AgentTo(r, l, agentAsk[r], w)
         /\ w \in AgentWrites /\ l \in {"commit", "raise"} /\ ~ Written(w.id) =>
              AgentTo(r, l, agentAsk[r], w)
<1>1. /\ agentAsk[r] \in AgentAsks \cup {NoAsk}
      /\ agentAsk' = [agentAsk EXCEPT ![r] = agentAsk[r]]
      /\ agentAt' = [agentAt EXCEPT ![r] = l]
      /\ agentAt'[r] = l /\ agentAsk'[r] = agentAsk[r] /\ agentWrite'[r] = w
  BY DEF AgentsInv, AgentsTypeOK, AgentGoes
<1> QED  BY <1>1, NoWriteIsNone DEF AgentTo

\* Past the check the project is the one of the user.
LEMMA AgentCheckKeeps ==
  ASSUME AgentsInv, NEW r \in AgentRequests, ChecksProjectAccess(r)
  PROVE  AgentsInv'
<1> DEFINE q == agentAsk[r]
<1> DEFINE l == CASE q.op = "create" -> "insert" [] q.op \in {"read", "update"} -> "select"
                  [] q.op = "workflow" -> "mark"
<1>1. /\ agentAt[r] = "check" /\ OwnsProject(q) /\ AgentGoes(r, l)
      /\ UNCHANGED <<executions, erased, agentAsk, agentWrite>>
  BY DEF ChecksProjectAccess
<1>2. AgentsTypeOK /\ q \in AgentAsks
  BY <1>1 DEF AgentsInv, AgentOK
<1>3. /\ agentWrite[r] = NoAgentWrite
      /\ agentWrite' = [agentWrite EXCEPT ![r] = NoAgentWrite]
  BY <1>1, <1>2 DEF AgentsTypeOK
<1>4. /\ l \in {"insert", "select", "mark"}
      /\ l = "insert" => q.op = "create"
      /\ l = "mark" => q.op = "workflow"
      /\ l \in AgentLabels /\ l \notin {"commit", "raise"}
  BY <1>2, AskKinds DEF AgentLabels
<1> HIDE DEF l
<1>5. agentAt'[r] = l /\ agentAsk'[r] = q /\ AgentTo(r, l, q, NoAgentWrite)
  <2>1. agentAt' = [agentAt EXCEPT ![r] = l] /\ agentAsk' = [agentAsk EXCEPT ![r] = q]
    BY <1>1, <1>2 DEF AgentGoes, AgentsTypeOK
  <2>2. agentAt'[r] = l /\ agentAsk'[r] = q
    BY <1>2, <2>1 DEF AgentsTypeOK
  <2>3. AgentTo(r, l, q, NoAgentWrite)
    BY <1>1, <1>2, <1>3, <1>4, <2>1 DEF AgentTo
  <2> QED  BY <2>2, <2>3
<1>6. AgentOK(r)'
  BY <1>1, <1>2, <1>4, <1>5, AskKinds DEF AgentOK, OwnsProject
<1> QED  BY <1>5, <1>6, AgentStepKeeps

\* A new row is of the project that was checked, under an id nobody has.
LEMMA AgentInsertKeeps ==
  ASSUME AgentsInv, NEW r \in AgentRequests, InsertsExecution(r)
  PROVE  AgentsInv'
<1> DEFINE q == agentAsk[r]
<1>1. PICK e \in ExecutionIds :
        ~ Recorded(e) /\ ~ Written(e) /\ Writes(r, e, [project |-> q.project, status |-> "pending"])
  BY DEF InsertsExecution
<1> DEFINE w == [id |-> e, row |-> [project |-> q.project, status |-> "pending"]]
<1>2. agentAt[r] = "insert" /\ AgentGoes(r, "commit") /\ UNCHANGED <<executions, erased, agentAsk>>
  BY DEF InsertsExecution
<1>3. q \in AgentAsks /\ q.op = "create" /\ ProjectOwner[q.project] = q.user
  BY <1>2 DEF AgentsInv, AgentOK
<1>4. w \in AgentWrites /\ w.id = e /\ w.row.project = q.project
  BY <1>3, AskKinds DEF AgentWrites, ExecutionRows, ExecutionStatus
<1>5. agentWrite' = [agentWrite EXCEPT ![r] = w]
  BY <1>1 DEF Writes
<1> HIDE DEF w
<1>6. agentAt'[r] = "commit" /\ agentAsk'[r] = q /\ agentWrite'[r] = w /\ AgentTo(r, "commit", q, w)
  BY <1>1, <1>2, <1>4, <1>5, AgentGoesOn DEF AgentLabels
<1>7. AgentOK(r)'
  BY <1>1, <1>2, <1>3, <1>4, <1>6 DEF AgentOK, Recorded
<1> QED  BY <1>6, <1>7, AgentStepKeeps

\* The row that is selected is of the project that was checked.
LEMMA AgentSelectKeeps ==
  ASSUME AgentsInv, NEW r \in AgentRequests, SelectsExecution(r)
  PROVE  AgentsInv'
<1> DEFINE q == agentAsk[r]
<1>1. /\ agentAt[r] = "select" /\ q.op = "update" /\ Matched(q) /\ AgentGoes(r, "write")
      /\ UNCHANGED <<executions, erased, agentAsk, agentWrite>>
  BY DEF SelectsExecution
<1>2. AgentsTypeOK /\ q \in AgentAsks /\ ProjectOwner[q.project] = q.user
  BY <1>1 DEF AgentsInv, AgentOK
<1>3. /\ agentWrite[r] = NoAgentWrite
      /\ agentWrite' = [agentWrite EXCEPT ![r] = NoAgentWrite]
  BY <1>1, <1>2 DEF AgentsTypeOK
<1>4. agentAt'[r] = "write" /\ agentAsk'[r] = q /\ AgentTo(r, "write", q, NoAgentWrite)
  BY <1>1, <1>3, AgentGoesOn DEF AgentLabels
<1>5. q \in UpdateAsks /\ q.id \in ExecutionIds
  BY <1>1, <1>2, AskKinds DEF UpdateAsks
<1>6. executions[q.id] \in ExecutionRows /\ executions[q.id].project = q.project
  BY <1>1, <1>2, <1>5 DEF Matched, Recorded, AgentsTypeOK
<1>7. AgentOK(r)'
  BY <1>1, <1>2, <1>4, <1>5, <1>6 DEF AgentOK
<1> QED  BY <1>4, <1>7, AgentStepKeeps

\* The row stays in its project, and no other transaction has written it.
LEMMA AgentUpdateKeeps ==
  ASSUME AgentsInv, NEW r \in AgentRequests, UpdatesExecution(r)
  PROVE  AgentsInv'
<1> DEFINE q == agentAsk[r]
<1> DEFINE row == [executions[q.id] EXCEPT !.status = q.status]
<1> DEFINE w == [id |-> q.id, row |-> row]
<1>1. /\ agentAt[r] = "write" /\ ~ Written(q.id)
      /\ agentWrite' = [agentWrite EXCEPT ![r] = w]
      /\ AgentGoes(r, "commit") /\ UNCHANGED <<executions, erased, agentAsk>>
  BY DEF UpdatesExecution, Writes
<1>2. /\ q \in AgentAsks /\ q \in UpdateAsks /\ ProjectOwner[q.project] = q.user
      /\ executions[q.id] \in ExecutionRows /\ executions[q.id].project = q.project
  BY <1>1 DEF AgentsInv, AgentOK
<1>3. q.id \in ExecutionIds /\ q.status \in AskedStatus /\ q.op = "update"
  BY <1>2 DEF UpdateAsks
<1>4. row \in ExecutionRows /\ row.project = q.project
  BY <1>2, <1>3 DEF ExecutionRows, ExecutionStatus
<1>5. w \in AgentWrites /\ w.id = q.id /\ w.row = row
  BY <1>3, <1>4 DEF AgentWrites
<1> HIDE DEF w, row
<1>6. agentAt'[r] = "commit" /\ agentAsk'[r] = q /\ agentWrite'[r] = w /\ AgentTo(r, "commit", q, w)
  BY <1>1, <1>5, AgentGoesOn DEF AgentLabels
<1>7. AgentOK(r)'
  BY <1>1, <1>2, <1>3, <1>4, <1>5, <1>6 DEF AgentOK
<1> QED  BY <1>6, <1>7, AgentStepKeeps

\* The failure of a workflow is written to a row that the rollback restores.
LEMMA AgentMarkKeeps ==
  ASSUME AgentsInv, NEW r \in AgentRequests, FailsExecution(r)
  PROVE  AgentsInv'
<1> DEFINE q == agentAsk[r]
<1> DEFINE row == [executions[q.id] EXCEPT !.status = "failed"]
<1> DEFINE w == [id |-> q.id, row |-> row]
<1>1. /\ agentAt[r] = "mark" /\ Correlated(q.id) /\ ~ Written(q.id)
      /\ agentWrite' = [agentWrite EXCEPT ![r] = w]
      /\ AgentGoes(r, "raise") /\ UNCHANGED <<executions, erased, agentAsk>>
  BY DEF FailsExecution, Writes, AfterFailure
<1>2. AgentsTypeOK /\ q \in AgentAsks /\ q.id \in ExecutionIds \cup {NoExecution}
  BY <1>1 DEF AgentsInv, AgentOK
<1>3. q.id \in ExecutionIds /\ executions[q.id] \in ExecutionRows
  BY <1>1, <1>2 DEF Correlated, Recorded, AgentsTypeOK
<1>4. row \in ExecutionRows
  BY <1>3 DEF ExecutionRows, ExecutionStatus
<1>5. w \in AgentWrites /\ w.id = q.id
  BY <1>3, <1>4 DEF AgentWrites
<1> HIDE DEF w, row
<1>6. agentAt'[r] = "raise" /\ agentAsk'[r] = q /\ agentWrite'[r] = w /\ AgentTo(r, "raise", q, w)
  BY <1>1, <1>5, AgentGoesOn DEF AgentLabels
<1>7. AgentOK(r)'
  BY <1>2, <1>6 DEF AgentOK
<1> QED  BY <1>6, <1>7, AgentStepKeeps

-----------------------------------------------------------------------------
\* A commit changes one row, and only what its project and its owner allow.
LEMMA CommitChanges ==
  ASSUME AgentsInv, NEW r \in AgentRequests, CommitsExecution(r)
  PROVE  /\ agentWrite[r] \in AgentWrites
         /\ executions' = [executions EXCEPT ![agentWrite[r].id] = agentWrite[r].row]
         /\ agentAsk[r].op \in {"create", "update"}
         /\ agentAsk[r].project = agentWrite[r].row.project
         /\ agentAsk[r].user = ProjectOwner[agentWrite[r].row.project]
         /\ executions[agentWrite[r].id] # NoRow =>
              executions[agentWrite[r].id].project = agentWrite[r].row.project
<1>1. agentAt[r] = "commit" /\ executions' = [executions EXCEPT ![agentWrite[r].id] = agentWrite[r].row]
  BY DEF CommitsExecution
<1>2. AgentsTypeOK /\ AgentOK(r)
  BY DEF AgentsInv
<1>3. agentWrite[r] \in AgentWrites
  BY <1>1, <1>2 DEF AgentsTypeOK, AgentWrites
<1> QED  BY <1>1, <1>2, <1>3 DEF AgentOK

\* A commit changes one row, which no other transaction has written.
LEMMA AgentCommitKeeps ==
  ASSUME AgentsInv, NEW r \in AgentRequests, CommitsExecution(r)
  PROVE  AgentsInv'
<1> DEFINE w == agentWrite[r]
<1>1. /\ w \in AgentWrites /\ executions' = [executions EXCEPT ![w.id] = w.row]
      /\ executions[w.id] # NoRow => executions[w.id].project = w.row.project
  BY CommitChanges
<1>2. w.id \in ExecutionIds /\ w.row \in ExecutionRows
  BY <1>1 DEF AgentWrites
<1>3. AgentsTypeOK
  BY DEF AgentsInv
<1>4. /\ agentAt' = [agentAt EXCEPT ![r] = "idle"]
      /\ agentAsk' = [agentAsk EXCEPT ![r] = NoAsk]
      /\ agentWrite' = [agentWrite EXCEPT ![r] = NoAgentWrite]
      /\ erased' = erased
  BY DEF CommitsExecution, AgentEnds, AgentGoes
<1>5. \A k \in AgentRequests \ {r} :
        agentAt'[k] = agentAt[k] /\ agentAsk'[k] = agentAsk[k] /\ agentWrite'[k] = agentWrite[k]
  BY <1>3, <1>4 DEF AgentsTypeOK
<1>6. agentAt'[r] = "idle" /\ agentWrite'[r] = NoAgentWrite
  BY <1>3, <1>4 DEF AgentsTypeOK
<1>7. AgentsTypeOK'
  <2>1. /\ agentAt' \in [AgentRequests -> AgentLabels]
        /\ agentAsk' \in [AgentRequests -> AgentAsks \cup {NoAsk}]
        /\ agentWrite' \in [AgentRequests ->
             [id : ExecutionIds, row : ExecutionRows] \cup {NoAgentWrite}]
        /\ executions' \in [ExecutionIds -> ExecutionRows \cup {NoRow}]
    BY <1>1, <1>2, <1>3, <1>4 DEF AgentsTypeOK, AgentLabels
  <2>2. \A k \in AgentRequests : (agentWrite'[k] # NoAgentWrite) <=> (agentAt'[k] \in {"commit", "raise"})
    BY <1>3, <1>5, <1>6 DEF AgentsTypeOK
  <2> QED  BY <1>3, <1>4, <2>1, <2>2 DEF AgentsTypeOK
<1>8. WritesAreApart'
  <2> SUFFICES ASSUME NEW j \in AgentRequests, NEW k \in AgentRequests, j # k,
                      agentWrite'[j] # NoAgentWrite
               PROVE  agentWrite'[j].id # agentWrite'[k].id
    BY DEF WritesAreApart
  <2>1. j # r /\ agentWrite'[j] = agentWrite[j]
    BY <1>5, <1>6
  <2>2. CASE k # r
    BY <1>5, <2>1, <2>2 DEF AgentsInv, WritesAreApart
  <2>3. CASE k = r
    <3>1. agentWrite[j].id \in ExecutionIds
      BY <1>3, <2>1 DEF AgentsTypeOK
    <3> QED  BY <1>6, <2>1, <2>3, <3>1, AgentsAssumption DEF NoAgentWrite
  <2> QED  BY <2>2, <2>3
<1>9. ASSUME NEW k \in AgentRequests PROVE AgentOK(k)'
  <2>1. CASE k = r
    BY <1>6, <2>1 DEF AgentOK
  <2>2. CASE k # r
    <3>1. AgentOK(k)
      BY DEF AgentsInv
    <3>2. agentAt[k] = "write" =>
            executions'[agentAsk[k].id] \in ExecutionRows
            /\ executions'[agentAsk[k].id].project = agentAsk[k].project
      <4> SUFFICES ASSUME agentAt[k] = "write"
                   PROVE  executions'[agentAsk[k].id] \in ExecutionRows
                          /\ executions'[agentAsk[k].id].project = agentAsk[k].project
        OBVIOUS
      <4>1. /\ agentAsk[k].id \in ExecutionIds /\ executions[agentAsk[k].id] \in ExecutionRows
            /\ executions[agentAsk[k].id].project = agentAsk[k].project
        BY <3>1 DEF AgentOK, UpdateAsks
      <4>2. executions[agentAsk[k].id] # NoRow
        BY <4>1, NoRowIsNone
      <4> QED  BY <1>1, <1>2, <1>3, <4>1, <4>2 DEF AgentsTypeOK
    <3>3. agentAt[k] = "commit" =>
            agentWrite[k].id # w.id /\ agentWrite[k].id \in ExecutionIds
      <4> SUFFICES ASSUME agentAt[k] = "commit"
                   PROVE  agentWrite[k].id # w.id /\ agentWrite[k].id \in ExecutionIds
        OBVIOUS
      <4>1. agentWrite[k] # NoAgentWrite /\ agentWrite[k].id \in ExecutionIds
        BY <1>3 DEF AgentsTypeOK
      <4> QED  BY <2>2, <4>1 DEF AgentsInv, WritesAreApart
    <3>4. agentAt[k] = "commit" => executions'[agentWrite[k].id] = executions[agentWrite[k].id]
      BY <1>1, <1>3, <3>3 DEF AgentsTypeOK
    <3> QED  BY <1>5, <2>2, <3>1, <3>2, <3>4 DEF AgentOK
  <2> QED  BY <2>1, <2>2
<1> QED  BY <1>7, <1>8, <1>9 DEF AgentsInv

\* Every step of a request keeps the invariant.
LEMMA AgentsStepKeeps ==
  ASSUME AgentsInv, NEW r \in AgentRequests, AgentsStep(r)
  PROVE  AgentsInv'
<1>1. CASE \E u \in AgentUsers, p \in AgentProjects :
        \/ CreateAgentExecution(r, u, p)
        \/ \E e \in ExecutionIds, s \in AskedStatus : UpdateAgentExecution(r, u, p, e, s)
        \/ GetAgentExecution(r, u, p) \/ ListAgentExecutions(r, u, p)
        \/ GetAgentMetrics(r, u, p)
        \/ \E e \in ExecutionIds \cup {NoExecution} : StartAgentWorkflow(r, u, p, e)
  BY <1>1, AgentRequestsKeep
<1>2. CASE AgentRefused(r) \/ GetsById(r) \/ GetsProjectExecutions(r) \/ GetsMetrics(r)
           \/ WorkflowRaises(r)
  BY <1>2, AgentRefusalKeeps DEF AgentRefused, GetsById, GetsProjectExecutions, GetsMetrics,
                                 SelectsAndEnds, WorkflowRaises
<1> QED  BY <1>1, <1>2, AgentCheckKeeps, AgentInsertKeeps, AgentSelectKeeps, AgentUpdateKeeps,
         AgentMarkKeeps, AgentCommitKeeps DEF AgentsStep

\* Induction over the steps of the requests.
LEMMA AgentsInvariant == AgentsSpec => []AgentsInv
<1>1. AgentsInit => AgentsInv
  BY DEF AgentsInit, AgentsInv, AgentsTypeOK, AgentOK, WritesAreApart, AgentLabels
<1>2. AgentsInv /\ [AgentsNext]_agentVars => AgentsInv'
  <2> SUFFICES ASSUME AgentsInv, [AgentsNext]_agentVars PROVE AgentsInv'
    OBVIOUS
  <2>1. CASE UNCHANGED agentVars
    BY <2>1 DEF agentVars, AgentsInv, AgentsTypeOK, AgentOK, WritesAreApart
  <2>2. ASSUME NEW p \in AgentProjects, ErasesProject(p) PROVE AgentsInv'
    BY <2>2 DEF ErasesProject, AgentsInv, AgentsTypeOK, AgentOK, WritesAreApart
  <2> QED  BY <2>1, <2>2, AgentsStepKeeps DEF AgentsNext
<1> QED  BY <1>1, <1>2, PTL DEF AgentsSpec

\* Executions, requests and their uncommitted rows keep their types, and a
\* request holds a row exactly between its write and its end (agents/tracker.py).
THEOREM AgentsTyped == AgentsSpec => []AgentsTypeOK
<1>1. AgentsInv => AgentsTypeOK
  BY DEF AgentsInv
<1> QED  BY <1>1, AgentsInvariant, PTL

\* No row changes but by a commit.
LEMMA OnlyCommitsChange ==
  ASSUME AgentsNext, executions' # executions
  PROVE  \E r \in AgentRequests : CommitsExecution(r)
<1>1. PICK r \in AgentRequests : AgentsStep(r)
  BY DEF AgentsNext, ErasesProject
<1>2. ASSUME NEW q PROVE ~ AsksAgents(r, q)
  BY DEF AsksAgents
<1>3. ASSUME NEW u \in AgentUsers, NEW p \in AgentProjects
      PROVE  ~ \/ CreateAgentExecution(r, u, p)
               \/ \E e \in ExecutionIds, s \in AskedStatus : UpdateAgentExecution(r, u, p, e, s)
               \/ GetAgentExecution(r, u, p) \/ ListAgentExecutions(r, u, p)
               \/ GetAgentMetrics(r, u, p)
               \/ \E e \in ExecutionIds \cup {NoExecution} : StartAgentWorkflow(r, u, p, e)
  BY <1>2 DEF CreateAgentExecution, UpdateAgentExecution, GetAgentExecution,
              ListAgentExecutions, GetAgentMetrics, StartAgentWorkflow
<1>4. ~ \/ ChecksProjectAccess(r) \/ AgentRefused(r) \/ InsertsExecution(r)
        \/ GetsById(r) \/ GetsProjectExecutions(r) \/ GetsMetrics(r) \/ SelectsExecution(r)
        \/ UpdatesExecution(r) \/ FailsExecution(r) \/ WorkflowRaises(r)
  BY DEF ChecksProjectAccess, AgentRefused, InsertsExecution, GetsById, GetsProjectExecutions,
         GetsMetrics, SelectsAndEnds, SelectsExecution, UpdatesExecution, FailsExecution,
         WorkflowRaises
<1> QED  BY <1>1, <1>3, <1>4 DEF AgentsStep

\* An execution changes only by a create or an update of the owner of its
\* project: no update that names another project and no failing workflow with
\* its correlation id leaves a trace (agents.py, orchestrator.py, tracker.py).
THEOREM ExecutionsChangeByOwner == AgentsSpec => OnlyOwnersChange
<1>1. AgentsInv /\ [AgentsNext]_agentVars =>
        [\A e \in ExecutionIds : executions'[e] # executions[e] =>
           \E r \in AgentRequests :
             /\ agentAt[r] = "commit" /\ agentAt'[r] = "idle"
             /\ agentAsk[r].op \in {"create", "update"}
             /\ agentAsk[r].project = executions'[e].project
             /\ agentAsk[r].user = ProjectOwner[executions'[e].project]]_agentVars
  <2> SUFFICES ASSUME AgentsInv, AgentsNext, NEW e \in ExecutionIds,
                      executions'[e] # executions[e]
               PROVE  \E r \in AgentRequests :
                        /\ agentAt[r] = "commit" /\ agentAt'[r] = "idle"
                        /\ agentAsk[r].op \in {"create", "update"}
                        /\ agentAsk[r].project = executions'[e].project
                        /\ agentAsk[r].user = ProjectOwner[executions'[e].project]
    BY DEF agentVars
  <2>1. PICK r \in AgentRequests : CommitsExecution(r)
    BY OnlyCommitsChange
  <2>2. agentAt[r] = "commit" /\ agentAt'[r] = "idle"
    BY <2>1 DEF CommitsExecution, AgentEnds, AgentGoes, AgentsInv, AgentsTypeOK
  <2>3. executions'[e] = agentWrite[r].row
    BY <2>1, CommitChanges DEF AgentsInv, AgentsTypeOK
  <2> QED  BY <2>1, <2>2, <2>3, CommitChanges
<1> QED  BY <1>1, AgentsInvariant, PTL DEF AgentsSpec, OnlyOwnersChange

-----------------------------------------------------------------------------
(* The services together: they share no state, so that a behaviour of the
   process is one of each service. *)
LEMMA ServicesAreParts ==
  Spec => /\ AgentsSpec
          /\ BucketSpec
          /\ StreamSpec
          /\ VectorSpec
          /\ CacheSpec
          /\ ConnSpec
          /\ BackupSpec
          /\ LifeSpec
<1> DEFINE Steps ==
      /\ [AgentsNext]_agentVars
      /\ [BucketNext]_bucketVars
      /\ [StreamNext]_streamVars
      /\ [VectorNext]_vectorVars
      /\ [CacheNext]_cacheVars
      /\ [ConnNext]_connVars
      /\ [BackupNext]_backupVars
      /\ [LifeNext]_lifeVars
<1>1. Init => /\ AgentsInit
              /\ BucketInit
              /\ StreamInit
              /\ VectorInit
              /\ CacheInit
              /\ ConnInit
              /\ BackupInit
              /\ LifeInit
  BY DEF Init
<1>2. [Next]_servicesVars => Steps
  <2>1. ASSUME Next PROVE Steps
    BY <2>1 DEF Next, NotAgents, NotBucket, NotStreams, NotVector, NotCache, NotConnections,
            NotBackups, NotLifespan
  <2>2. ASSUME UNCHANGED servicesVars PROVE Steps
    BY <2>2 DEF servicesVars
  <2> QED
    BY <2>1, <2>2
<1> QED
  BY <1>1, <1>2, PTL
     DEF Spec, AgentsSpec, BucketSpec, StreamSpec, VectorSpec,
         CacheSpec, ConnSpec, BackupSpec, LifeSpec

\* Each service keeps the types of its state, whichever of them a behaviour is
\* about.
THEOREM ServicesTyped == Spec => []ServicesTypeOK
<1> DEFINE Parts == {"agents", "bucket", "streams", "vector", "cache", "connections",
                     "backups", "lifespan"}
<1>1. Init => part \in Parts
  BY DEF Init
<1>2. part \in Parts /\ [Next]_servicesVars => (part \in Parts)'
  BY DEF Next, servicesVars
<1>3. Spec => [](part \in Parts)
  BY <1>1, <1>2, PTL DEF Spec
<1>4. /\ part \in Parts
      /\ AgentsTypeOK
      /\ BucketTypeOK
      /\ StreamTypeOK
      /\ VectorTypeOK
      /\ CacheTypeOK
      /\ ConnTypeOK
      /\ BackupTypeOK
      /\ LifeTypeOK
      => ServicesTypeOK
  BY DEF ServicesTypeOK
<1> QED
  BY <1>3, <1>4, ServicesAreParts, AgentsTyped, BucketTyped, StreamsTyped, VectorTyped,
     CacheTyped, ConnectionsTyped, BackupsTyped, LifespanTyped, PTL
=============================================================================
