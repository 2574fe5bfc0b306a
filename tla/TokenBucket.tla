---------------------------- MODULE TokenBucket ----------------------------
(***************************************************************************)
(* The token bucket of one identifier (services/rate_limiting/             *)
(* strategies.py): a process reads its clock in whole seconds and runs a   *)
(* script that refills the bucket by the time since the last script, which *)
(* another process may have run with a later time.  The bucket expires     *)
(* when it has been full for a second.                                     *)
(***************************************************************************)
EXTENDS Integers

CONSTANTS
  BucketClients,
  BucketLimit,    \* limit, the capacity
  BucketWindow,   \* window, in seconds
  BucketCosts,
  MaxBucketTime,  \* the clock stops here
  MaxScriptLag    \* from reading the clock to the script, in seconds

ASSUME BucketAssumption ==
  /\ BucketLimit \in Nat \ {0}
  /\ BucketWindow \in Nat \ {0}
  /\ BucketCosts \subseteq Nat \ {0}
  /\ MaxBucketTime \in Nat
  /\ MaxScriptLag \in Nat

VARIABLES
  bucketClock,
  bucketNow,      \* the time a client has read, or NotRead
  bucket,         \* tokens, last_refill and the expiry of the key, or NoBucket
  admitted,       \* units granted since the key was created
  bucketSpan      \* the first and the latest time a script had since then

bucketVars == <<bucketClock, bucketNow, bucket, admitted, bucketSpan>>

NotRead == -1
NoBucket == [tokens |-> 0, last |-> 0, expires |-> -1]
NoSpan == [first |-> 0, latest |-> 0]

AtMost(a, b) == IF a <= b THEN a ELSE b
AtLeast(a, b) == IF a >= b THEN a ELSE b
-----------------------------------------------------------------------------
RefillRate == AtLeast(1, BucketLimit \div BucketWindow)

\* mutant: elapsed time is never negative, so a late script credits time twice
RefilledForward(b, now) ==
  AtMost(BucketLimit, b.tokens + RefillRate * AtLeast(0, now - b.last))

\* mutant: a full bucket goes on filling
RefilledBeyond(b, now) == b.tokens + RefillRate * (now - b.last)

\* current_tokens after the refill, in the script
Refilled(b, now) == AtMost(BucketLimit, b.tokens + RefillRate * (now - b.last))

Available(now) == IF bucket = NoBucket THEN BucketLimit ELSE Refilled(bucket, now)

\* EXPIRE by math.ceil(capacity / refill_rate) + 1
Lifetime == ((BucketLimit + RefillRate - 1) \div RefillRate) + 1

StoresBucket(tokens, now) ==
  /\ bucket' = [tokens |-> tokens, last |-> now, expires |-> bucketClock + Lifetime]
  /\ bucketSpan' = IF bucket = NoBucket THEN [first |-> now, latest |-> now]
                   ELSE [bucketSpan EXCEPT !.latest = AtLeast(@, now)]

ReadsBucketClock(c) ==
  /\ bucketNow[c] = NotRead
  /\ bucketNow' = [bucketNow EXCEPT ![c] = bucketClock]
  /\ UNCHANGED <<bucketClock, bucket, admitted, bucketSpan>>

BucketGrants(c, cost) ==
  /\ bucketNow[c] # NotRead
  /\ Available(bucketNow[c]) >= cost
  /\ StoresBucket(Available(bucketNow[c]) - cost, bucketNow[c])
  /\ admitted' = IF bucket = NoBucket THEN cost ELSE admitted + cost
  /\ bucketNow' = [bucketNow EXCEPT ![c] = NotRead]
  /\ UNCHANGED bucketClock

BucketRefuses(c, cost) ==
  /\ bucketNow[c] # NotRead
  /\ Available(bucketNow[c]) < cost
  /\ StoresBucket(Available(bucketNow[c]), bucketNow[c])
  /\ admitted' = IF bucket = NoBucket THEN 0 ELSE admitted
  /\ bucketNow' = [bucketNow EXCEPT ![c] = NotRead]
  /\ UNCHANGED bucketClock

\* The connection fails before the script has run.
BucketCallFails(c) ==
  /\ bucketNow[c] # NotRead
  /\ bucketNow' = [bucketNow EXCEPT ![c] = NotRead]
  /\ UNCHANGED <<bucketClock, bucket, admitted, bucketSpan>>

\* Time passes, unless a script would be too late; the key expires.
BucketTick ==
  /\ bucketClock < MaxBucketTime
  /\ \A c \in BucketClients :
       bucketNow[c] # NotRead => bucketClock < bucketNow[c] + MaxScriptLag
  /\ bucketClock' = bucketClock + 1
  /\ LET gone == bucket # NoBucket /\ bucket.expires <= bucketClock + 1 IN
     /\ bucket' = IF gone THEN NoBucket ELSE bucket
     /\ admitted' = IF gone THEN 0 ELSE admitted
     /\ bucketSpan' = IF gone THEN NoSpan ELSE bucketSpan
  /\ UNCHANGED bucketNow

BucketInit ==
  /\ bucketClock = 0
  /\ bucketNow = [c \in BucketClients |-> NotRead]
  /\ bucket = NoBucket
  /\ admitted = 0
  /\ bucketSpan = NoSpan

BucketNext ==
  \/ \E c \in BucketClients :
       \/ ReadsBucketClock(c) \/ BucketCallFails(c)
       \/ \E cost \in BucketCosts : BucketGrants(c, cost) \/ BucketRefuses(c, cost)
  \/ BucketTick

BucketSpec == BucketInit /\ [][BucketNext]_bucketVars
-----------------------------------------------------------------------------
\* The bucket never holds more than its capacity and times are in the past;
\* a script with an early time may leave it with less than nothing.
BucketTypeOK ==
  /\ bucketClock \in Nat
  /\ bucketNow \in [BucketClients -> Nat \cup {NotRead}]
  /\ bucket \in [tokens : Int, last : Nat, expires : Nat] \cup {NoBucket}
  /\ bucket.tokens <= BucketLimit
  /\ admitted \in Nat
  /\ bucketSpan \in [first : Nat, latest : Nat]

\* As long as its key lives a bucket grants at most its capacity and what the
\* rate adds from the first to the latest time a script ran with, however the
\* scripts of the processes are ordered.
BucketWithinRate ==
  admitted <= BucketLimit + RefillRate * (bucketSpan.latest - bucketSpan.first)

\* An early script takes back what it does not refill: a bucket that is below
\* zero owes no more than the time it lags behind the latest script.
BucketInv ==
  /\ BucketTypeOK
  /\ bucket = NoBucket => admitted = 0 /\ bucketSpan = NoSpan
  /\ bucket # NoBucket =>
       /\ admitted + bucket.tokens <= BucketLimit + RefillRate * (bucket.last - bucketSpan.first)
       /\ bucket.tokens + RefillRate * (bucketSpan.latest - bucket.last) >= 0
       /\ bucket.last <= bucketSpan.latest
=============================================================================
