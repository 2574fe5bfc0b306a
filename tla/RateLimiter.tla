---------------------------- MODULE RateLimiter ----------------------------
(***************************************************************************)
(* The sliding window rate limiter of the HTTP middleware, for one project *)
(* (services/rate_limiting/rate_limiter.py).  The middleware makes one     *)
(* check after the other for a request, each of a key of its own; a check  *)
(* reads the clock of its process and then runs a Lua script in Redis,     *)
(* which is atomic.  Any error lets the request pass.  Real time is the    *)
(* integer clock; the clock of a process is ahead of it by a constant.     *)
(***************************************************************************)
EXTENDS Integers, FiniteSets

CONSTANTS
  Checks,     \* checks in flight: a slot is used again when it is free
  Processes,  \* API processes, each with its own script SHAs
  Keys,       \* rate_limit:{type}:{identifier}:{window}
  Asks,       \* what a check can be: its key, process and cost
  Limit,      \* Limit[k]: requests_per_window
  Window,     \* Window[k]: window_seconds
  Ahead,      \* Ahead[p]: how far the clock of p is ahead
  MaxAhead,   \* bound on Ahead
  MaxDelay,   \* bound on the time from reading the clock to the script,
              \* a repetition after a lost reply included
  Draws,      \* values of math.random in a member
  MaxTime,    \* bound on clock, for TLC
  None

ASSUME RateAssumption ==
  /\ Asks \subseteq [key : Keys, process : Processes, cost : Nat \ {0}]
  /\ Limit \in [Keys -> Nat \ {0}]
  /\ Window \in [Keys -> Nat \ {0}]
  /\ MaxAhead \in Nat /\ MaxDelay \in Nat /\ MaxTime \in Nat
  /\ Ahead \in [Processes -> 0..MaxAhead]
  /\ IsFiniteSet(Draws)
  /\ None \notin Asks

VARIABLES
  clock,
  zset,     \* zset[k]: the members of the sorted set, by score and draw
  expires,  \* expires[k]: when the key expires
  pc,       \* where a check is
  ask,      \* what it is
  stamp,    \* now, as its process read it
  units     \* history: what was added to zset[k], and when

check == <<pc, ask, stamp>>
vars == <<clock, zset, expires, check, units>>

Entries == [at : Int, n : Draws]
Units == [at : Int, n : Draws, ran : Int]
\* "script": the script is on its way; "resent": a second time; "granted" and
\* "refused": its answer is there.
Labels == {"idle", "script", "resent", "granted", "refused"}
UnderWay(c) == pc[c] \in {"script", "resent"}

Key(c) == ask[c].key
Now(p) == clock + Ahead[p]

\* By so much may the window that a script prunes be too short or too long.
Slack == MaxAhead + MaxDelay

Member(u) == [at |-> u.at, n |-> u.n]

\* What was added to the key in the last d units of time.
AddedWithin(k, d) == {u \in units[k] : u.ran > clock - d}

-----------------------------------------------------------------------------
(* RateLimiter._check_rate_limit *)

\* check_ip_rate_limit, check_user_rate_limit, ..., each with a key, a limit and
\* a window of its own: the scripts are loaded, if they are not, and then the
\* clock is read.
ReadsClock(c, q) ==
  /\ pc[c] = "idle"
  /\ pc' = [pc EXCEPT ![c] = "script"]
  /\ ask' = [ask EXCEPT ![c] = q]
  /\ stamp' = [stamp EXCEPT ![c] = Now(q.process)]
  /\ UNCHANGED <<clock, zset, expires, units>>

\* mutant: half of the window is removed, too
KeptHalf(k, now) == {e \in zset[k] : 2 * e.at > 2 * now - Window[k]}

\* mutant: ZREMRANGEBYSCORE is forgotten
KeptAll(k, now) == zset[k]

Kept(k, now) == {e \in zset[k] : e.at > now - Window[k]}

Exceeds(k, now, cost) == Cardinality(Kept(k, now)) + cost > Limit[k]

\* The members of one request: its draws may coincide, with each other and
\* with those of a request of the same time, and then they count once.
Members(now, cost) ==
  {M \in SUBSET [at : {now}, n : Draws] : M # {} /\ Cardinality(M) <= cost}

ExpiresAt(k) == clock + Window[k]

\* The script: after a refusal nothing but the pruning is left.
Refuses(c) ==
  LET k == Key(c) IN
  /\ Exceeds(k, stamp[c], ask[c].cost)
  /\ zset' = [zset EXCEPT ![k] = Kept(k, stamp[c])]
  /\ UNCHANGED <<expires, units>>

Grants(c) ==
  LET k == Key(c)
      kept == Kept(k, stamp[c])
  IN
  /\ ~ Exceeds(k, stamp[c], ask[c].cost)
  /\ \E M \in Members(stamp[c], ask[c].cost) :
       /\ zset' = [zset EXCEPT ![k] = kept \cup M]
       /\ units' = [units EXCEPT ![k] = @ \cup
            {[at |-> e.at, n |-> e.n, ran |-> clock] : e \in M \ kept}]
  /\ expires' = [expires EXCEPT ![k] = ExpiresAt(k)]

\* What a check leaves behind when it waits for the script no more.
Forgets(c, label) ==
  /\ pc' = [pc EXCEPT ![c] = label]
  /\ ask' = [ask EXCEPT ![c] = None]
  /\ stamp' = [stamp EXCEPT ![c] = 0]
  /\ UNCHANGED clock

ScriptAnswers(c) ==
  /\ UnderWay(c)
  /\ \/ Refuses(c) /\ Forgets(c, "refused")
     \/ Grants(c) /\ Forgets(c, "granted")

\* The answer is late: redis-py (retry_on_timeout) sends the script once more,
\* with the same arguments.
AnswerIsLate(c) ==
  /\ pc[c] = "script"
  /\ Refuses(c) \/ Grants(c)
  /\ pc' = [pc EXCEPT ![c] = "resent"]
  /\ UNCHANGED <<clock, ask, stamp>>

\* Every exception, of SCRIPT LOAD, EVALSHA (NOSCRIPT too) or ZCARD, is answered
\* with allowed=True, also after a refusal.
CheckFails(c) ==
  /\ pc[c] # "idle"
  /\ Forgets(c, "idle")
  /\ UNCHANGED <<zset, expires, units>>

\* ZCARD, for a span attribute, and the answer.
CheckEnds(c) ==
  /\ pc[c] \in {"granted", "refused"}
  /\ Forgets(c, "idle")
  /\ UNCHANGED <<zset, expires, units>>

-----------------------------------------------------------------------------
(* RateLimiter.reset_rate_limit, Redis and time *)

ResetRateLimit(k) ==
  /\ zset' = [zset EXCEPT ![k] = {}]
  /\ units' = [units EXCEPT ![k] = {}]
  /\ UNCHANGED <<clock, expires, check>>

\* Redis starts again without its data.  (It always loses the script cache;
\* the processes do not load the scripts again, and each check fails.)
RedisLosesData ==
  /\ zset' = [k \in Keys |-> {}]
  /\ units' = [k \in Keys |-> {}]
  /\ UNCHANGED <<clock, expires, check>>

Tick ==
  /\ clock < MaxTime
  /\ \A c \in Checks :
       UnderWay(c) => clock < stamp[c] - Ahead[ask[c].process] + MaxDelay
  /\ clock' = clock + 1
  /\ zset' = [k \in Keys |-> IF expires[k] <= clock' THEN {} ELSE zset[k]]
  /\ units' = [k \in Keys |-> {u \in units[k] : u.ran > clock' - Window[k] - Slack}]
  /\ UNCHANGED <<expires, check>>

-----------------------------------------------------------------------------
Init ==
  /\ clock = 0
  /\ zset = [k \in Keys |-> {}] /\ expires = [k \in Keys |-> 0]
  /\ pc = [c \in Checks |-> "idle"]
  /\ ask = [c \in Checks |-> None]
  /\ stamp = [c \in Checks |-> 0]
  /\ units = [k \in Keys |-> {}]

CheckStep(c) ==
  \/ \E q \in Asks : ReadsClock(c, q)
  \/ ScriptAnswers(c) \/ AnswerIsLate(c) \/ CheckFails(c) \/ CheckEnds(c)

Next ==
  \/ \E c \in Checks : CheckStep(c)
  \/ \E k \in Keys : ResetRateLimit(k)
  \/ RedisLosesData \/ Tick

Spec == Init /\ [][Next]_vars
-----------------------------------------------------------------------------
(* Properties *)

\* Every variable keeps its type.
TypeOK ==
  /\ clock \in 0..MaxTime
  /\ zset \in [Keys -> SUBSET Entries] /\ expires \in [Keys -> Nat]
  /\ pc \in [Checks -> Labels] /\ ask \in [Checks -> Asks \cup {None}]
  /\ stamp \in [Checks -> Int]
  /\ \A c \in Checks : ask[c] # None <=> UnderWay(c)
  /\ units \in [Keys -> SUBSET Units]

\* The sorted set never holds more than the limit, however checks of several
\* processes, repeated scripts, resets and expiry interleave.
StoredWithinLimit == \A k \in Keys : Cardinality(zset[k]) <= Limit[k]

\* The limiter's promise: in any stretch of real time of the window's length
\* less the slack of clocks and delays, at most the limit is added to a key.
WindowLimit ==
  \A k \in Keys : Cardinality(AddedWithin(k, Window[k] - Slack)) <= Limit[k]

\* Its converse: a check is refused only for what was added within the window
\* and the slack, never for anything older, and never because of refusals.
RefusedOnlyWhenUsed ==
  [][\A c \in Checks :
       pc[c] # "refused" /\ pc'[c] = "refused" =>
         Cardinality(AddedWithin(Key(c), Window[Key(c)] + Slack)) + ask[c].cost
           > Limit[Key(c)]]_vars
=============================================================================
