---------------------------- MODULE CallerLimits ---------------------------
(***************************************************************************)
(* The burst control of the MCP server (src/aizk/mcp/middleware.py): every *)
(* request passes the protocol check, gets its user from its credential    *)
(* and is charged to that user's token bucket, one of a bounded table that *)
(* drops the bucket used longest ago.                                      *)
(***************************************************************************)
EXTENDS Integers, Sequences, FiniteSets, FiniteSetsExt, SequencesExt, SequenceTheorems,
        TLAPS

CONSTANTS
    Credential,
    UserOf,      \* the user a credential resolves to; those without one share
    Cost,        \* the parts of a token a call takes
    Rate,        \* the parts a tick adds
    BurstTicks,  \* 5 seconds of them fill a bucket
    TableSize,   \* 4096 in the code
    MaxNow       \* bound on the clock

LimitAssumption ==
    /\ Cost \in Nat \ {0} /\ Rate \in Nat /\ BurstTicks \in Nat \ {0} /\ TableSize \in Nat \ {0} /\ MaxNow \in Nat
    /\ DOMAIN UserOf = Credential

User == {UserOf[c] : c \in Credential}

VARIABLES
    now,
    order,     \* users with a bucket, least recently charged first
    bucket,    \* by user: tokens, and when they were last refilled
    born,      \* by user with a bucket: when it was made
    admitted   \* by user with a bucket: calls admitted since

vars == <<now, order, bucket, born, admitted>>

\* round(): to the nearest, halves to the even one.
Round(n, d) ==
    LET q == n \div d  r == n % d
    IN IF 2 * r > d \/ (2 * r = d /\ q % 2 = 1) THEN q + 1 ELSE q

Capacity == Cost * Max({1, Round(Rate * BurstTicks, Cost)})

TypeOK ==
    /\ now \in 0..MaxNow
    /\ Range(order) \subseteq User /\ Len(order) <= TableSize /\ IsInjective(order)
    /\ DOMAIN bucket = Range(order) /\ DOMAIN born = Range(order) /\ DOMAIN admitted = Range(order)
    /\ \A u \in Range(order) : bucket[u].tokens \in 0..Capacity /\ bucket[u].at \in 0..now

Init == now = 0 /\ order = <<>> /\ bucket = <<>> /\ born = <<>> /\ admitted = <<>>

Fresh == [tokens |-> Capacity, at |-> now]

\* A new bucket takes the place of the one charged longest ago.
Evict(users) == IF Len(users) >= TableSize THEN Tail(users) ELSE users

Place(u) == CHOOSE i \in DOMAIN order : order[i] = u

\* CallerRateLimit.limiter: a charge moves its bucket to the end.
Touched(u) ==
    Append(IF u \in Range(order) THEN RemoveAt(order, Place(u)) ELSE Evict(order), u)

\* TokenBucketRateLimiter.consume, before it takes the token.
Refilled(b) == [tokens |-> Min({Capacity, b.tokens + Rate * (now - b.at)}), at |-> now]

Charge(b) == IF b.tokens >= Cost THEN [b EXCEPT !.tokens = @ - Cost] ELSE b

\* A tool call or a resource read of the current protocol.
Call(c) ==
    LET u == UserOf[c]
        known == u \in Range(order)
        b == Refilled(IF known THEN bucket[u] ELSE Fresh)
        kept == Range(Touched(u))
        Keep(f, value) == [v \in kept |-> IF v = u THEN value ELSE f[v]]
    IN /\ order' = Touched(u)
       /\ bucket' = Keep(bucket, Charge(b))
       /\ born' = Keep(born, IF known THEN born[u] ELSE now)
       /\ admitted' = Keep(admitted, (IF known THEN admitted[u] ELSE 0)
                                     + (IF b.tokens >= Cost THEN 1 ELSE 0))
       /\ UNCHANGED now

Tick == now < MaxNow /\ now' = now + 1 /\ UNCHANGED <<order, bucket, born, admitted>>

Next == Tick \/ \E c \in Credential : Call(c)

Spec == Init /\ [][Next]_vars

-----------------------------------------------------------------------------
(* Properties.                                                             *)

\* As long as a user keeps its bucket, the calls admitted since it was made
\* are at most the burst plus what the elapsed time refilled, however calls
\* of several clients of that user interleave.
BurstBound ==
    \A u \in Range(order) : Cost * admitted[u] <= Capacity + Rate * (now - born[u])

\* Users cannot consume one another's allowance: a step takes tokens of one
\* user at most, and while the table has room no bucket is lost.
Independent ==
    /\ \A u, v \in Range(order) : u # v =>
          ~(/\ u \in Range(order') /\ v \in Range(order')
            /\ bucket'[u] # bucket[u] /\ bucket'[v] # bucket[v])
    /\ Len(order) < TableSize => Range(order) \subseteq Range(order')

\* Only the bucket that was idle longest is ever dropped.
IdlestGoes ==
    \A u \in Range(order) \ Range(order') : \A v \in Range(order) : bucket[u].at <= bucket[v].at

\* A refusal costs nothing: what a user may spend only falls by a call that
\* was admitted, so retrying does not put off the next admission.
Spendable(u) == Refilled(bucket[u]).tokens
RefusalsAreFree ==
    \A u \in Range(order) :
       u \in Range(order') /\ Spendable(u)' < Spendable(u) => admitted'[u] = admitted[u] + 1

-----------------------------------------------------------------------------
(* The inductive invariant. Every bucket has been paid for: what it holds  *)
(* and what it admitted is at most a full bucket and what was added up to  *)
(* its last refill; and the table is in the order of the refills.          *)

Paid(u) ==
    bucket[u].tokens + Cost * admitted[u] <= Capacity + Rate * (bucket[u].at - born[u])

InOrder ==
    \A i, j \in DOMAIN order : i < j => bucket[order[i]].at <= bucket[order[j]].at

LimitInv ==
    /\ now \in 0..MaxNow
    /\ order \in Seq(User) /\ Len(order) <= TableSize /\ IsInjective(order)
    /\ bucket \in [Range(order) -> [tokens : 0..Capacity, at : 0..now]]
    /\ born \in [Range(order) -> Nat] /\ admitted \in [Range(order) -> Nat]
    /\ \A u \in Range(order) : born[u] <= bucket[u].at /\ Paid(u)
    /\ InOrder

-----------------------------------------------------------------------------
(* Its proof.                                                              *)

\* The least and the greatest of two numbers.
LEMMA OfTwo ==
  ASSUME NEW a \in Int, NEW b \in Int
  PROVE  /\ Max({a, b}) \in Int /\ Max({a, b}) >= a /\ Max({a, b}) >= b
         /\ Min({a, b}) = IF a <= b THEN a ELSE b
<1>1. Max({a, b}) \in {a, b} /\ \A y \in {a, b} : Max({a, b}) >= y
  <2>1. \E x \in {a, b} : \A y \in {a, b} : x >= y
    OBVIOUS
  <2>. QED  BY <2>1 DEF Max
<1>2. Min({a, b}) \in {a, b} /\ \A y \in {a, b} : Min({a, b}) =< y
  <2>1. \E x \in {a, b} : \A y \in {a, b} : x =< y
    OBVIOUS
  <2>. QED  BY <2>1 DEF Min
<1>. QED  BY <1>1, <1>2

\* Products of naturals, the only ones below.
LEMMA CostTimes ==
  ASSUME NEW c \in Nat, NEW n \in Nat
  PROVE  c * n \in Nat /\ c * (n + 1) = c * n + c /\ (n >= 1 => c <= c * n)
<1>1. c * n \in Nat /\ c * (n + 1) = c * n + c
  OBVIOUS
<1>2. ASSUME n >= 1 PROVE c <= c * n
  <2>1. n - 1 \in Nat /\ c * (n - 1) \in Nat /\ c * n = c * (n - 1) + c
    BY <1>2
  <2>. QED  BY <2>1, <1>1
<1>. QED  BY <1>1, <1>2

\* Refills add up.
LEMMA RateTimes ==
  ASSUME NEW r \in Nat, NEW a \in Nat, NEW b \in Nat, NEW c \in Nat, a <= b, b <= c
  PROVE  /\ r * (b - a) \in Nat /\ r * (c - b) \in Nat /\ r * (c - a) \in Nat
         /\ r * (c - a) = r * (b - a) + r * (c - b)
<1>. DEFINE x == b - a  y == c - b
<1>1. x \in Nat /\ y \in Nat /\ c - a = x + y
  OBVIOUS
<1>. HIDE DEF x, y
<1>2. r * x \in Nat /\ r * y \in Nat /\ r * (x + y) = r * x + r * y /\ r * (x + y) \in Nat
  BY <1>1
<1>3. b - a = x /\ c - b = y
  BY DEF x, y
<1>. QED  BY <1>1, <1>2, <1>3

\* A bucket holds at least one token, of Cost parts.
LEMMA CapacityNat ==
  ASSUME LimitAssumption
  PROVE  Capacity \in Nat /\ Cost <= Capacity
<1>1. Cost \in Nat /\ Cost > 0 /\ Rate * BurstTicks \in Nat
  BY DEF LimitAssumption
<1>2. ASSUME NEW n \in Nat, NEW d \in Nat, d > 0 PROVE Round(n, d) \in Int
  BY <1>2 DEF Round
<1>3. Round(Rate * BurstTicks, Cost) \in Int
  BY <1>1, <1>2
<1>. DEFINE m == Max({1, Round(Rate * BurstTicks, Cost)})
<1>4. m \in Int /\ m >= 1
  <2>1. 1 \in Int
    OBVIOUS
  <2>. QED  BY <1>3, <2>1, OfTwo, Zenon
<1>. HIDE DEF m
<1>5. Cost * m \in Nat /\ Cost <= Cost * m
  BY <1>1, <1>4, CostTimes
<1>. QED  BY <1>5 DEF Capacity, m

\* Taking one place out of a sequence moves the later ones up.
LEMMA Removed ==
  ASSUME NEW S, NEW s \in Seq(S), NEW k \in 1..Len(s)
  PROVE  /\ RemoveAt(s, k) \in Seq(S) /\ Len(RemoveAt(s, k)) = Len(s) - 1
         /\ \A j \in 1..Len(s) - 1 : RemoveAt(s, k)[j] = IF j < k THEN s[j] ELSE s[j + 1]
<1>. DEFINE before == SubSeq(s, 1, k - 1)  after == SubSeq(s, k + 1, Len(s))
<1>0. Len(s) \in Nat
  BY LenProperties
<1>1. before \in Seq(S) /\ Len(before) = k - 1 /\ \A j \in 1..k - 1 : before[j] = s[j]
  BY <1>0, SubSeqProperties
<1>2. /\ after \in Seq(S) /\ Len(after) = Len(s) - k
      /\ \A j \in 1..Len(s) - k : after[j] = s[k + j]
  BY <1>0, SubSeqProperties
<1>. HIDE DEF before, after
<1>3. /\ before \o after \in Seq(S) /\ Len(before \o after) = Len(before) + Len(after)
      /\ \A j \in 1..Len(before) + Len(after) :
            (before \o after)[j] = IF j <= Len(before) THEN before[j] ELSE after[j - Len(before)]
  BY <1>1, <1>2, ConcatProperties
<1>4. ASSUME NEW j \in 1..Len(s) - 1
      PROVE  (before \o after)[j] = IF j < k THEN s[j] ELSE s[j + 1]
  <2>1. CASE j < k
    BY <1>0, <1>1, <1>2, <1>3, <2>1
  <2>2. CASE j >= k
    <3>1. j - (k - 1) \in 1..Len(s) - k /\ k + (j - (k - 1)) = j + 1
      BY <1>0, <2>2
    <3>2. j \in 1..Len(before) + Len(after) /\ ~(j <= Len(before))
      BY <1>0, <1>1, <1>2, <2>2
    <3>3. (before \o after)[j] = after[j - (k - 1)]
      BY <1>1, <1>3, <3>2
    <3>4. after[j - (k - 1)] = s[k + (j - (k - 1))]
      BY <1>2, <3>1
    <3>5. (before \o after)[j] = s[j + 1] /\ ~(j < k)
      BY <1>0, <2>2, <3>1, <3>3, <3>4
    <3>. QED  BY <3>5
  <2>3. j < k \/ j >= k
    BY <1>0
  <2>. QED  BY <2>1, <2>2, <2>3
<1>5. RemoveAt(s, k) = before \o after
  BY DEF RemoveAt, before, after
<1>6. Len(before \o after) = Len(s) - 1
  BY <1>0, <1>1, <1>2, <1>3
<1>. QED  BY <1>3, <1>4, <1>5, <1>6


\* The table after a charge of u: the users at k and beyond move up, and what
\* was at k is u's own bucket or, in a full table without one, the first.
Moved(u, k) ==
    LET new == Touched(u)
    IN /\ new \in Seq(User) /\ Len(new) \in 1..TableSize /\ new[Len(new)] = u
       /\ Len(new) = IF k \in DOMAIN order THEN Len(order) ELSE Len(order) + 1
       /\ \A j \in 1..Len(new) - 1 : new[j] = IF j < k THEN order[j] ELSE order[j + 1]
       /\ \A i \in DOMAIN order : i # k => order[i] # u
       /\ IF k \in DOMAIN order
          THEN order[k] = u \/ (k = 1 /\ Len(order) = TableSize /\ u \notin Range(order))
          ELSE Len(order) < TableSize /\ u \notin Range(order)

\* Every charge moves the table so.
LEMMA TouchedMoves ==
  ASSUME LimitAssumption, LimitInv, NEW u \in User
  PROVE  \E k \in 1..Len(order) + 1 : Moved(u, k)
<1>1. /\ order \in Seq(User) /\ Len(order) \in 0..TableSize /\ DOMAIN order = 1..Len(order)
      /\ TableSize \in Nat /\ TableSize >= 1
  BY LenProperties DEF LimitInv, LimitAssumption
<1>2. CASE u \in Range(order)
  <2>. DEFINE k == Place(u)  s == RemoveAt(order, k)
  <2>1. k \in DOMAIN order /\ order[k] = u
    BY <1>2 DEF Range, Place
  <2>2. \A i \in DOMAIN order : i # k => order[i] # u
    BY <2>1 DEF LimitInv, IsInjective
  <2>3. /\ s \in Seq(User) /\ Len(s) = Len(order) - 1
        /\ \A j \in 1..Len(order) - 1 : s[j] = IF j < k THEN order[j] ELSE order[j + 1]
    BY <1>1, <2>1, Removed
  <2>4. Touched(u) = Append(s, u)
    BY <1>2 DEF Touched
  <2>. HIDE DEF k, s
  <2>5. /\ Append(s, u) \in Seq(User) /\ Len(Append(s, u)) = Len(order)
        /\ Append(s, u)[Len(order)] = u
        /\ \A j \in 1..Len(order) - 1 : Append(s, u)[j] = s[j]
    <3>1. /\ Append(s, u) \in Seq(User) /\ Len(Append(s, u)) = Len(s) + 1
          /\ Append(s, u)[Len(s) + 1] = u
          /\ \A j \in 1..Len(s) : Append(s, u)[j] = s[j]
      BY <2>3, AppendProperties
    <3>2. Len(s) + 1 = Len(order)
      BY <1>1, <2>3
    <3>. QED  BY <2>3, <3>1, <3>2
  <2>6. Moved(u, k)
    BY <1>1, <2>1, <2>2, <2>3, <2>4, <2>5 DEF Moved
  <2>. QED  BY <1>1, <2>1, <2>6
<1>3. CASE u \notin Range(order)
  <2>1. \A i \in DOMAIN order : order[i] # u
    BY <1>3 DEF Range
  <2>2. CASE Len(order) >= TableSize
    <3>. DEFINE s == Tail(order)
    <3>1. /\ s \in Seq(User) /\ Len(s) = Len(order) - 1
          /\ \A j \in 1..Len(order) - 1 : s[j] = order[j + 1]
      BY <1>1, <2>2, HeadTailProperties
    <3>2. Touched(u) = Append(s, u)
      BY <1>3, <2>2 DEF Touched, Evict
    <3>. HIDE DEF s
    <3>3. /\ Append(s, u) \in Seq(User) /\ Len(Append(s, u)) = Len(order)
          /\ Append(s, u)[Len(order)] = u
          /\ \A j \in 1..Len(order) - 1 : Append(s, u)[j] = s[j]
      <4>1. /\ Append(s, u) \in Seq(User) /\ Len(Append(s, u)) = Len(s) + 1
            /\ Append(s, u)[Len(s) + 1] = u
            /\ \A j \in 1..Len(s) : Append(s, u)[j] = s[j]
        BY <3>1, AppendProperties
      <4>2. Len(s) + 1 = Len(order)
        BY <1>1, <3>1
      <4>. QED  BY <3>1, <4>1, <4>2
    <3>4. 1 \in DOMAIN order /\ Len(order) = TableSize
      <4>1. Len(order) = TableSize
        <5>1. Len(order) \in Nat /\ TableSize \in Nat /\ Len(order) <= TableSize
          BY <1>1
        <5>. QED  BY <5>1, <2>2
      <4>2. 1 \in 1..Len(order)
        BY <1>1, <4>1
      <4>. QED  BY <1>1, <4>1, <4>2
    <3>5. \A j \in 1..Len(order) - 1 : ~(j < 1) /\ Append(s, u)[j] = order[j + 1]
      BY <1>1, <3>1, <3>3
    <3>6. Moved(u, 1)
      BY <1>1, <1>3, <2>1, <3>2, <3>3, <3>4, <3>5 DEF Moved
    <3>. QED  BY <1>1, <3>6
  <2>3. CASE Len(order) < TableSize
    <3>1. Touched(u) = Append(order, u)
      BY <1>1, <1>3, <2>3 DEF Touched, Evict
    <3>2. /\ Append(order, u) \in Seq(User) /\ Len(Append(order, u)) = Len(order) + 1
          /\ Append(order, u)[Len(order) + 1] = u
          /\ \A j \in 1..Len(order) : Append(order, u)[j] = order[j]
      BY <1>1, AppendProperties
    <3>. DEFINE s == Append(order, u)  n == Len(order) + 1
    <3>3. n \in 1..Len(order) + 1 /\ n \in 1..TableSize /\ n \notin DOMAIN order
      BY <1>1, <2>3
    <3>4. \A j \in 1..n - 1 : j < n /\ s[j] = order[j]
      BY <1>1, <3>2
    <3>5. Touched(u) = s /\ s \in Seq(User) /\ Len(s) = n /\ s[n] = u
      BY <3>1, <3>2
    <3>6. n = IF n \in DOMAIN order THEN Len(order) ELSE Len(order) + 1
      BY <3>3
    <3>. HIDE DEF s, n
    <3>7. Moved(u, n)
      BY <1>3, <2>1, <2>3, <3>3, <3>4, <3>5, <3>6 DEF Moved
    <3>. QED  BY <3>3, <3>7
  <2>. QED  BY <1>1, <2>2, <2>3
<1>. QED  BY <1>2, <1>3

\* What a charge takes from: a bucket filled up to now and paid for, u's own
\* or a new one. At most Cost of it goes, and only for an admission.
LEMMA ChargeIsPaid ==
  ASSUME LimitAssumption, LimitInv, NEW b \in [tokens : 0..Capacity, at : 0..now],
         NEW n \in Nat, NEW since \in Nat, since <= b.at,
         b.tokens + Cost * n <= Capacity + Rate * (b.at - since)
  PROVE  LET r == Refilled(b)
             m == n + (IF r.tokens >= Cost THEN 1 ELSE 0)
         IN /\ r \in [tokens : 0..Capacity, at : {now}]
            /\ Charge(r) \in [tokens : 0..Capacity, at : {now}]
            /\ m \in Nat /\ since <= now
            /\ Charge(r).tokens + Cost * m <= Capacity + Rate * (now - since)
<1>. DEFINE r == Refilled(b)
            m == n + (IF r.tokens >= Cost THEN 1 ELSE 0)
<1>1. /\ Cost \in Nat /\ Rate \in Nat /\ Capacity \in Nat /\ now \in Nat
      /\ b.tokens \in 0..Capacity /\ b.at \in 0..now
  BY CapacityNat DEF LimitAssumption, LimitInv
<1>2. /\ Rate * (b.at - since) \in Nat /\ Rate * (now - b.at) \in Nat
      /\ Rate * (now - since) = Rate * (b.at - since) + Rate * (now - b.at)
  BY <1>1, RateTimes
<1>3. Cost * n \in Nat /\ Cost * (n + 1) = Cost * n + Cost
  BY <1>1, CostTimes
<1>4. /\ r.at = now /\ r = [tokens |-> r.tokens, at |-> now]
      /\ r.tokens \in 0..Capacity /\ r.tokens <= b.tokens + Rate * (now - b.at)
  <2>. DEFINE more == b.tokens + Rate * (now - b.at)
  <2>1. more \in Nat
    BY <1>1, <1>2
  <2>. HIDE DEF more
  <2>2. Min({Capacity, more}) = IF Capacity <= more THEN Capacity ELSE more
    <3>1. Capacity \in Int /\ more \in Int
      BY <1>1, <2>1
    <3>. QED  BY <3>1, OfTwo, Zenon
  <2>3. r = [tokens |-> Min({Capacity, more}), at |-> now]
    BY DEF Refilled, more
  <2>4. r.tokens \in 0..Capacity /\ r.tokens <= more
    BY <1>1, <2>1, <2>2, <2>3
  <2>. QED  BY <2>3, <2>4 DEF more
<1>. HIDE DEF r
<1>5. CASE r.tokens >= Cost
  <2>1. Charge(r) = [tokens |-> r.tokens - Cost, at |-> now] /\ m = n + 1
    BY <1>4, <1>5 DEF Charge
  <2>. QED  BY <1>1, <1>2, <1>3, <1>4, <1>5, <2>1 DEF r
<1>6. CASE r.tokens < Cost
  <2>1. ~(r.tokens >= Cost)
    BY <1>1, <1>4, <1>6
  <2>2. Charge(r) = r /\ m = n
    BY <2>1 DEF Charge
  <2>. QED  BY <1>1, <1>2, <1>3, <1>4, <1>6, <2>1, <2>2 DEF r
<1>. QED  BY <1>1, <1>4, <1>5, <1>6

\* The table is empty to begin with.
LEMMA LimitInit == ASSUME LimitAssumption PROVE Init => LimitInv
<1>. SUFFICES ASSUME Init PROVE LimitInv
  OBVIOUS
<1>1. order = <<>> /\ bucket = <<>> /\ born = <<>> /\ admitted = <<>> /\ now = 0
  BY DEF Init
<1>2. order \in Seq(User) /\ Len(order) = 0 /\ DOMAIN order = {} /\ Range(order) = {}
  BY <1>1 DEF Range
<1>3. ASSUME NEW S PROVE <<>> \in [{} -> S]
  OBVIOUS
<1>4. /\ bucket \in [Range(order) -> [tokens : 0..Capacity, at : 0..now]]
      /\ born \in [Range(order) -> Nat] /\ admitted \in [Range(order) -> Nat]
  BY <1>1, <1>2, <1>3
<1>. QED  BY <1>1, <1>2, <1>4 DEF LimitInv, LimitAssumption, IsInjective, InOrder

\* Time makes no bucket older than it was.
LEMMA LimitTick == ASSUME LimitAssumption, LimitInv, Tick PROVE LimitInv'
<1>1. /\ now \in 0..MaxNow /\ now' = now + 1 /\ now' \in 0..MaxNow /\ MaxNow \in Nat
      /\ order' = order /\ bucket' = bucket /\ born' = born /\ admitted' = admitted
  BY DEF LimitInv, LimitAssumption, Tick
<1>2. Range(order)' = Range(order) /\ Capacity' = Capacity
  BY <1>1
<1>3. bucket \in [Range(order) -> [tokens : 0..Capacity, at : 0..now']]
  <2>1. [tokens : 0..Capacity, at : 0..now] \subseteq [tokens : 0..Capacity, at : 0..now']
    BY <1>1
  <2>. QED  BY <2>1 DEF LimitInv
<1>. QED  BY <1>1, <1>2, <1>3 DEF LimitInv, Paid, InOrder

\* What a charge of c's user leaves: the other users' buckets as they were,
\* and its own charged and paid for.
Charged(c) ==
    LET u == UserOf[c]  kept == Range(Touched(u))
    IN /\ order' = Touched(u) /\ now' = now
       /\ kept \subseteq Range(order) \union {u} /\ u \in kept
       /\ bucket' \in [kept -> [tokens : 0..Capacity, at : 0..now]]
       /\ born' \in [kept -> Nat] /\ admitted' \in [kept -> Nat]
       /\ \A v \in kept : v # u =>
             /\ bucket'[v] = bucket[v] /\ born'[v] = born[v] /\ admitted'[v] = admitted[v]
       /\ bucket'[u].at = now /\ born'[u] <= now
       /\ bucket'[u].tokens + Cost * admitted'[u] <= Capacity + Rate * (now - born'[u])
       /\ u \in Range(order) =>
             \/ admitted'[u] = admitted[u] + 1
             \/ bucket'[u] = Refilled(bucket[u])

\* A charge leaves that.
LEMMA CallCharges ==
  ASSUME LimitAssumption, LimitInv, NEW c \in Credential, Call(c)
  PROVE  Charged(c)
<1>. DEFINE u == UserOf[c]
            kept == Range(Touched(u))
            b == IF u \in Range(order) THEN bucket[u] ELSE Fresh
            n == IF u \in Range(order) THEN admitted[u] ELSE 0
            since == IF u \in Range(order) THEN born[u] ELSE now
            r == Refilled(b)
            m == n + (IF r.tokens >= Cost THEN 1 ELSE 0)
<1>1. u \in User
  BY DEF User
<1>2. kept \subseteq Range(order) \union {u} /\ u \in kept
  <2>1. PICK k \in 1..Len(order) + 1 : Moved(u, k)
    BY <1>1, TouchedMoves
  <2>2. /\ Touched(u) \in Seq(User) /\ DOMAIN Touched(u) = 1..Len(Touched(u))
        /\ Len(Touched(u)) \in Nat /\ Len(Touched(u)) >= 1 /\ Touched(u)[Len(Touched(u))] = u
        /\ order \in Seq(User) /\ DOMAIN order = 1..Len(order) /\ Len(order) \in Nat
    BY <2>1, LenProperties DEF Moved, LimitInv, LimitAssumption
  <2>3. u \in kept
    BY <2>2 DEF Range
  <2>4. ASSUME NEW v \in kept PROVE v \in Range(order) \union {u}
    <3>1. PICK j \in 1..Len(Touched(u)) : Touched(u)[j] = v
      BY <2>2 DEF Range
    <3>2. CASE j = Len(Touched(u))
      BY <2>2, <3>1, <3>2
    <3>3. CASE j # Len(Touched(u))
      <4>1. j \in 1..Len(Touched(u)) - 1
        BY <2>2, <3>3
      <4>2. v = IF j < k THEN order[j] ELSE order[j + 1]
        BY <2>1, <3>1, <4>1 DEF Moved
      <4>3. j \in DOMAIN order /\ (~(j < k) => j + 1 \in DOMAIN order)
        BY <2>1, <2>2, <4>1 DEF Moved
      <4>. QED  BY <4>2, <4>3 DEF Range
    <3>. QED  BY <3>2, <3>3
  <2>. QED  BY <2>3, <2>4
<1>3. /\ b \in [tokens : 0..Capacity, at : 0..now] /\ n \in Nat /\ since \in Nat
      /\ since <= b.at /\ b.tokens + Cost * n <= Capacity + Rate * (b.at - since)
  <2>0. Capacity \in Nat /\ now \in Nat /\ Cost \in Nat /\ Rate \in Nat
    BY CapacityNat DEF LimitInv, LimitAssumption
  <2>1. CASE u \in Range(order)
    <3>1. b = bucket[u] /\ n = admitted[u] /\ since = born[u]
      BY <2>1
    <3>. QED  BY <2>1, <3>1 DEF LimitInv, Paid
  <2>2. CASE u \notin Range(order)
    <3>1. b = [tokens |-> Capacity, at |-> now] /\ n = 0 /\ since = now
      BY <2>2 DEF Fresh
    <3>2. Cost * 0 = 0 /\ now - now = 0 /\ Rate * 0 = 0
      BY <2>0
    <3>3. b.tokens = Capacity /\ b.at = now /\ b \in [tokens : 0..Capacity, at : 0..now]
      BY <2>0, <3>1
    <3>4. Cost * n = 0 /\ Rate * (b.at - since) = 0
      BY <3>1, <3>2, <3>3
    <3>. QED  BY <2>0, <3>1, <3>3, <3>4
  <2>. QED  BY <2>1, <2>2
<1>4. /\ r \in [tokens : 0..Capacity, at : {now}]
      /\ Charge(r) \in [tokens : 0..Capacity, at : {now}]
      /\ m \in Nat /\ since <= now
      /\ Charge(r).tokens + Cost * m <= Capacity + Rate * (now - since)
  BY <1>3, ChargeIsPaid
<1>5. /\ order' = Touched(u) /\ now' = now
      /\ bucket' = [v \in kept |-> IF v = u THEN Charge(r) ELSE bucket[v]]
      /\ born' = [v \in kept |-> IF v = u THEN since ELSE born[v]]
      /\ admitted' = [v \in kept |-> IF v = u THEN m ELSE admitted[v]]
  BY DEF Call
<1>6. u \in Range(order) => m = admitted[u] + 1 \/ Charge(r) = Refilled(bucket[u])
  BY DEF Charge
<1>7. /\ \A v \in Range(order) : /\ bucket[v] \in [tokens : 0..Capacity, at : 0..now]
                                 /\ born[v] \in Nat /\ admitted[v] \in Nat
      /\ now \in Nat
  BY DEF LimitInv, LimitAssumption
<1>. HIDE DEF kept, m, r, since, n, b
<1>8. Charge(r).at = now /\ Charge(r) \in [tokens : 0..Capacity, at : 0..now]
  BY <1>4, <1>7
<1>9. bucket' \in [kept -> [tokens : 0..Capacity, at : 0..now]]
  BY <1>2, <1>5, <1>7, <1>8
<1>10. born' \in [kept -> Nat] /\ admitted' \in [kept -> Nat]
  BY <1>2, <1>3, <1>4, <1>5, <1>7
<1>11. bucket'[u] = Charge(r) /\ born'[u] = since /\ admitted'[u] = m
  BY <1>2, <1>5
<1>12. \A v \in kept : v # u =>
          /\ bucket'[v] = bucket[v] /\ born'[v] = born[v] /\ admitted'[v] = admitted[v]
  BY <1>5
<1>. QED  BY <1>2, <1>4, <1>5, <1>6, <1>8, <1>9, <1>10, <1>11, <1>12 DEF Charged, kept

\* A charge drops no user but the first, and that only from a full table.
LEMMA CallKeeps ==
  ASSUME LimitAssumption, LimitInv, NEW u \in User,
         NEW i \in DOMAIN order, order[i] \notin Range(Touched(u))
  PROVE  i = 1 /\ Len(order) = TableSize
<1>. DEFINE new == Touched(u)
<1>1. PICK k \in 1..Len(order) + 1 : Moved(u, k)
  BY TouchedMoves
<1>2. /\ DOMAIN new = 1..Len(new) /\ Len(new) \in Nat /\ Len(new) >= 1
      /\ new[Len(new)] = u /\ DOMAIN order = 1..Len(order) /\ Len(order) \in Nat
      /\ Len(new) = IF k \in DOMAIN order THEN Len(order) ELSE Len(order) + 1
  BY <1>1, LenProperties DEF Moved, LimitInv, LimitAssumption
<1>3. \A j \in 1..Len(new) : new[j] # order[i]
  BY <1>2 DEF Range
<1>4. order[i] # u
  BY <1>2, <1>3
<1>5. CASE i < k
  <2>1. i \in 1..Len(new) - 1 /\ i \in 1..Len(new)
    BY <1>2, <1>5
  <2>2. new[i] = order[i]
    BY <1>1, <1>5, <2>1 DEF Moved
  <2>. QED  BY <1>3, <2>1, <2>2
<1>6. CASE i > k
  <2>1. i - 1 \in 1..Len(new) - 1 /\ i - 1 \in 1..Len(new) /\ ~(i - 1 < k) /\ (i - 1) + 1 = i
    BY <1>2, <1>6
  <2>2. new[i - 1] = order[i]
    BY <1>1, <2>1 DEF Moved
  <2>. QED  BY <1>3, <2>1, <2>2
<1>7. CASE i = k
  BY <1>1, <1>4, <1>7 DEF Moved
<1>8. i < k \/ i > k \/ i = k
  BY <1>2
<1>. QED  BY <1>5, <1>6, <1>7, <1>8

\* A call leaves every bucket paid for and the table in order.
LEMMA LimitCall ==
  ASSUME LimitAssumption, LimitInv, NEW c \in Credential, Call(c)
  PROVE  LimitInv'
<1>. DEFINE u == UserOf[c]
            new == Touched(u)
            kept == Range(new)
<1>1. u \in User /\ Charged(c)
  BY CallCharges DEF User
<1>2. PICK k \in 1..Len(order) + 1 : Moved(u, k)
  BY <1>1, TouchedMoves
<1>3. /\ order' = new /\ now' = now /\ now \in Nat /\ now \in 0..MaxNow
      /\ bucket' \in [kept -> [tokens : 0..Capacity, at : 0..now]]
      /\ born' \in [kept -> Nat] /\ admitted' \in [kept -> Nat]
      /\ bucket'[u].at = now /\ born'[u] <= now
      /\ bucket'[u].tokens + Cost * admitted'[u] <= Capacity + Rate * (now - born'[u])
      /\ \A v \in kept : v # u =>
            /\ v \in Range(order)
            /\ bucket'[v] = bucket[v] /\ born'[v] = born[v] /\ admitted'[v] = admitted[v]
  BY <1>1 DEF Charged, LimitInv, LimitAssumption
<1>4. Capacity' = Capacity /\ Range(order)' = kept
  BY <1>3
<1>5. /\ new \in Seq(User) /\ Len(new) \in Nat /\ Len(new) >= 1 /\ Len(new) <= TableSize
      /\ DOMAIN new = 1..Len(new) /\ new[Len(new)] = u
      /\ Len(new) = IF k \in DOMAIN order THEN Len(order) ELSE Len(order) + 1
      /\ DOMAIN order = 1..Len(order) /\ Len(order) \in Nat
  BY <1>2, LenProperties DEF Moved, LimitInv, LimitAssumption
<1>. DEFINE At(j) == IF j < k THEN j ELSE j + 1
<1>0. Len(new) \in Nat
  BY <1>5
<1>6. \A j \in 1..Len(new) - 1 :
         At(j) \in DOMAIN order /\ new[j] = order[At(j)] /\ new[j] # u
  <2>. SUFFICES ASSUME NEW j \in 1..Len(new) - 1
                PROVE  At(j) \in DOMAIN order /\ new[j] = order[At(j)] /\ new[j] # u
    OBVIOUS
  <2>1. At(j) \in DOMAIN order /\ At(j) # k
    BY <1>5
  <2>2. new[j] = order[At(j)]
    BY <1>2 DEF Moved
  <2>. QED  BY <1>2, <2>1, <2>2 DEF Moved
<1>7. \A i, j \in 1..Len(new) - 1 : i < j => At(i) < At(j)
  BY <1>5
<1>. HIDE DEF At, new, kept, u
<1>8. \A i \in DOMAIN new : new[i] \in kept
  BY DEF kept, Range
<1>9. IsInjective(new)
  <2>. SUFFICES ASSUME NEW i \in 1..Len(new), NEW j \in 1..Len(new), i < j
                PROVE  new[i] # new[j]
    BY <1>5 DEF IsInjective
  <2>1. i \in 1..Len(new) - 1
    BY <1>5
  <2>2. CASE j = Len(new)
    BY <1>5, <1>6, <2>1, <2>2
  <2>3. CASE j # Len(new)
    <3>1. j \in 1..Len(new) - 1
      BY <1>0, <2>3
    <3>2. At(i) < At(j) /\ At(i) \in 1..Len(order) /\ At(j) \in 1..Len(order)
      BY <1>5, <1>6, <1>7, <2>1, <3>1
    <3>3. At(i) # At(j)
      BY <1>5, <3>2
    <3>. QED  BY <1>5, <1>6, <2>1, <3>1, <3>2, <3>3 DEF LimitInv, IsInjective
  <2>. QED  BY <2>2, <2>3
<1>10. \A v \in kept : born'[v] <= bucket'[v].at /\ Paid(v)'
  <2>. SUFFICES ASSUME NEW v \in kept PROVE born'[v] <= bucket'[v].at /\ Paid(v)'
    OBVIOUS
  <2>1. CASE v = u
    BY <1>3, <1>4, <2>1 DEF Paid
  <2>2. CASE v # u
    <3>1. v \in Range(order) /\ born[v] <= bucket[v].at /\ Paid(v)
      BY <1>3, <2>2 DEF LimitInv
    <3>. QED  BY <1>3, <1>4, <2>2, <3>1 DEF Paid
  <2>. QED  BY <2>1, <2>2
<1>11. \A i, j \in DOMAIN new : i < j => bucket'[new[i]].at <= bucket'[new[j]].at
  <2>. SUFFICES ASSUME NEW i \in 1..Len(new), NEW j \in 1..Len(new), i < j
                PROVE  bucket'[new[i]].at <= bucket'[new[j]].at
    BY <1>5
  <2>1. i \in 1..Len(new) - 1 /\ new[i] \in kept /\ bucket'[new[i]].at \in 0..now
    <3>1. i \in 1..Len(new) - 1
      BY <1>5
    <3>2. new[i] \in kept
      BY <1>5, <1>8
    <3>. QED  BY <1>3, <3>1, <3>2
  <2>2. CASE j = Len(new)
    <3>1. bucket'[new[j]].at = now
      BY <1>3, <1>5, <2>2
    <3>. QED  BY <1>3, <2>1, <3>1
  <2>3. CASE j # Len(new)
    <3>0. j \in 1..Len(new) - 1
      BY <1>0, <2>3
    <3>1. j \in 1..Len(new) - 1 /\ new[j] \in kept
      BY <1>5, <1>8, <3>0
    <3>2. At(i) < At(j) /\ At(i) \in DOMAIN order /\ At(j) \in DOMAIN order
      BY <1>6, <1>7, <2>1, <3>1
    <3>3. bucket[order[At(i)]].at <= bucket[order[At(j)]].at
      BY <3>2 DEF LimitInv, InOrder
    <3>4. bucket'[new[i]] = bucket[order[At(i)]] /\ bucket'[new[j]] = bucket[order[At(j)]]
      BY <1>3, <1>6, <2>1, <3>1
    <3>. QED  BY <3>3, <3>4
  <2>. QED  BY <2>2, <2>3
<1>12. IsInjective(order)'
  BY <1>3, <1>9 DEF IsInjective, new
<1>13. InOrder'
  BY <1>3, <1>11 DEF InOrder, new
<1>14. /\ order' \in Seq(User) /\ (Len(order) <= TableSize)'
       /\ bucket' \in [Range(order)' -> [tokens : 0..Capacity, at : 0..now']]
       /\ born' \in [Range(order)' -> Nat] /\ admitted' \in [Range(order)' -> Nat]
  BY <1>3, <1>4, <1>5 DEF new
<1>15. (\A v \in Range(order) : born[v] <= bucket[v].at /\ Paid(v))'
  BY <1>4, <1>10
<1>. QED  BY <1>3, <1>4, <1>12, <1>13, <1>14, <1>15 DEF LimitInv

\* Nor does any step.
LEMMA LimitStep == ASSUME LimitAssumption, LimitInv, [Next]_vars PROVE LimitInv'
<1>1. CASE Tick
  BY <1>1, LimitTick
<1>2. ASSUME NEW c \in Credential, Call(c) PROVE LimitInv'
  BY <1>2, LimitCall
<1>3. CASE UNCHANGED vars
  <2>1. /\ now' = now /\ order' = order /\ bucket' = bucket /\ born' = born
        /\ admitted' = admitted
    BY <1>3 DEF vars
  <2>2. Capacity' = Capacity /\ Range(order)' = Range(order)
    BY <2>1
  <2>. QED  BY <2>1, <2>2 DEF LimitInv, Paid, InOrder
<1>. QED  BY <1>1, <1>2, <1>3 DEF Next

\* Every bucket is paid for, and the table is in the order of the refills.
THEOREM LimitsStand == ASSUME LimitAssumption PROVE Spec => []LimitInv
<1>1. Init => LimitInv
  BY LimitInit
<1>2. LimitInv /\ [Next]_vars => LimitInv'
  BY LimitStep
<1>. QED  BY <1>1, <1>2, PTL DEF Spec

\* Types, one bucket a user and no more than the table holds.
THEOREM LimitsTyped == ASSUME LimitAssumption PROVE Spec => []TypeOK
<1>1. ASSUME LimitInv PROVE TypeOK
  <2>1. order \in Seq(User) /\ DOMAIN order = 1..Len(order)
    BY <1>1, LenProperties DEF LimitInv
  <2>2. \A i \in DOMAIN order : order[i] \in User
    BY <2>1, ElementOfSeq
  <2>3. Range(order) \subseteq User
    BY <2>2 DEF Range
  <2>4. ASSUME NEW u \in Range(order)
        PROVE  bucket[u].tokens \in 0..Capacity /\ bucket[u].at \in 0..now
    BY <1>1 DEF LimitInv
  <2>5. DOMAIN bucket = Range(order) /\ DOMAIN born = Range(order) /\ DOMAIN admitted = Range(order)
    BY <1>1 DEF LimitInv
  <2>. QED  BY <1>1, <2>3, <2>4, <2>5 DEF LimitInv, TypeOK
<1>. QED  BY <1>1, LimitsStand, PTL

\* However the calls of a user's clients interleave, no more are admitted than
\* its burst and the refills since its bucket was made.
THEOREM BurstIsBounded == ASSUME LimitAssumption PROVE Spec => []BurstBound
<1>1. ASSUME LimitInv PROVE BurstBound
  <2>. SUFFICES ASSUME NEW u \in Range(order)
                PROVE  Cost * admitted[u] <= Capacity + Rate * (now - born[u])
    BY DEF BurstBound
  <2>1. /\ bucket[u].tokens \in Nat /\ bucket[u].at \in Nat /\ bucket[u].at <= now /\ now \in Nat
        /\ born[u] \in Nat /\ admitted[u] \in Nat /\ born[u] <= bucket[u].at
        /\ bucket[u].tokens + Cost * admitted[u] <= Capacity + Rate * (bucket[u].at - born[u])
        /\ Capacity \in Nat /\ Cost \in Nat /\ Rate \in Nat
    BY <1>1, CapacityNat DEF LimitInv, LimitAssumption, Paid
  <2>. DEFINE a == born[u]  b == bucket[u].at  n == admitted[u]  t == bucket[u].tokens
  <2>2. /\ a \in Nat /\ b \in Nat /\ now \in Nat /\ n \in Nat /\ t \in Nat /\ a <= b /\ b <= now
        /\ t + Cost * n <= Capacity + Rate * (b - a)
    BY <2>1
  <2>. HIDE DEF a, b, n, t
  <2>3. /\ Rate * (b - a) \in Nat /\ Rate * (now - b) \in Nat
        /\ Rate * (now - a) = Rate * (b - a) + Rate * (now - b)
    BY <2>1, <2>2, RateTimes
  <2>4. Cost * n \in Nat /\ Rate * (now - a) \in Nat
    BY <2>1, <2>2, <2>3, CostTimes
  <2>5. Cost * n <= Capacity + Rate * (now - a)
    BY <2>1, <2>2, <2>3, <2>4
  <2>. QED  BY <2>5 DEF a, n
<1>. QED  BY <1>1, LimitsStand, PTL

\* A step charges one user at most, and while the table has room every user
\* keeps its bucket.
LEMMA StepIndependent == ASSUME LimitAssumption, LimitInv, Next PROVE Independent
<1>1. CASE Tick
  BY <1>1 DEF Tick, Independent
<1>2. ASSUME NEW c \in Credential, Call(c) PROVE Independent
  <2>1. Charged(c) /\ UserOf[c] \in User
    BY <1>2, CallCharges DEF User
  <2>2. \A u, v \in Range(order') :
           bucket'[u] # bucket[u] /\ bucket'[v] # bucket[v] => u = v
    BY <2>1 DEF Charged
  <2>3. ASSUME Len(order) < TableSize, NEW v \in Range(order) PROVE v \in Range(order')
    <3>1. PICK i \in DOMAIN order : order[i] = v
      BY DEF Range
    <3>2. v \in Range(Touched(UserOf[c]))
      BY <2>1, <2>3, <3>1, CallKeeps
    <3>. QED  BY <2>1, <3>2 DEF Charged
  <2>. QED  BY <2>2, <2>3 DEF Independent
<1>. QED  BY <1>1, <1>2 DEF Next

\* So it is in every behaviour.
THEOREM UsersAreIndependent == ASSUME LimitAssumption PROVE Spec => [][Independent]_vars
<1>1. LimitInv /\ [Next]_vars => [Independent]_vars
  BY StepIndependent
<1>. QED  BY <1>1, LimitsStand, PTL DEF Spec

\* The bucket a step drops was refilled before every other.
LEMMA StepDropsIdlest == ASSUME LimitAssumption, LimitInv, Next PROVE IdlestGoes
<1>1. CASE Tick
  BY <1>1 DEF Tick, IdlestGoes
<1>2. ASSUME NEW c \in Credential, Call(c) PROVE IdlestGoes
  <2>. SUFFICES ASSUME NEW v \in Range(order) \ Range(order'), NEW w \in Range(order)
                PROVE  bucket[v].at <= bucket[w].at
    BY DEF IdlestGoes
  <2>1. Charged(c) /\ UserOf[c] \in User
    BY <1>2, CallCharges DEF User
  <2>2. PICK i \in DOMAIN order : order[i] = v
    BY DEF Range
  <2>3. PICK j \in DOMAIN order : order[j] = w
    BY DEF Range
  <2>4. v \notin Range(Touched(UserOf[c]))
    BY <2>1 DEF Charged
  <2>5. i = 1
    BY <2>1, <2>2, <2>4, CallKeeps
  <2>6. DOMAIN order = 1..Len(order) /\ Len(order) \in Nat
    BY LenProperties DEF LimitInv
  <2>7. i < j \/ i = j
    BY <2>5, <2>6
  <2>8. bucket[v].at \in Nat
    BY DEF LimitInv
  <2>. QED  BY <2>2, <2>3, <2>7, <2>8 DEF LimitInv, InOrder
<1>. QED  BY <1>1, <1>2 DEF Next

\* So it is in every behaviour.
THEOREM TheIdlestGoes == ASSUME LimitAssumption PROVE Spec => [][IdlestGoes]_vars
<1>1. LimitInv /\ [Next]_vars => [IdlestGoes]_vars
  BY StepDropsIdlest
<1>. QED  BY <1>1, LimitsStand, PTL DEF Spec

\* What a user may spend is what its bucket holds at the next refill, and a
\* refill right after a refill adds nothing.
LEMMA SpendableIs ==
  ASSUME LimitAssumption, LimitInv, NEW u \in Range(order)
  PROVE  LET more == bucket[u].tokens + Rate * (now - bucket[u].at)
         IN  /\ more \in Nat /\ bucket[u].tokens <= Capacity /\ bucket[u].tokens \in Nat
             /\ bucket[u].at \in Nat /\ bucket[u].at <= now
             /\ Spendable(u) = IF Capacity <= more THEN Capacity ELSE more
<1>. DEFINE more == bucket[u].tokens + Rate * (now - bucket[u].at)
<1>1. /\ bucket[u].tokens \in 0..Capacity /\ bucket[u].at \in 0..now /\ now \in Nat
      /\ Capacity \in Nat /\ Rate \in Nat
  BY CapacityNat DEF LimitInv, LimitAssumption
<1>2. Rate * (now - bucket[u].at) \in Nat
  BY <1>1, RateTimes
<1>3. more \in Int /\ more \in Nat /\ Capacity \in Int
  BY <1>1, <1>2
<1>. HIDE DEF more
<1>4. Min({Capacity, more}) = IF Capacity <= more THEN Capacity ELSE more
  BY <1>3, OfTwo, Zenon
<1>5. Spendable(u) = Min({Capacity, more})
  BY DEF Spendable, Refilled, more
<1>. QED  BY <1>1, <1>3, <1>4, <1>5 DEF more

\* The same of the next state.
LEMMA SpendableNext ==
  ASSUME LimitAssumption, LimitInv', NEW u \in Range(order')
  PROVE  LET more == bucket'[u].tokens + Rate * (now' - bucket'[u].at)
         IN  /\ more \in Nat /\ bucket'[u].tokens <= Capacity /\ bucket'[u].tokens \in Nat
             /\ bucket'[u].at \in Nat /\ bucket'[u].at <= now'
             /\ Spendable(u)' = IF Capacity <= more THEN Capacity ELSE more
<1>. DEFINE more == bucket'[u].tokens + Rate * (now' - bucket'[u].at)
<1>0. Capacity' = Capacity
  OBVIOUS
<1>1. /\ bucket'[u].tokens \in 0..Capacity /\ bucket'[u].at \in 0..now' /\ now' \in Nat
      /\ Capacity \in Nat /\ Rate \in Nat
  BY <1>0, CapacityNat DEF LimitInv, LimitAssumption
<1>2. Rate * (now' - bucket'[u].at) \in Nat
  BY <1>1, RateTimes
<1>3. more \in Int /\ more \in Nat /\ Capacity \in Int
  BY <1>1, <1>2
<1>. HIDE DEF more
<1>4. Min({Capacity, more}) = IF Capacity <= more THEN Capacity ELSE more
  BY <1>3, OfTwo, Zenon
<1>5. Spendable(u)' = Min({Capacity, more})
  BY <1>0 DEF Spendable, Refilled, more
<1>. QED  BY <1>1, <1>3, <1>4, <1>5 DEF more

\* Nothing but an admission lowers what a user may spend.
LEMMA StepRefusesFree == ASSUME LimitAssumption, LimitInv, Next PROVE RefusalsAreFree
<1>0. LimitInv' /\ Capacity \in Nat /\ Rate \in Nat /\ now \in Nat
  BY LimitStep, CapacityNat DEF LimitInv, LimitAssumption
<1>. SUFFICES ASSUME NEW v \in Range(order), v \in Range(order'), ~(admitted'[v] = admitted[v] + 1)
              PROVE  ~(Spendable(v)' < Spendable(v))
  BY DEF RefusalsAreFree
<1>. DEFINE more == bucket[v].tokens + Rate * (now - bucket[v].at)
            next == bucket'[v].tokens + Rate * (now' - bucket'[v].at)
<1>1. /\ more \in Nat /\ bucket[v].at \in Nat /\ bucket[v].at <= now /\ bucket[v].tokens \in Nat
      /\ Spendable(v) = IF Capacity <= more THEN Capacity ELSE more
  BY SpendableIs
<1>2. /\ next \in Nat /\ bucket'[v].tokens <= Capacity /\ bucket'[v].tokens \in Nat
      /\ Spendable(v)' = IF Capacity <= next THEN Capacity ELSE next
  BY <1>0, SpendableNext
<1>3. ASSUME bucket'[v] = bucket[v], now' \in Nat, now <= now' PROVE more <= next
  <2>1. /\ Rate * (now - bucket[v].at) \in Nat /\ Rate * (now' - now) \in Nat
        /\ Rate * (now' - bucket[v].at) = Rate * (now - bucket[v].at) + Rate * (now' - now)
    <3>1. /\ bucket[v].at \in Nat /\ now \in Nat /\ now' \in Nat /\ Rate \in Nat
          /\ bucket[v].at <= now /\ now <= now'
      BY <1>0, <1>1, <1>3
    <3>. QED  BY <3>1, RateTimes
  <2>2. next = bucket[v].tokens + Rate * (now' - bucket[v].at)
    BY <1>3
  <2>. QED  BY <1>1, <2>1, <2>2
<1>4. CASE Tick
  <2>1. bucket' = bucket /\ now' = now + 1
    BY <1>4 DEF Tick
  <2>2. now' \in Nat /\ now <= now'
    BY <1>0, <2>1
  <2>3. more <= next
    BY <1>3, <2>1, <2>2
  <2>. HIDE DEF more, next
  <2>. QED  BY <1>0, <1>1, <1>2, <2>3
<1>5. ASSUME NEW c \in Credential, Call(c) PROVE ~(Spendable(v)' < Spendable(v))
  <2>1. Charged(c) /\ now' = now
    BY <1>5, CallCharges DEF Charged
  <2>2. CASE v # UserOf[c]
    <3>1. bucket'[v] = bucket[v]
      BY <2>1, <2>2 DEF Charged
    <3>2. more <= next
      BY <1>0, <1>3, <2>1, <3>1
    <3>. HIDE DEF more, next
    <3>. QED  BY <1>0, <1>1, <1>2, <3>2
  <2>3. CASE v = UserOf[c]
    <3>1. bucket'[v] = Refilled(bucket[v]) /\ bucket'[v].at = now
      BY <2>1, <2>3 DEF Charged
    <3>2. bucket'[v].tokens = Spendable(v)
      BY <3>1 DEF Spendable
    <3>3. now' - bucket'[v].at = 0 /\ Rate * 0 = 0
      BY <1>0, <2>1, <3>1
    <3>4. next = bucket'[v].tokens
      BY <1>2, <3>3
    <3>. HIDE DEF more, next
    <3>. QED  BY <1>0, <1>2, <3>2, <3>4
  <2>. QED  BY <2>2, <2>3
<1>. QED  BY <1>4, <1>5 DEF Next

\* A refusal costs its caller nothing, in every behaviour.
THEOREM RefusalsCostNothing == ASSUME LimitAssumption PROVE Spec => [][RefusalsAreFree]_vars
<1>1. LimitInv /\ [Next]_vars => [RefusalsAreFree]_vars
  BY StepRefusesFree
<1>. QED  BY <1>1, LimitsStand, PTL DEF Spec
=============================================================================
