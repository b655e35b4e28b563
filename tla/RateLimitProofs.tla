-------------------------- MODULE RateLimitProofs --------------------------
(***************************************************************************)
(* The rate limit for every set of addresses and every number of buckets,  *)
(* limit and window: with a clock that is never set back, any 2 * Limit    *)
(* connections of one address span at least one window and a full table    *)
(* really is full; with any clock, an address has one bucket and is        *)
(* refused only after it used up its quota.                                *)
(*                                                                         *)
(* SlidingBound says nothing of the table, so it is not inductive.  The    *)
(* invariant Accounts below ties the table to the history: the last        *)
(* count[b] admissions of owner[b] are those of the window of b, and all   *)
(* earlier ones that could share a quota with them are a window older.  It *)
(* takes the three parts of a bucket as parameters, because a call changes *)
(* them twice: the scan resets one bucket, then one bucket is written.     *)
(* When the clock may step back, the history is in no order; what is left  *)
(* is Covered: the count of a bucket is made of admissions in its window.  *)
(***************************************************************************)
EXTENDS RateLimit, TLAPS, WellFoundedInduction, SequenceTheorems, FiniteSetTheorems

\* An address's admissions are in time order and not in the future.
Ordered(h, t) ==
  \A a \in Ips :
    /\ \A i, j \in 1..Len(h[a]) : i <= j => h[a][i] <= h[a][j]
    /\ \A i \in 1..Len(h[a]) : h[a][i] <= t

\* A bucket accounts for the last admissions of its address.
BucketAccount(o, s, c, h, t, b) ==
  /\ c[b] \in 1..Limit
  /\ c[b] <= Len(h[o[b]])
  /\ s[b] <= t
  /\ h[o[b]][Len(h[o[b]]) - c[b] + 1] = s[b]
  /\ \A i \in 1..Len(h[o[b]]) :
       i + Limit <= Len(h[o[b]]) - c[b] + 1 => h[o[b]][i] + Window <= s[b]

\* An address without a bucket has a whole quota: whatever it was admitted
\* for, all but its last Limit - 1 admissions are at least a window old.
Quiet(h, t, a) ==
  \A i \in 1..Len(h[a]) : i + Limit <= Len(h[a]) + 1 => h[a][i] + Window <= t

Unique(o) == \A b, c \in Buckets : o[b] = o[c] /\ o[b] # NoIp => b = c

Accounts(o, s, c, h, t) ==
  /\ Unique(o)
  /\ \A b \in Buckets : o[b] # NoIp => BucketAccount(o, s, c, h, t, b)
  /\ \A a \in Ips : (\A b \in Buckets : o[b] # a) => Quiet(h, t, a)

IInv ==
  /\ TypeOK
  /\ Ordered(admits, now)
  /\ Accounts(owner, start, count, admits, now)
  /\ SlidingBound

-----------------------------------------------------------------------------
(* The scan *)

\* The scan's first bucket of a set is in the set.
LEMMA FirstIn ==
  ASSUME NEW S, S \subseteq Buckets, S # {}
  PROVE  First(S) \in S /\ \A c \in S : First(S) <= c
<1>1. S \subseteq Nat
  BY RateLimitAssumption DEF Buckets
<1>2. PICK b \in S : \A c \in S : ~(<<c, b>> \in OpToRel(<, Nat))
  BY <1>1, NatLessThanWellFounded, WFMin
<1>3. \A c \in S : b <= c
  <2>. SUFFICES ASSUME NEW c \in S, ~(b <= c)
                PROVE  FALSE
    OBVIOUS
  <2>1. c \in Nat /\ b \in Nat /\ c < b
    BY <1>1
  <2>2. <<c, b>> \in OpToRel(<, Nat)
    BY <2>1 DEF OpToRel
  <2>. QED
    BY <2>2, <1>2
<1>. QED
  BY <1>2, <1>3 DEF First

\* The bucket the scan resets is neither corrupt nor the address's own.
LEMMA UsableFacts ==
  ASSUME NEW a \in Ips, TypeOK, Usable(a) # {}
  PROVE  LET r == First(Usable(a))
         IN  /\ r \in Buckets
             /\ r \in Visited(a)
             /\ owner[r] = NoIp \/ Expired(r)
<1>1. Usable(a) \subseteq Buckets
  BY DEF Usable, Visited
<1>2. First(Usable(a)) \in Usable(a)
  BY <1>1, FirstIn
<1>. QED
  BY <1>1, <1>2 DEF Usable

\* When its window is over, an address has been quiet long enough.
LEMMA ExpiredQuiet ==
  ASSUME IInv, NEW r \in Buckets, owner[r] \in Ips, Expired(r)
  PROVE  Quiet(admits, now, owner[r])
<1>. DEFINE x == owner[r]
            n == Len(admits[x])
            k == count[r]
<1>1. BucketAccount(owner, start, count, admits, now, r)
  BY RateLimitAssumption DEF IInv, Accounts
<1>2. /\ n \in Nat /\ k \in 1..Limit /\ k <= n
      /\ admits[x][n - k + 1] = start[r]
      /\ start[r] + Window <= now
      /\ start[r] \in Int /\ now \in Int
  <2>1. /\ admits[x] \in Seq(1..MaxTime) /\ start[r] \in 0..MaxTime /\ now \in Int
        /\ MaxTime \in Nat
    BY RateLimitAssumption DEF IInv, TypeOK
  <2>2. k \in 1..Limit /\ k <= n /\ admits[x][n - k + 1] = start[r]
    BY <1>1 DEF BucketAccount
  <2>3. start[r] + Window <= now
    BY <2>1, RateLimitAssumption DEF Expired
  <2>. QED
    BY <2>1, <2>2, <2>3
<1>3. ASSUME NEW i \in 1..n, i + Limit <= n + 1
      PROVE  admits[x][i] + Window <= now
  <2>1. i <= n - k + 1 /\ n - k + 1 \in 1..n
    <3>1. Limit \in Nat
      BY RateLimitAssumption
    <3>. HIDE DEF n, k
    <3>. QED
      BY <3>1, <1>2, <1>3
  <2>2. admits[x][i] <= start[r]
    BY <2>1, <1>2, <1>3 DEF IInv, Ordered
  <2>3. admits[x] \in Seq(1..MaxTime)
    BY DEF IInv, TypeOK
  <2>4. admits[x][i] \in 1..MaxTime
    BY <2>3, <1>3, ElementOfSeq
  <2>5. admits[x][i] \in Int
    BY <2>4, RateLimitAssumption
  <2>6. Window \in Nat
    BY RateLimitAssumption
  <2>. QED
    BY <2>2, <2>5, <2>6, <1>2
<1>. QED
  BY <1>3 DEF Quiet

\* Types and accounts survive the reset of an expired bucket: its address has
\* been quiet for a window.
LEMMA ResetKeepsAccounts ==
  ASSUME NEW a \in Ips, IInv
  PROVE  LET o == Reset(owner, NoIp, a)
             s == Reset(start, 0, a)
             c == Reset(count, 0, a)
         IN  /\ o \in [Buckets -> Ips \cup {NoIp}]
             /\ s \in [Buckets -> 0..MaxTime]
             /\ c \in [Buckets -> 0..Limit]
             /\ Accounts(o, s, c, admits, now)
<1>. DEFINE o == Reset(owner, NoIp, a)
            s == Reset(start, 0, a)
            c == Reset(count, 0, a)
            r == First(Usable(a))
<1>1. CASE Usable(a) = {}
  BY <1>1 DEF Reset, IInv, TypeOK
<1>2. CASE Usable(a) # {}
  <2>1. r \in Buckets /\ (owner[r] = NoIp \/ Expired(r))
    BY <1>2, UsableFacts DEF IInv
  <2>2. /\ o = [owner EXCEPT ![r] = NoIp]
        /\ s = [start EXCEPT ![r] = 0]
        /\ c = [count EXCEPT ![r] = 0]
    BY <1>2 DEF Reset
  <2>. HIDE DEF o, s, c, r
  <2>3. /\ o \in [Buckets -> Ips \cup {NoIp}]
        /\ s \in [Buckets -> 0..MaxTime]
        /\ c \in [Buckets -> 0..Limit]
    BY <2>1, <2>2, RateLimitAssumption DEF IInv, TypeOK
  <2>4. \A b \in Buckets :
          /\ b # r => o[b] = owner[b] /\ s[b] = start[b] /\ c[b] = count[b]
          /\ b = r => o[b] = NoIp
    BY <2>1, <2>2 DEF IInv, TypeOK
  <2>5. Unique(o)
    BY <2>4 DEF Unique, IInv, Accounts
  <2>6. \A b \in Buckets : o[b] # NoIp => BucketAccount(o, s, c, admits, now, b)
    BY <2>4 DEF IInv, Accounts, BucketAccount
  <2>7. ASSUME NEW x \in Ips, \A b \in Buckets : o[b] # x
        PROVE  Quiet(admits, now, x)
    <3>1. CASE \A b \in Buckets : owner[b] # x
      BY <3>1 DEF IInv, Accounts
    <3>2. CASE owner[r] = x
      BY <3>2, <2>1, RateLimitAssumption, ExpiredQuiet
    <3>. QED
      BY <3>1, <3>2, <2>4, <2>7
  <2>. QED
    BY <2>3, <2>5, <2>6, <2>7 DEF Accounts, o, s, c
<1>. QED
  BY <1>1, <1>2

-----------------------------------------------------------------------------
(* The history after an admission *)

\* What Append does to the history of a, in terms of its elements.
LEMMA AppendFacts ==
  ASSUME NEW a \in Ips, TypeOK,
         NEW h, h = [admits EXCEPT ![a] = Append(@, now)]
  PROVE  /\ h \in [Ips -> Seq(1..MaxTime)]
         /\ Len(admits[a]) \in Nat
         /\ Len(h[a]) = Len(admits[a]) + 1
         /\ h[a][Len(admits[a]) + 1] = now
         /\ \A i \in 1..Len(admits[a]) : h[a][i] = admits[a][i]
         /\ \A i \in 1..Len(admits[a]) : admits[a][i] \in Int
         /\ \A x \in Ips \ {a} : h[x] = admits[x]
<1>1. admits[a] \in Seq(1..MaxTime) /\ now \in 1..MaxTime
  BY DEF TypeOK
<1>2. h[a] = Append(admits[a], now)
  BY DEF TypeOK
<1>3. h \in [Ips -> Seq(1..MaxTime)]
  BY <1>1 DEF TypeOK
<1>4. \A i \in 1..Len(admits[a]) : admits[a][i] \in 1..MaxTime
  BY <1>1, ElementOfSeq
<1>5. \A i \in 1..Len(admits[a]) : admits[a][i] \in Int
  BY <1>4, RateLimitAssumption
<1>6. \A x \in Ips \ {a} : h[x] = admits[x]
  BY DEF TypeOK
<1>7. /\ Len(admits[a]) \in Nat
      /\ Len(h[a]) = Len(admits[a]) + 1
      /\ h[a][Len(admits[a]) + 1] = now
      /\ \A i \in 1..Len(admits[a]) : h[a][i] = admits[a][i]
  BY <1>1, <1>2
<1>. QED
  BY <1>3, <1>5, <1>6, <1>7

\* Time order survives an admission.
LEMMA AppendOrdered ==
  ASSUME NEW a \in Ips, IInv,
         NEW h, h = [admits EXCEPT ![a] = Append(@, now)]
  PROVE  Ordered(h, now)
<1>1. TypeOK /\ Ordered(admits, now) /\ now \in Int
  BY DEF IInv, TypeOK
<1>. DEFINE n == Len(admits[a])
<1>2. ASSUME NEW i \in 1..Len(h[a]), NEW j \in 1..Len(h[a]), i <= j
      PROVE  h[a][i] <= h[a][j] /\ h[a][i] <= now
  <2>1. n \in Nat /\ i \in 1..(n + 1) /\ j \in 1..(n + 1)
    BY <1>1, <1>2, AppendFacts
  <2>2. CASE j \in 1..n
    BY <2>1, <2>2, <1>1, <1>2, AppendFacts DEF Ordered
  <2>3. CASE j = n + 1 /\ i \in 1..n
    BY <2>1, <2>3, <1>1, <1>2, AppendFacts DEF Ordered
  <2>4. CASE j = n + 1 /\ i = n + 1
    BY <2>1, <2>4, <1>1, <1>2, AppendFacts DEF Ordered
  <2>. QED
    BY <2>1, <2>2, <2>3, <2>4
<1>3. \A x \in Ips \ {a} : h[x] = admits[x]
  BY <1>1, AppendFacts
<1>4. \A i \in 1..Len(h[a]) : h[a][i] <= now
  <2>1. Len(h[a]) \in Nat
    BY <1>1, AppendFacts
  <2>. QED
    BY <2>1, <1>2
<1>. QED
  BY <1>1, <1>2, <1>3, <1>4 DEF Ordered

\* An admission keeps SlidingBound if the admission 2 * Limit - 1 places
\* earlier is a window old.
LEMMA AppendSlides ==
  ASSUME NEW a \in Ips, IInv,
         NEW h, h = [admits EXCEPT ![a] = Append(@, now)],
         \A k \in 1..Len(admits[a]) :
           k + 2 * Limit - 1 = Len(admits[a]) + 1 => admits[a][k] + Window <= now
  PROVE  \A x \in Ips : \A k \in 1..Len(h[x]) :
           k + 2 * Limit - 1 <= Len(h[x]) => h[x][k] + Window <= h[x][k + 2 * Limit - 1]
<1>1. TypeOK /\ SlidingBound
  BY DEF IInv
<1>. DEFINE n == Len(admits[a])
<1>2. ASSUME NEW k \in 1..Len(h[a]), k + 2 * Limit - 1 <= Len(h[a])
      PROVE  h[a][k] + Window <= h[a][k + 2 * Limit - 1]
  <2>1. /\ n \in Nat /\ Len(h[a]) = n + 1 /\ Limit \in Nat /\ Limit >= 1
        /\ k \in 1..n
    BY <1>1, <1>2, AppendFacts, RateLimitAssumption
  <2>. DEFINE m == k + 2 * Limit - 1
  <2>2. m \in 1..(n + 1)
    BY <2>1, <1>2
  <2>3. CASE m = n + 1
    BY <2>1, <2>3, <1>1, AppendFacts
  <2>4. CASE m \in 1..n
    <3>1. h[a][m] = admits[a][m] /\ h[a][k] = admits[a][k]
      BY <2>1, <2>4, <1>1, AppendFacts
    <3>2. admits[a][k] + Window <= admits[a][m]
      BY <2>1, <2>4, <1>1 DEF SlidingBound
    <3>. QED
      BY <3>1, <3>2
  <2>5. m = n + 1 \/ m \in 1..n
    <3>. HIDE DEF m, n
    <3>. QED
      BY <2>1, <2>2
  <2>. QED
    BY <2>3, <2>4, <2>5
<1>3. \A x \in Ips \ {a} : h[x] = admits[x]
  BY <1>1, AppendFacts
<1>. QED
  BY <1>1, <1>2, <1>3 DEF SlidingBound

\* Writing a bucket of address a at an admission keeps the accounts, whether
\* it is counted in the open window of a or opens a window for a quiet a.
LEMMA WriteKeepsAccounts ==
  ASSUME NEW a \in Ips, IInv,
         NEW h, h = [admits EXCEPT ![a] = Append(@, now)],
         NEW o \in [Buckets -> Ips \cup {NoIp}],
         NEW s \in [Buckets -> 0..MaxTime],
         NEW c \in [Buckets -> 0..Limit],
         Accounts(o, s, c, admits, now),
         NEW b \in Buckets,
         o[b] = a \/ (o[b] = NoIp /\ \A x \in Buckets : o[x] # a),
         NEW opened \in 0..MaxTime, NEW k \in 1..Limit,
         \/ o[b] = a /\ opened = s[b] /\ k = c[b] + 1
         \/ opened = now /\ k = 1 /\ Quiet(admits, now, a)
  PROVE  /\ Accounts([o EXCEPT ![b] = a], [s EXCEPT ![b] = opened],
                      [c EXCEPT ![b] = k], h, now)
         /\ \A i \in 1..Len(admits[a]) :
              i + 2 * Limit - 1 = Len(admits[a]) + 1 => admits[a][i] + Window <= now
<1>. DEFINE n == Len(admits[a])
            o1 == [o EXCEPT ![b] = a]
            s1 == [s EXCEPT ![b] = opened]
            c1 == [c EXCEPT ![b] = k]
<1>1. TypeOK /\ a # NoIp /\ now \in Int /\ Limit \in Nat /\ Limit >= 1 /\ Window \in Nat
  BY RateLimitAssumption DEF IInv, TypeOK
<1>2. /\ n \in Nat /\ Len(h[a]) = n + 1 /\ h[a][n + 1] = now
      /\ \A i \in 1..n : h[a][i] = admits[a][i] /\ admits[a][i] \in Int
      /\ \A x \in Ips \ {a} : h[x] = admits[x]
  BY <1>1, AppendFacts
<1>3. \A x \in Buckets \ {b} : o1[x] = o[x] /\ s1[x] = s[x] /\ c1[x] = c[x] /\ o[x] # a
  BY <1>1 DEF Accounts, Unique
<1>4. o1[b] = a /\ s1[b] = opened /\ c1[b] = k
  OBVIOUS
<1>. HIDE DEF o1, s1, c1, n
<1>5. Unique(o1)
  BY <1>3, <1>4 DEF Accounts, Unique
<1>6. ASSUME NEW x \in Buckets \ {b}, o1[x] # NoIp
      PROVE  BucketAccount(o1, s1, c1, h, now, x)
  <2>1. o[x] \in Ips \ {a}
    BY <1>3, <1>6
  <2>2. h[o[x]] = admits[o[x]]
    BY <2>1, <1>2
  <2>3. BucketAccount(o, s, c, admits, now, x)
    BY <1>3, <1>6 DEF Accounts
  <2>. QED
    BY <1>3, <2>2, <2>3 DEF BucketAccount
<1>7. /\ BucketAccount(o1, s1, c1, h, now, b)
      /\ \A i \in 1..n : i + 2 * Limit - 1 = n + 1 => admits[a][i] + Window <= now
  <2>1. CASE o[b] = a /\ opened = s[b] /\ k = c[b] + 1
    <3>1. BucketAccount(o, s, c, admits, now, b)
      BY <2>1, <1>1 DEF Accounts
    <3>2. /\ c[b] \in 1..Limit /\ c[b] <= n /\ s[b] <= now /\ s[b] \in Int
          /\ admits[a][n - c[b] + 1] = s[b]
          /\ \A i \in 1..n : i + Limit <= n - c[b] + 1 => admits[a][i] + Window <= s[b]
      BY <3>1, <2>1, RateLimitAssumption DEF BucketAccount, n
    <3>3. n - c[b] + 1 \in 1..n /\ (n + 1) - k + 1 = n - c[b] + 1 /\ k <= n + 1
      BY <3>2, <2>1, <1>2
    <3>4. h[a][(n + 1) - k + 1] = s[b]
      BY <3>2, <3>3, <1>2
    <3>5. ASSUME NEW i \in 1..(n + 1), i + Limit <= (n + 1) - k + 1
          PROVE  h[a][i] + Window <= s[b]
      <4>1. i \in 1..n /\ i + Limit <= n - c[b] + 1
        BY <3>3, <3>5, <1>1, <1>2
      <4>. QED
        BY <4>1, <3>2, <1>2
    <3>6. ASSUME NEW i \in 1..n, i + 2 * Limit - 1 = n + 1
          PROVE  admits[a][i] + Window <= now
      <4>1. i + Limit <= n - c[b] + 1
        BY <3>6, <3>2, <2>1, <1>1, <1>2
      <4>2. admits[a][i] + Window <= s[b]
        BY <4>1, <3>2
      <4>3. admits[a][i] \in Int
        BY <1>2
      <4>. QED
        BY <4>2, <4>3, <3>2, <1>1
    <3>7. BucketAccount(o1, s1, c1, h, now, b)
      <4>1. o1[b] = a /\ s1[b] = s[b] /\ c1[b] = k /\ Len(h[o1[b]]) = n + 1
        BY <2>1, <1>2, <1>4
      <4>. QED
        BY <4>1, <3>2, <3>3, <3>4, <3>5 DEF BucketAccount
    <3>. QED
      BY <3>6, <3>7
  <2>2. CASE opened = now /\ k = 1 /\ Quiet(admits, now, a)
    <3>1. \A i \in 1..n : i + Limit <= n + 1 => admits[a][i] + Window <= now
      BY <2>2 DEF Quiet, n
    <3>2. (n + 1) - k + 1 = n + 1
      BY <2>2, <1>2
    <3>3. ASSUME NEW i \in 1..(n + 1), i + Limit <= (n + 1) - k + 1
          PROVE  h[a][i] + Window <= now
      BY <3>1, <3>2, <3>3, <1>1, <1>2
    <3>4. \A i \in 1..n : i + 2 * Limit - 1 = n + 1 => admits[a][i] + Window <= now
      BY <3>1, <1>1, <1>2
    <3>5. k \in 1..Limit /\ k <= n + 1 /\ now <= now /\ h[a][(n + 1) - k + 1] = now
      BY <2>2, <3>2, <1>1, <1>2
    <3>6. BucketAccount(o1, s1, c1, h, now, b)
      <4>1. o1[b] = a /\ s1[b] = now /\ c1[b] = k /\ Len(h[o1[b]]) = n + 1
        BY <2>2, <1>2, <1>4
      <4>. QED
        BY <4>1, <3>3, <3>5 DEF BucketAccount
    <3>. QED
      BY <3>4, <3>6
  <2>. QED
    BY <2>1, <2>2
<1>8. ASSUME NEW y \in Ips, \A x \in Buckets : o1[x] # y
      PROVE  Quiet(h, now, y)
  <2>1. y # a
    BY <1>4, <1>8
  <2>2. h[y] = admits[y]
    BY <2>1, <1>2
  <2>3. o[b] # y
    BY <2>1, RateLimitAssumption
  <2>4. \A x \in Buckets : o[x] # y
    BY <2>3, <1>3, <1>8
  <2>. QED
    BY <2>2, <2>4 DEF Quiet, Accounts
<1>9. \A x \in Buckets : o1[x] # NoIp => BucketAccount(o1, s1, c1, h, now, x)
  BY <1>6, <1>7
<1>. QED
  BY <1>5, <1>7, <1>8, <1>9 DEF Accounts, o1, s1, c1, n

-----------------------------------------------------------------------------
(* The steps *)

\* A call that admits nobody leaves at most the scan's reset behind.
LEMMA ScanKeeps ==
  ASSUME NEW a \in Ips, IInv, ScanOnly(a), NEW outcome \in Outcomes \ {"admitted"},
         Answer(a, outcome), UNCHANGED now, stop' \in BOOLEAN
  PROVE  IInv'
<1>1. admits' = admits /\ verdict' = [ip |-> a, outcome |-> outcome] /\ now' = now
  BY DEF Answer
<1>2. /\ owner' \in [Buckets -> Ips \cup {NoIp}]
      /\ start' \in [Buckets -> 0..MaxTime]
      /\ count' \in [Buckets -> 0..Limit]
      /\ Accounts(owner', start', count', admits, now)
  BY ResetKeepsAccounts DEF ScanOnly
<1>3. TypeOK'
  BY <1>1, <1>2 DEF IInv, TypeOK, ScanOnly, Outcomes
<1>4. SlidingBound'
  BY <1>1 DEF IInv, SlidingBound
<1>. QED
  BY <1>1, <1>2, <1>3, <1>4 DEF IInv

\* A call that admits a client writes one bucket after the scan's reset.
LEMMA AdmissionKeeps ==
  ASSUME NEW a \in Ips, IInv, NEW b \in Buckets,
         NEW opened \in 0..MaxTime, NEW k \in 1..Limit,
         WriteBucket(b, a, opened, k), Answer(a, "admitted"), UNCHANGED <<now, stop>>,
         \/ /\ Reset(owner, NoIp, a)[b] = a
            /\ opened = Reset(start, 0, a)[b]
            /\ k = Reset(count, 0, a)[b] + 1
         \/ /\ \/ Reset(owner, NoIp, a)[b] = a
               \/ /\ Reset(owner, NoIp, a)[b] = NoIp
                  /\ \A x \in Buckets : Reset(owner, NoIp, a)[x] # a
            /\ opened = now /\ k = 1 /\ Quiet(admits, now, a)
  PROVE  IInv'
<1>. DEFINE o == Reset(owner, NoIp, a)
            s == Reset(start, 0, a)
            c == Reset(count, 0, a)
            h == [admits EXCEPT ![a] = Append(@, now)]
<1>1. /\ o \in [Buckets -> Ips \cup {NoIp}]
      /\ s \in [Buckets -> 0..MaxTime]
      /\ c \in [Buckets -> 0..Limit]
      /\ Accounts(o, s, c, admits, now)
  BY ResetKeepsAccounts
<1>2. /\ owner' = [o EXCEPT ![b] = a]
      /\ start' = [s EXCEPT ![b] = opened]
      /\ count' = [c EXCEPT ![b] = k]
      /\ corrupt' = corrupt
  BY DEF WriteBucket
<1>3. /\ admits' = h /\ now' = now /\ stop' = stop
      /\ verdict' = [ip |-> a, outcome |-> "admitted"]
  BY DEF Answer
<1>. HIDE DEF o, s, c
<1>4. \/ o[b] = a /\ opened = s[b] /\ k = c[b] + 1
      \/ /\ o[b] = a \/ (o[b] = NoIp /\ \A x \in Buckets : o[x] # a)
         /\ opened = now /\ k = 1 /\ Quiet(admits, now, a)
  BY DEF o, s, c
<1>5. /\ Accounts(owner', start', count', h, now)
      /\ \A i \in 1..Len(admits[a]) :
           i + 2 * Limit - 1 = Len(admits[a]) + 1 => admits[a][i] + Window <= now
  <2>1. h = [admits EXCEPT ![a] = Append(@, now)]
    OBVIOUS
  <2>2. o[b] = a \/ (o[b] = NoIp /\ \A x \in Buckets : o[x] # a)
    BY <1>4
  <2>3. \/ o[b] = a /\ opened = s[b] /\ k = c[b] + 1
        \/ opened = now /\ k = 1 /\ Quiet(admits, now, a)
    BY <1>4
  <2>. HIDE DEF h
  <2>4. /\ Accounts([o EXCEPT ![b] = a], [s EXCEPT ![b] = opened],
                     [c EXCEPT ![b] = k], h, now)
        /\ \A i \in 1..Len(admits[a]) :
             i + 2 * Limit - 1 = Len(admits[a]) + 1 => admits[a][i] + Window <= now
    BY <1>1, <2>1, <2>2, <2>3, WriteKeepsAccounts, ZenonT(30)
  <2>. QED
    BY <1>2, <2>4
<1>6. h \in [Ips -> Seq(1..MaxTime)]
  BY AppendFacts DEF IInv
<1>7. Ordered(h, now)
  BY AppendOrdered
<1>. HIDE DEF h
<1>8. SlidingBound'
  <2>1. \A x \in Ips : \A i \in 1..Len(h[x]) :
          i + 2 * Limit - 1 <= Len(h[x]) => h[x][i] + Window <= h[x][i + 2 * Limit - 1]
    BY <1>5, AppendSlides DEF h
  <2>. QED
    BY <2>1, <1>3 DEF SlidingBound
<1>9. TypeOK'
  <2>1. /\ owner' \in [Buckets -> Ips \cup {NoIp}]
        /\ start' \in [Buckets -> 0..MaxTime]
        /\ count' \in [Buckets -> 0..Limit]
    BY <1>1, <1>2, RateLimitAssumption
  <2>2. verdict' \in [ip : Ips \cup {NoIp}, outcome : Outcomes]
    BY <1>3 DEF Outcomes
  <2>. QED
    BY <2>1, <2>2, <1>2, <1>3, <1>6 DEF IInv, TypeOK
<1>. QED
  BY <1>3, <1>5, <1>7, <1>8, <1>9 DEF IInv

\* The scan's reset spares the bucket that matches the address.
LEMMA MatchSpared ==
  ASSUME NEW a \in Ips, IInv, NEW b \in Buckets, Matches(a, b)
  PROVE  /\ owner[b] = a
         /\ Reset(owner, NoIp, a)[b] = a
         /\ Reset(start, 0, a)[b] = start[b]
         /\ Reset(count, 0, a)[b] = count[b]
         /\ BucketAccount(owner, start, count, admits, now, b)
<1>1. b \in StopsAt(a)
  <2>1. StopsAt(a) \subseteq Buckets /\ StopsAt(a) # {}
    BY DEF StopsAt, Matches
  <2>. QED
    BY <2>1, FirstIn DEF Matches
<1>2. owner[b] = a
  BY <1>1 DEF StopsAt, Matches
<1>3. BucketAccount(owner, start, count, admits, now, b)
  BY <1>2, RateLimitAssumption DEF IInv, Accounts
<1>4. CASE Usable(a) = {}
  BY <1>2, <1>3, <1>4 DEF Reset
<1>5. CASE Usable(a) # {}
  <2>. DEFINE r == First(Usable(a))
  <2>1. r \in Buckets /\ r \in Visited(a)
    BY <1>5, UsableFacts DEF IInv
  <2>2. r # b
    BY <2>1, <1>1, RateLimitAssumption DEF Visited, Buckets
  <2>. QED
    BY <2>1, <2>2, <1>2, <1>3, <1>5 DEF Reset, IInv, TypeOK
<1>. QED
  BY <1>4, <1>5

LEMMA ConnectKeeps ==
  ASSUME ~ClockStepsBack, IInv, NEW a \in Ips, Connect(a)
  PROVE  IInv'
<1>. USE DEF Outcomes
<1>1. TypeOK /\ now \in 0..MaxTime /\ now \in Int /\ 1 \in 1..Limit
  BY RateLimitAssumption DEF IInv, TypeOK
<1>2. CASE ConnectIntegrityFault(a)
  BY <1>2, ScanKeeps DEF ConnectIntegrityFault
<1>3. CASE ConnectRefused(a)
  <2>1. ScanOnly(a) /\ Answer(a, "limit") /\ UNCHANGED <<now, stop>>
    BY <1>3 DEF ConnectRefused
  <2>. QED
    BY <2>1, <1>1, ScanKeeps DEF TypeOK
<1>4. CASE ConnectCounted(a)
  <2>1. PICK b \in Buckets :
          /\ Matches(a, b) /\ count[b] < Limit
          /\ WriteBucket(b, a, start[b], count[b] + 1)
          /\ Answer(a, "admitted")
          /\ UNCHANGED <<now, stop>>
    BY <1>4 DEF ConnectCounted
  <2>2. start[b] \in 0..MaxTime /\ count[b] + 1 \in 1..Limit
    BY <2>1, <1>1, RateLimitAssumption DEF TypeOK
  <2>3. /\ Reset(owner, NoIp, a)[b] = a
        /\ start[b] = Reset(start, 0, a)[b]
        /\ count[b] + 1 = Reset(count, 0, a)[b] + 1
    BY <2>1, MatchSpared
  <2>. QED
    BY <2>1, <2>2, <2>3, AdmissionKeeps
<1>5. CASE ConnectNewWindow(a)
  <2>1. PICK b \in Buckets :
          /\ Matches(a, b) /\ ~WindowOpen(b)
          /\ WriteBucket(b, a, now, 1)
          /\ Answer(a, "admitted")
          /\ UNCHANGED <<now, stop>>
    BY <1>5 DEF ConnectNewWindow
  <2>2. owner[b] = a /\ Reset(owner, NoIp, a)[b] = a /\ start[b] <= now
    BY <2>1, MatchSpared DEF BucketAccount
  <2>3. Expired(b)
    BY <2>1, <2>2, <1>1 DEF WindowOpen, TypeOK
  <2>4. Quiet(admits, now, a)
    BY <2>2, <2>3, ExpiredQuiet
  <2>. QED
    BY <2>1, <2>2, <2>4, <1>1, AdmissionKeeps
<1>6. CASE ConnectNewBucket(a)
  <2>. DEFINE b == First(Usable(a))
  <2>1. b \in Buckets
    BY <1>6, <1>1, UsableFacts DEF ConnectNewBucket
  <2>2. \A x \in Buckets : owner[x] # a
    BY <1>6 DEF ConnectNewBucket, StopsAt
  <2>3. Reset(owner, NoIp, a) = [owner EXCEPT ![b] = NoIp]
    BY <1>6 DEF ConnectNewBucket, Reset
  <2>4. /\ Reset(owner, NoIp, a)[b] = NoIp
        /\ \A x \in Buckets : Reset(owner, NoIp, a)[x] # a
    BY <2>1, <2>2, <2>3, <1>1, RateLimitAssumption DEF TypeOK
  <2>5. Quiet(admits, now, a)
    BY <2>2 DEF IInv, Accounts
  <2>6. WriteBucket(b, a, now, 1) /\ Answer(a, "admitted") /\ UNCHANGED <<now, stop>>
    BY <1>6 DEF ConnectNewBucket
  <2>. QED
    BY <2>1, <2>4, <2>5, <2>6, <1>1, AdmissionKeeps
<1>7. CASE ConnectTableFull(a) \/ ConnectFault(a)
  <2>1. /\ UNCHANGED <<owner, start, count, corrupt, now, admits>>
        /\ verdict' \in [ip : Ips \cup {NoIp}, outcome : Outcomes]
    <3>1. UNCHANGED bucketVars /\ now' = now
      BY <1>7 DEF ConnectTableFull, ConnectFault
    <3>2. Answer(a, "full") \/ Answer(a, "fault")
      BY <1>7 DEF ConnectTableFull, ConnectFault
    <3>3. admits' = admits
      BY <3>2 DEF Answer
    <3>4. verdict' \in [ip : Ips \cup {NoIp}, outcome : Outcomes]
      BY <3>2 DEF Answer
    <3>. QED
      BY <3>1, <3>3, <3>4 DEF bucketVars
  <2>2. TypeOK'
    <3>1. stop' = stop \/ stop' = TRUE
      BY <1>7 DEF ConnectTableFull, ConnectFault
    <3>2. stop' \in BOOLEAN
      BY <3>1, <1>1 DEF TypeOK
    <3>. QED
      BY <2>1, <3>2, <1>1 DEF TypeOK
  <2>3. SlidingBound'
    BY <2>1 DEF IInv, SlidingBound
  <2>. QED
    BY <2>1, <2>2, <2>3 DEF IInv
<1>. QED
  BY <1>2, <1>3, <1>4, <1>5, <1>6, <1>7 DEF Connect

\* Time passes: what was a window old stays so.
LEMMA TickKeeps ==
  ASSUME ~ClockStepsBack, IInv, NEW t \in 1..MaxTime, Tick(t)
  PROVE  IInv'
<1>1. /\ UNCHANGED <<owner, start, count, corrupt, stop, admits>>
      /\ now' = t /\ t > now
      /\ verdict' = [ip |-> NoIp, outcome |-> "none"]
  BY DEF Tick, bucketVars
<1>2. TypeOK /\ now \in Int /\ t \in Int /\ Window \in Nat
  BY RateLimitAssumption DEF IInv, TypeOK
<1>3. \A a \in Ips : \A i \in 1..Len(admits[a]) : admits[a][i] \in Int
  BY <1>2, AppendFacts
<1>4. TypeOK'
  BY <1>1, <1>2 DEF TypeOK, Outcomes
<1>5. Ordered(admits, t)
  BY <1>1, <1>2, <1>3 DEF IInv, Ordered
<1>6. ASSUME NEW b \in Buckets, owner[b] # NoIp
      PROVE  BucketAccount(owner, start, count, admits, t, b)
  <2>1. BucketAccount(owner, start, count, admits, now, b)
    BY <1>6 DEF IInv, Accounts
  <2>2. start[b] \in Int
    BY <1>2, RateLimitAssumption DEF TypeOK
  <2>. QED
    BY <2>1, <2>2, <1>1, <1>2 DEF BucketAccount
<1>7. ASSUME NEW a \in Ips, \A b \in Buckets : owner[b] # a
      PROVE  Quiet(admits, t, a)
  <2>1. Quiet(admits, now, a)
    BY <1>7 DEF IInv, Accounts
  <2>. QED
    BY <2>1, <1>1, <1>2, <1>3 DEF Quiet
<1>8. SlidingBound'
  BY <1>1 DEF IInv, SlidingBound
<1>. QED
  BY <1>1, <1>4, <1>5, <1>6, <1>7, <1>8 DEF IInv, Accounts

LEMMA InitIInv == Init => IInv
<1>. SUFFICES ASSUME Init PROVE IInv
  OBVIOUS
<1>1. TypeOK
  <2>1. corrupt \in [Buckets -> BOOLEAN] /\ stop \in BOOLEAN
    BY DEF Init
  <2>2. now \in 1..MaxTime /\ start \in [Buckets -> 0..MaxTime]
    BY RateLimitAssumption DEF Init
  <2>3. count \in [Buckets -> 0..Limit] /\ owner \in [Buckets -> Ips \cup {NoIp}]
    BY RateLimitAssumption DEF Init
  <2>4. admits \in [Ips -> Seq(1..MaxTime)]
    BY DEF Init
  <2>5. verdict \in [ip : Ips \cup {NoIp}, outcome : Outcomes]
    BY DEF Init, Outcomes
  <2>. QED
    BY <2>1, <2>2, <2>3, <2>4, <2>5 DEF TypeOK
<1>2. \A b \in Buckets : owner[b] = NoIp
  BY DEF Init
<1>3. \A a \in Ips : Len(admits[a]) = 0
  BY DEF Init
<1>4. \A a \in Ips : 1..Len(admits[a]) = {}
  BY <1>3
<1>. QED
  BY <1>1, <1>2, <1>4 DEF IInv, Ordered, Accounts, Unique, Quiet, SlidingBound

LEMMA NextIInv ==
  ASSUME ~ClockStepsBack, IInv, [Next]_vars
  PROVE  IInv'
<1>1. CASE \E a \in Ips : Connect(a)
  BY <1>1, ConnectKeeps
<1>2. CASE \E t \in 1..MaxTime : Tick(t)
  BY <1>2, TickKeeps
<1>3. CASE (\E b \in Buckets : MemoryFault(b)) \/ UNCHANGED vars
  <2>1. UNCHANGED <<owner, start, count, now, stop, admits, verdict>>
    BY <1>3 DEF MemoryFault, vars, bucketVars
  <2>2. corrupt' \in [Buckets -> BOOLEAN]
    BY <1>3 DEF MemoryFault, vars, bucketVars, IInv, TypeOK
  <2>3. TypeOK'
    BY <2>1, <2>2 DEF IInv, TypeOK
  <2>4. SlidingBound'
    BY <2>1 DEF IInv, SlidingBound
  <2>. QED
    BY <2>1, <2>3, <2>4 DEF IInv
<1>. QED
  BY <1>1, <1>2, <1>3 DEF Next

-----------------------------------------------------------------------------
\* With a clock that is never set back, any 2 * Limit connections of an
\* address that llps_client_ip_rate_limit_exceeded lets pass span at least
\* one window, whichever buckets are recycled or get corrupt.
THEOREM RateBounded == ASSUME ~ClockStepsBack PROVE Spec => []SlidingBound
<1>1. IInv => SlidingBound
  BY DEF IInv
<1>. QED
  BY <1>1, InitIInv, NextIInv, PTL DEF Spec

-----------------------------------------------------------------------------
(* Refusals, with any clock *)

\* Positions of the admissions of x at clock readings from..to.
Within(h, x, from, to) == {i \in 1..Len(h[x]) : h[x][i] \in from..to}

\* What a bucket counts was admitted in its window, wherever the clock is now.
Covered(o, s, c, h) ==
  \A b \in Buckets : o[b] \in Ips =>
    c[b] <= Cardinality(Within(h, o[b], s[b], s[b] + Window - 1))

SeenInv ==
  /\ TypeOK
  /\ Unique(owner)
  /\ Covered(owner, start, count, admits)
  /\ RefusalJustified

LEMMA WithinFinite ==
  ASSUME NEW h \in [Ips -> Seq(1..MaxTime)], NEW x \in Ips, NEW from, NEW to
  PROVE  /\ IsFiniteSet(Within(h, x, from, to))
         /\ Cardinality(Within(h, x, from, to)) \in Nat
<1>1. Len(h[x]) \in Nat /\ 1 \in Int /\ Len(h[x]) \in Int
  BY LenProperties
<1>2. IsFiniteSet(1..Len(h[x]))
  BY <1>1, FS_Interval, ZenonT(30)
<1>3. Within(h, x, from, to) \subseteq 1..Len(h[x])
  BY DEF Within
<1>. QED
  BY <1>2, <1>3, FS_Subset, FS_CardinalityType

\* Fewer admissions are fewer.
LEMMA WithinGrows ==
  ASSUME NEW h \in [Ips -> Seq(1..MaxTime)], NEW x \in Ips, NEW S,
         NEW from, NEW to, S \subseteq Within(h, x, from, to)
  PROVE  /\ IsFiniteSet(S) /\ Cardinality(S) \in Nat
         /\ Cardinality(S) <= Cardinality(Within(h, x, from, to))
BY WithinFinite, FS_Subset, FS_CardinalityType

\* An admission adds one to every window it falls into and takes none away.
LEMMA AppendCovers ==
  ASSUME TypeOK, NEW a \in Ips, NEW h, h = [admits EXCEPT ![a] = Append(@, now)],
         NEW x \in Ips, NEW from \in Int, NEW to \in Int
  PROVE  /\ Cardinality(Within(admits, x, from, to)) <= Cardinality(Within(h, x, from, to))
         /\ x = a /\ now \in from..to =>
              Cardinality(Within(admits, x, from, to)) + 1 <= Cardinality(Within(h, x, from, to))
<1>. DEFINE n == Len(admits[a])
            S == Within(admits, x, from, to)
            T == Within(h, x, from, to)
<1>1. /\ h \in [Ips -> Seq(1..MaxTime)] /\ n \in Nat /\ Len(h[a]) = n + 1
      /\ h[a][n + 1] = now /\ \A i \in 1..n : h[a][i] = admits[a][i]
      /\ \A y \in Ips \ {a} : h[y] = admits[y]
  BY AppendFacts, ZenonT(30)
<1>2. S \subseteq T
  BY <1>1 DEF Within
<1>3. IsFiniteSet(S) /\ Cardinality(S) \in Nat /\ Cardinality(S) <= Cardinality(T)
  BY <1>1, <1>2, WithinGrows
<1>4. ASSUME x = a, now \in from..to
      PROVE  Cardinality(S) + 1 <= Cardinality(T)
  <2>1. n + 1 \notin S /\ S \cup {n + 1} \subseteq T
    BY <1>1, <1>2, <1>4 DEF Within
  <2>2. Cardinality(S \cup {n + 1}) = Cardinality(S) + 1
    BY <1>3, <2>1, FS_AddElement
  <2>3. Cardinality(S \cup {n + 1}) <= Cardinality(T)
    BY <1>1, <2>1, WithinGrows
  <2>. QED
    BY <2>2, <2>3
<1>. QED
  BY <1>3, <1>4

\* The scan's reset takes a bucket from its address and gives none away.
LEMMA ResetFacts ==
  ASSUME TypeOK, NEW a \in Ips
  PROVE  LET o == Reset(owner, NoIp, a)
             s == Reset(start, 0, a)
             c == Reset(count, 0, a)
         IN  /\ o \in [Buckets -> Ips \cup {NoIp}]
             /\ s \in [Buckets -> 0..MaxTime]
             /\ c \in [Buckets -> 0..Limit]
             /\ \A b \in Buckets : \/ o[b] = owner[b] /\ s[b] = start[b] /\ c[b] = count[b]
                                   \/ o[b] = NoIp
             /\ \A b \in Buckets : Matches(a, b) =>
                  owner[b] = a /\ o[b] = a /\ s[b] = start[b] /\ c[b] = count[b]
<1>. DEFINE o == Reset(owner, NoIp, a)
            s == Reset(start, 0, a)
            c == Reset(count, 0, a)
            r == First(Usable(a))
<1>1. ASSUME NEW b \in Buckets, Matches(a, b)
      PROVE  b \in StopsAt(a) /\ owner[b] = a
  <2>1. StopsAt(a) \subseteq Buckets /\ StopsAt(a) # {}
    BY <1>1 DEF StopsAt, Matches
  <2>2. b \in StopsAt(a)
    BY <1>1, <2>1, FirstIn DEF Matches
  <2>. QED
    BY <1>1, <2>2 DEF StopsAt, Matches
<1>2. CASE Usable(a) = {}
  BY <1>1, <1>2 DEF Reset, TypeOK
<1>3. CASE Usable(a) # {}
  <2>1. r \in Buckets /\ r \in Visited(a)
    BY <1>3, UsableFacts
  <2>2. /\ o = [owner EXCEPT ![r] = NoIp]
        /\ s = [start EXCEPT ![r] = 0]
        /\ c = [count EXCEPT ![r] = 0]
    BY <1>3 DEF Reset
  <2>3. \A b \in StopsAt(a) : b # r
    BY <2>1, RateLimitAssumption DEF Visited, StopsAt, Buckets
  <2>. HIDE DEF o, s, c, r
  <2>4. /\ o \in [Buckets -> Ips \cup {NoIp}]
        /\ s \in [Buckets -> 0..MaxTime]
        /\ c \in [Buckets -> 0..Limit]
    BY <2>1, <2>2, RateLimitAssumption DEF TypeOK
  <2>5. \A b \in Buckets : /\ b # r => o[b] = owner[b] /\ s[b] = start[b] /\ c[b] = count[b]
                           /\ b = r => o[b] = NoIp
    BY <2>1, <2>2 DEF TypeOK
  <2>. QED
    BY <1>1, <2>3, <2>4, <2>5 DEF o, s, c
<1>. QED
  BY <1>2, <1>3

\* The buckets after a reset, and after one of them is written.
LEMMA ResetCovers ==
  ASSUME TypeOK, Unique(owner), Covered(owner, start, count, admits), NEW a \in Ips
  PROVE  /\ Unique(Reset(owner, NoIp, a))
         /\ Covered(Reset(owner, NoIp, a), Reset(start, 0, a), Reset(count, 0, a), admits)
<1>1. NoIp \notin Ips
  BY RateLimitAssumption
<1>. DEFINE o == Reset(owner, NoIp, a)
            s == Reset(start, 0, a)
            c == Reset(count, 0, a)
<1>2. \A b \in Buckets : \/ o[b] = owner[b] /\ s[b] = start[b] /\ c[b] = count[b]
                         \/ o[b] = NoIp
  BY ResetFacts
<1>. HIDE DEF o, s, c
<1>3. Unique(o)
  BY <1>2 DEF Unique
<1>4. Covered(o, s, c, admits)
  BY <1>1, <1>2 DEF Covered
<1>. QED
  BY <1>3, <1>4 DEF o, s, c

\* A call that admits nobody.
LEMMA ScanSeen ==
  ASSUME SeenInv, NEW a \in Ips, ScanOnly(a), NEW outcome \in Outcomes \ {"admitted"},
         Answer(a, outcome), UNCHANGED now, stop' \in BOOLEAN
  PROVE  (TypeOK /\ Unique(owner) /\ Covered(owner, start, count, admits))'
<1>1. admits' = admits /\ verdict' = [ip |-> a, outcome |-> outcome]
  BY DEF Answer
<1>2. /\ owner' \in [Buckets -> Ips \cup {NoIp}]
      /\ start' \in [Buckets -> 0..MaxTime]
      /\ count' \in [Buckets -> 0..Limit]
  BY ResetFacts DEF ScanOnly, SeenInv
<1>3. TypeOK'
  BY <1>1, <1>2 DEF SeenInv, TypeOK, ScanOnly, Outcomes
<1>4. Unique(owner') /\ Covered(owner', start', count', admits)
  BY ResetCovers DEF ScanOnly, SeenInv
<1>. QED
  BY <1>1, <1>3, <1>4

\* A call that admits a client: counted in an open window, or the first of one.
LEMMA AdmissionSeen ==
  ASSUME SeenInv, NEW a \in Ips, NEW b \in Buckets, NEW opened \in 0..MaxTime,
         NEW k \in 1..Limit, WriteBucket(b, a, opened, k), Answer(a, "admitted"),
         UNCHANGED <<now, stop>>,
         \/ Reset(owner, NoIp, a)[b] = a
         \/ \A x \in Buckets : Reset(owner, NoIp, a)[x] # a,
         \/ /\ Reset(owner, NoIp, a)[b] = a /\ opened = Reset(start, 0, a)[b]
            /\ k = Reset(count, 0, a)[b] + 1 /\ now \in opened..(opened + Window - 1)
         \/ opened = now /\ k = 1
  PROVE  SeenInv'
<1>. DEFINE o == Reset(owner, NoIp, a)
            s == Reset(start, 0, a)
            c == Reset(count, 0, a)
            h == [admits EXCEPT ![a] = Append(@, now)]
<1>1. /\ o \in [Buckets -> Ips \cup {NoIp}] /\ s \in [Buckets -> 0..MaxTime]
      /\ c \in [Buckets -> 0..Limit] /\ TypeOK
  BY ResetFacts DEF SeenInv
<1>2. Unique(o) /\ Covered(o, s, c, admits)
  BY ResetCovers DEF SeenInv
<1>3. /\ owner' = [o EXCEPT ![b] = a] /\ start' = [s EXCEPT ![b] = opened]
      /\ count' = [c EXCEPT ![b] = k] /\ corrupt' = corrupt
      /\ admits' = h /\ now' = now /\ stop' = stop
      /\ verdict' = [ip |-> a, outcome |-> "admitted"]
  BY DEF WriteBucket, Answer
<1>4. /\ o[b] = a \/ \A x \in Buckets : o[x] # a
      /\ \/ /\ o[b] = a /\ opened = s[b] /\ k = c[b] + 1
            /\ now \in opened..(opened + Window - 1)
         \/ opened = now /\ k = 1
  OBVIOUS
<1>5. h = [admits EXCEPT ![a] = Append(@, now)] /\ h \in [Ips -> Seq(1..MaxTime)]
  BY <1>1, AppendFacts
<1>. HIDE DEF o, s, c, h
<1>6. /\ owner' \in [Buckets -> Ips \cup {NoIp}] /\ start' \in [Buckets -> 0..MaxTime]
      /\ count' \in [Buckets -> 0..Limit]
      /\ \A x \in Buckets \ {b} : owner'[x] = o[x] /\ start'[x] = s[x] /\ count'[x] = c[x]
      /\ owner'[b] = a /\ start'[b] = opened /\ count'[b] = k
  BY <1>1, <1>3, RateLimitAssumption
<1>7. TypeOK'
  <2>1. verdict' \in [ip : Ips \cup {NoIp}, outcome : Outcomes]
    BY <1>3 DEF Outcomes
  <2>. QED
    BY <1>1, <1>3, <1>5, <1>6, <2>1 DEF TypeOK
<1>8. Unique(owner)'
  BY <1>2, <1>4, <1>6 DEF Unique
<1>9. /\ Window \in Nat \ {0} /\ now \in Int /\ MaxTime \in Nat /\ Limit \in Nat
      /\ \A t \in 0..MaxTime : t \in Int /\ t + Window - 1 \in Int
  BY <1>1, RateLimitAssumption DEF TypeOK
<1>10. ASSUME NEW x \in Buckets, owner'[x] \in Ips
       PROVE  count'[x] <= Cardinality(Within(h, owner'[x], start'[x], start'[x] + Window - 1))
  <2>. DEFINE from == start'[x]
              to == start'[x] + Window - 1
              old == Cardinality(Within(admits, owner'[x], from, to))
              new == Cardinality(Within(h, owner'[x], from, to))
  <2>1. from \in Int /\ to \in Int
    BY <1>6, <1>9
  <2>2. old \in Nat /\ new \in Nat
    BY <1>1, <1>5, <1>10, WithinFinite DEF TypeOK
  <2>3. old <= new /\ (owner'[x] = a /\ now \in from..to => old + 1 <= new)
    BY <1>1, <1>5, <1>10, <2>1, AppendCovers
  <2>4. CASE x # b
    <3>1. count'[x] <= old
      BY <1>2, <1>6, <1>10, <2>4 DEF Covered
    <3>2. count'[x] \in Int
      BY <1>6, <1>9
    <3>. HIDE DEF old, new
    <3>. QED
      BY <2>2, <2>3, <3>1, <3>2 DEF new
  <2>5. CASE x = b /\ opened = now /\ k = 1
    <3>1. now \in from..to /\ owner'[x] = a /\ count'[x] = 1
      BY <1>6, <1>9, <2>5
    <3>. HIDE DEF old, new
    <3>. QED
      BY <2>2, <2>3, <3>1 DEF new
  <2>6. CASE /\ x = b /\ o[b] = a /\ opened = s[b] /\ k = c[b] + 1
             /\ now \in opened..(opened + Window - 1)
    <3>1. now \in from..to /\ owner'[x] = a /\ count'[x] = c[b] + 1 /\ from = s[b]
      BY <1>6, <2>6
    <3>2. c[b] <= old /\ c[b] \in Int
      BY <1>1, <1>2, <1>9, <2>6, <3>1 DEF Covered
    <3>. HIDE DEF old, new
    <3>. QED
      BY <2>2, <2>3, <3>1, <3>2 DEF new
  <2>. QED
    BY <1>4, <2>4, <2>5, <2>6
<1>11. Covered(owner, start, count, admits)'
  BY <1>3, <1>10 DEF Covered
<1>12. RefusalJustified'
  BY <1>3 DEF RefusalJustified
<1>. QED
  BY <1>7, <1>8, <1>11, <1>12 DEF SeenInv

\* A refused client finds its quota used up in the window that is open.
LEMMA RefusedJustly ==
  ASSUME SeenInv, NEW a \in Ips, ConnectRefused(a)
  PROVE  RefusalJustified'
<1>1. PICK b \in Buckets :
        /\ Matches(a, b) /\ WindowOpen(b) /\ count[b] >= Limit
        /\ Answer(a, "limit") /\ now' = now
  BY DEF ConnectRefused
<1>2. admits' = admits /\ verdict' = [ip |-> a, outcome |-> "limit"]
  BY <1>1 DEF Answer
<1>3. owner[b] = a /\ TypeOK
  BY <1>1, ResetFacts DEF SeenInv
<1>. DEFINE S == Within(admits, a, start[b], start[b] + Window - 1)
            T == Within(admits, a, now - Window + 1, now + Window - 1)
<1>4. /\ Window \in Nat /\ now \in Int /\ start[b] \in Int /\ Limit \in Nat /\ count[b] \in Int
      /\ start[b] <= now /\ now < start[b] + Window
  <2>1. Window \in Nat /\ MaxTime \in Nat /\ Limit \in Nat
    BY RateLimitAssumption
  <2>2. now \in Int /\ start[b] \in Int /\ count[b] \in Int
    BY <1>3, <2>1 DEF TypeOK
  <2>. QED
    BY <1>1, <2>1, <2>2 DEF WindowOpen, Expired
<1>5. \A v \in start[b]..(start[b] + Window - 1) : v \in (now - Window + 1)..(now + Window - 1)
  BY <1>4
<1>6. S \subseteq T
  BY <1>5 DEF Within
<1>7. Cardinality(S) \in Nat /\ Cardinality(S) <= Cardinality(T) /\ Cardinality(T) \in Nat
  BY <1>3, <1>6, WithinGrows, WithinFinite DEF TypeOK
<1>8. count[b] <= Cardinality(S)
  BY <1>3 DEF SeenInv, Covered
<1>. HIDE DEF S, T
<1>9. Cardinality(T) >= Limit
  BY <1>1, <1>4, <1>7, <1>8
<1>10. AdmittedBetween(a, now - Window + 1, now + Window - 1)' = Cardinality(T)
  BY <1>1, <1>2 DEF AdmittedBetween, Within, T
<1>. QED
  BY <1>2, <1>9, <1>10 DEF RefusalJustified

LEMMA ConnectSeen ==
  ASSUME SeenInv, NEW a \in Ips, Connect(a)
  PROVE  SeenInv'
<1>. USE DEF Outcomes
<1>1. /\ TypeOK /\ now \in 0..MaxTime /\ now \in Int /\ 1 \in 1..Limit /\ MaxTime \in Nat
      /\ Window \in Nat /\ Limit \in Nat
  BY RateLimitAssumption DEF SeenInv, TypeOK
<1>2. ASSUME NEW outcome \in Outcomes, outcome # "limit", Answer(a, outcome)
      PROVE  RefusalJustified'
  BY <1>2 DEF Answer, RefusalJustified
<1>3. CASE ConnectIntegrityFault(a)
  BY <1>2, <1>3, ScanSeen DEF ConnectIntegrityFault, SeenInv
<1>4. CASE ConnectRefused(a)
  <2>1. ScanOnly(a) /\ Answer(a, "limit") /\ UNCHANGED <<now, stop>>
    BY <1>4 DEF ConnectRefused
  <2>. QED
    BY <1>1, <1>4, <2>1, ScanSeen, RefusedJustly DEF SeenInv, TypeOK
<1>5. CASE ConnectCounted(a)
  <2>1. PICK b \in Buckets :
          /\ Matches(a, b) /\ WindowOpen(b) /\ count[b] < Limit
          /\ WriteBucket(b, a, start[b], count[b] + 1)
          /\ Answer(a, "admitted") /\ UNCHANGED <<now, stop>>
    BY <1>5 DEF ConnectCounted
  <2>2. start[b] \in 0..MaxTime /\ count[b] + 1 \in 1..Limit
    BY <1>1, <2>1 DEF TypeOK
  <2>3. /\ Reset(owner, NoIp, a)[b] = a /\ start[b] = Reset(start, 0, a)[b]
        /\ count[b] + 1 = Reset(count, 0, a)[b] + 1
    BY <1>1, <2>1, ResetFacts
  <2>4. now \in start[b]..(start[b] + Window - 1)
    BY <1>1, <2>1, <2>2 DEF WindowOpen, Expired
  <2>. QED
    BY <2>1, <2>2, <2>3, <2>4, AdmissionSeen
<1>6. CASE ConnectNewWindow(a)
  <2>1. PICK b \in Buckets :
          /\ Matches(a, b) /\ WriteBucket(b, a, now, 1)
          /\ Answer(a, "admitted") /\ UNCHANGED <<now, stop>>
    BY <1>6 DEF ConnectNewWindow
  <2>2. Reset(owner, NoIp, a)[b] = a
    BY <1>1, <2>1, ResetFacts
  <2>. QED
    BY <1>1, <2>1, <2>2, AdmissionSeen
<1>7. CASE ConnectNewBucket(a)
  <2>. DEFINE b == First(Usable(a))
  <2>1. b \in Buckets
    BY <1>1, <1>7, UsableFacts DEF ConnectNewBucket
  <2>2. \A x \in Buckets : owner[x] # a
    BY <1>7 DEF ConnectNewBucket, StopsAt
  <2>3. \A x \in Buckets : Reset(owner, NoIp, a)[x] # a
    BY <1>1, <2>2, ResetFacts, RateLimitAssumption
  <2>4. WriteBucket(b, a, now, 1) /\ Answer(a, "admitted") /\ UNCHANGED <<now, stop>>
    BY <1>7 DEF ConnectNewBucket
  <2>. QED
    BY <1>1, <2>1, <2>3, <2>4, AdmissionSeen
<1>8. CASE ConnectTableFull(a) \/ ConnectFault(a)
  <2>1. UNCHANGED bucketVars /\ now' = now /\ stop' \in {stop, TRUE}
    BY <1>8 DEF ConnectTableFull, ConnectFault
  <2>2. Answer(a, "full") \/ Answer(a, "fault")
    BY <1>8 DEF ConnectTableFull, ConnectFault
  <2>3. admits' = admits /\ verdict' \in [ip : Ips \cup {NoIp}, outcome : Outcomes]
    BY <2>2 DEF Answer
  <2>4. stop' \in BOOLEAN
    BY <1>1, <2>1 DEF TypeOK
  <2>5. TypeOK' /\ Unique(owner)' /\ Covered(owner, start, count, admits)'
    BY <2>1, <2>3, <2>4 DEF SeenInv, TypeOK, bucketVars
  <2>. QED
    BY <1>2, <2>2, <2>5 DEF SeenInv
<1>. QED
  BY <1>3, <1>4, <1>5, <1>6, <1>7, <1>8 DEF Connect

LEMMA NextSeen ==
  ASSUME SeenInv, [Next]_vars
  PROVE  SeenInv'
<1>1. CASE \E a \in Ips : Connect(a)
  BY <1>1, ConnectSeen
<1>2. ASSUME NEW t \in 1..MaxTime, Tick(t)
      PROVE  SeenInv'
  <2>1. UNCHANGED <<bucketVars, stop, admits>> /\ now' = t
        /\ verdict' = [ip |-> NoIp, outcome |-> "none"]
    BY <1>2 DEF Tick
  <2>2. TypeOK' /\ Unique(owner)' /\ Covered(owner, start, count, admits)'
    BY <2>1 DEF SeenInv, TypeOK, bucketVars, Outcomes
  <2>. QED
    BY <2>1, <2>2 DEF SeenInv, RefusalJustified
<1>3. CASE (\E b \in Buckets : MemoryFault(b)) \/ UNCHANGED vars
  <2>1. UNCHANGED <<owner, start, count, now, stop, admits, verdict>>
    BY <1>3 DEF MemoryFault, vars, bucketVars
  <2>2. corrupt' \in [Buckets -> BOOLEAN]
    BY <1>3 DEF MemoryFault, vars, bucketVars, SeenInv, TypeOK
  <2>3. TypeOK' /\ Unique(owner)' /\ Covered(owner, start, count, admits)'
    BY <2>1, <2>2 DEF SeenInv, TypeOK
  <2>. QED
    BY <2>1, <2>3 DEF SeenInv, RefusalJustified, AdmittedBetween
<1>. QED
  BY <1>1, <1>2, <1>3 DEF Next

LEMMA InitSeen == Init => SeenInv
<1>. SUFFICES ASSUME Init PROVE SeenInv
  OBVIOUS
<1>1. TypeOK
  BY InitIInv DEF IInv
<1>2. \A b \in Buckets : owner[b] = NoIp /\ NoIp \notin Ips
  BY RateLimitAssumption DEF Init
<1>3. verdict.outcome # "limit"
  BY DEF Init
<1>. QED
  BY <1>1, <1>2, <1>3 DEF SeenInv, Unique, Covered, RefusalJustified

\* Whatever the clock does, a client whose rate is refused was admitted Limit
\* times less than one window away from now: a window that a clock set back
\* left in the future is replaced, so nobody stays locked out.
THEOREM RefusalsJustified == Spec => []RefusalJustified
<1>1. SeenInv => RefusalJustified
  BY DEF SeenInv
<1>. QED
  BY <1>1, InitSeen, NextSeen, PTL DEF Spec

\* Whatever the clock does, no address ever has two buckets, also after
\* llps_client_ip_rate_find_bucket recycled buckets on its way.
THEOREM BucketsUnique == Spec => []OneBucketPerAddress
<1>1. SeenInv => OneBucketPerAddress
  BY DEF SeenInv, Unique, OneBucketPerAddress
<1>. QED
  BY <1>1, InitSeen, NextSeen, PTL DEF Spec

-----------------------------------------------------------------------------
(* A full table *)

\* Every bucket of a full table belongs to another address that was admitted
\* within the last window.
LEMMA FullJustly ==
  ASSUME IInv, NEW a \in Ips, ConnectTableFull(a)
  PROVE  FullJustified'
<1>. DEFINE X == {x \in Ips \ {a} : AdmittedBetween(x, now - Window + 1, now) > 0}
<1>1. /\ admits' = admits /\ verdict' = [ip |-> a, outcome |-> "full"] /\ now' = now
      /\ StopsAt(a) = {} /\ Usable(a) = {}
  BY DEF ConnectTableFull, Answer
<1>2. TypeOK /\ BucketCount \in Nat /\ Window \in Nat /\ MaxTime \in Nat
  BY RateLimitAssumption DEF IInv
<1>3. ASSUME NEW b \in Buckets
      PROVE  owner[b] \in X
  <2>1. owner[b] # a /\ owner[b] # NoIp /\ ~Expired(b)
    BY <1>1 DEF StopsAt, Usable, Visited
  <2>2. owner[b] \in Ips /\ BucketAccount(owner, start, count, admits, now, b)
    BY <1>2, <2>1 DEF TypeOK, IInv, Accounts
  <2>. DEFINE x == owner[b]
              i == Len(admits[x]) - count[b] + 1
              S == Within(admits, x, now - Window + 1, now)
  <2>3. start[b] \in Int /\ now \in Int /\ start[b] <= now /\ now < start[b] + Window
    <3>1. start[b] \in Int /\ now \in Int /\ start[b] <= now
      BY <1>2, <2>2 DEF TypeOK, BucketAccount
    <3>. QED
      BY <1>2, <2>1, <3>1 DEF Expired
  <2>4. i \in 1..Len(admits[x]) /\ admits[x][i] = start[b]
    <3>1. /\ count[b] \in 1..Limit /\ Limit \in Nat /\ count[b] <= Len(admits[x])
          /\ admits[x][i] = start[b]
      BY <2>2, RateLimitAssumption DEF BucketAccount
    <3>2. Len(admits[x]) \in Nat
      BY <1>2, <2>2, LenProperties DEF TypeOK
    <3>. QED
      BY <3>1, <3>2
  <2>5. i \in S
    BY <1>2, <2>3, <2>4 DEF Within
  <2>6. IsFiniteSet(S) /\ Cardinality(S) \in Nat
    BY <1>2, <2>2, WithinFinite DEF TypeOK
  <2>7. Cardinality(S) # 0
    BY <2>5, <2>6, FS_EmptySet
  <2>8. AdmittedBetween(x, now - Window + 1, now) = Cardinality(S)
    BY DEF AdmittedBetween, Within
  <2>. HIDE DEF S, i
  <2>. QED
    BY <2>1, <2>2, <2>6, <2>7, <2>8
<1>4. IsFiniteSet(X)
  <2>1. X \subseteq Ips /\ IsFiniteSet(Ips)
    BY RateLimitAssumption
  <2>. QED
    BY <2>1, FS_Subset
<1>. HIDE DEF X
<1>. DEFINE f == [b \in Buckets |-> owner[b]]
<1>5. f \in Injection(Buckets, X)
  <2>1. \A b, c \in Buckets : owner[b] = owner[c] => b = c
    <3>1. \A b \in Buckets : owner[b] # NoIp
      BY <1>3, RateLimitAssumption DEF X
    <3>. QED
      BY <3>1 DEF IInv, Accounts, Unique
  <2>. QED
    BY <1>3, <2>1 DEF Injection, IsInjective
<1>6. Cardinality(Buckets) <= Cardinality(X)
  BY <1>4, <1>5, FS_Injection
<1>7. Cardinality(Buckets) = BucketCount
  <2>1. 1 \in Int /\ BucketCount \in Int
    BY <1>2
  <2>2. Cardinality(1..BucketCount) = IF 1 > BucketCount THEN 0 ELSE BucketCount - 1 + 1
    BY <2>1, FS_Interval, ZenonT(30)
  <2>. QED
    BY <1>2, <2>2 DEF Buckets
<1>8. Cardinality(X) \in Nat
  BY <1>4, FS_CardinalityType
<1>9. Cardinality(X) >= BucketCount
  BY <1>2, <1>6, <1>7, <1>8
<1>10. {x \in Ips \ {verdict'.ip} : AdmittedBetween(x, now - Window + 1, now)' > 0} = X
  BY <1>1 DEF X, AdmittedBetween
<1>. QED
  BY <1>9, <1>10 DEF FullJustified

\* With a clock that is never set back a client is refused for a full table
\* only if BucketCount other addresses were admitted within the last window:
\* the scan of llps_client_ip_rate_find_bucket finds every expired bucket.
THEOREM TableFullJustified == ASSUME ~ClockStepsBack PROVE Spec => []FullJustified
<1>1. IInv /\ FullJustified /\ [Next]_vars => FullJustified'
  <2>. SUFFICES ASSUME IInv, FullJustified, [Next]_vars
                PROVE  FullJustified'
    OBVIOUS
  <2>1. ASSUME NEW a \in Ips, Connect(a)
        PROVE  FullJustified'
    <3>1. CASE ConnectTableFull(a)
      BY <3>1, FullJustly
    <3>2. CASE ~ConnectTableFull(a)
      <4>1. \E outcome \in Outcomes \ {"full"} : Answer(a, outcome)
        BY <2>1, <3>2 DEF Connect, ConnectIntegrityFault, ConnectCounted, ConnectRefused,
           ConnectNewWindow, ConnectNewBucket, ConnectFault, Outcomes
      <4>2. verdict'.outcome # "full"
        BY <4>1 DEF Answer
      <4>. QED
        BY <4>2 DEF FullJustified
    <3>. QED
      BY <3>1, <3>2
  <2>2. ASSUME NEW t \in 1..MaxTime, Tick(t)
        PROVE  FullJustified'
    BY <2>2 DEF Tick, FullJustified
  <2>3. CASE (\E b \in Buckets : MemoryFault(b)) \/ UNCHANGED vars
    <3>1. UNCHANGED <<now, admits, verdict>>
      BY <2>3 DEF MemoryFault, vars
    <3>. QED
      BY <3>1 DEF FullJustified, AdmittedBetween
  <2>. QED
    BY <2>1, <2>2, <2>3 DEF Next
<1>2. Init => FullJustified
  BY DEF Init, FullJustified
<1>. QED
  BY <1>1, <1>2, InitIInv, NextIInv, PTL DEF Spec
=============================================================================
