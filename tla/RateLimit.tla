----------------------------- MODULE RateLimit -----------------------------
(***************************************************************************)
(* New-connection rate limiting per client address (llps_state.c,          *)
(* llps_client_ip_rate_limit_exceeded).  Each address that connected       *)
(* recently has a bucket with a fixed window that opens with its first     *)
(* admitted connection; at most Limit connections are admitted per window. *)
(* Buckets live in a fixed table, are found by a linear scan that recycles *)
(* one expired bucket on its way, and are checksummed: a corrupt bucket    *)
(* that the scan meets stops the server.  The call does not suspend, so it *)
(* is one step.                                                            *)
(*                                                                         *)
(* A limit of 0 switches all of this off and is not modelled.  Times are   *)
(* nanoseconds since a clock origin, far from overflow; what matters is    *)
(* only their differences to the window.                                   *)
(***************************************************************************)
EXTENDS Integers, Sequences, FiniteSets

CONSTANTS
  Ips,              \* client addresses
  NoIp,             \* the empty address of a free bucket
  BucketCount,      \* LLPS_CLIENT_IP_RATE_BUCKET_COUNT
  Limit,            \* max_new_sessions_per_client_ip_per_window
  Window,           \* client_ip_rate_window_ms
  MaxTime,          \* bound of the model: last clock reading
  MaxAdmits,        \* bound of the model: admitted connections per address
  ClockStepsBack,   \* the clock may be set back
  MayCorrupt        \* memory faults may hit buckets

ASSUME RateLimitAssumption ==
  /\ NoIp \notin Ips /\ IsFiniteSet(Ips)
  /\ BucketCount \in Nat \ {0}
  /\ Limit \in Nat \ {0}
  /\ Window \in Nat \ {0}
  /\ MaxTime \in Nat \ {0}
  /\ MaxAdmits \in Nat
  /\ ClockStepsBack \in BOOLEAN
  /\ MayCorrupt \in BOOLEAN

VARIABLES
  owner,    \* client_ip of each bucket, NoIp when MAGIC_FREE
  start,    \* window_start_ns
  count,    \* count
  corrupt,  \* the bucket fails llps_client_ip_rate_bucket_is_valid
  now,      \* the clock
  stop,     \* the shutdown flag
  admits,   \* history: clock readings at the admitted connections of an address
  verdict   \* history: the last connection: address and outcome

Buckets == 1..BucketCount
bucketVars == <<owner, start, count, corrupt>>
vars == <<bucketVars, now, stop, admits, verdict>>

Outcomes == {"none", "admitted", "limit", "full", "integrity", "fault"}

-----------------------------------------------------------------------------
(* llps_client_ip_rate_find_bucket *)

\* Mutant of Expired: windows end one unit early.
ExpiredEarly(b) == now >= start[b] /\ now - start[b] >= Window - 1

\* llps_client_ip_rate_bucket_is_expired
Expired(b) == now >= start[b] /\ now - start[b] >= Window

\* The first element of a set of buckets, in scan order.
First(S) == CHOOSE b \in S : \A c \in S : b <= c

\* Mutant of StopsAt: a free bucket ends the search for the address.
StopsAtFree(addr) ==
  {b \in Buckets : \/ corrupt[b]
                   \/ owner[b] = addr /\ \A c \in 1..(b - 1) : owner[c] # NoIp}

\* The scan ends at the first corrupt bucket or the first one of the address.
StopsAt(addr) == {b \in Buckets : corrupt[b] \/ owner[b] = addr}

\* The buckets the scan visits before that.
Visited(addr) == {b \in Buckets : \A c \in StopsAt(addr) : b < c}

\* Mutant of Usable: only buckets never used before are taken.
UsableFree(addr) == {b \in Visited(addr) : owner[b] = NoIp}

\* Free buckets and expired ones, which the scan resets when it has none yet.
Usable(addr) == {b \in Visited(addr) : owner[b] = NoIp \/ Expired(b)}

\* The table after the scan: one expired bucket was reset to free.
Reset(f, empty, addr) ==
  IF Usable(addr) = {} THEN f ELSE [f EXCEPT ![First(Usable(addr))] = empty]

-----------------------------------------------------------------------------
(* llps_client_ip_rate_limit_exceeded *)

Answer(addr, outcome) ==
  /\ verdict' = [ip |-> addr, outcome |-> outcome]
  /\ admits' = IF outcome = "admitted"
               THEN [admits EXCEPT ![addr] = Append(@, now)]
               ELSE admits

\* llps_client_ip_rate_bucket_write into bucket b, after the scan's reset.
WriteBucket(b, addr, opened, n) ==
  /\ owner' = [Reset(owner, NoIp, addr) EXCEPT ![b] = addr]
  /\ start' = [Reset(start, 0, addr) EXCEPT ![b] = opened]
  /\ count' = [Reset(count, 0, addr) EXCEPT ![b] = n]
  /\ UNCHANGED corrupt

\* Nothing is written but the scan's reset.
ScanOnly(addr) ==
  /\ owner' = Reset(owner, NoIp, addr)
  /\ start' = Reset(start, 0, addr)
  /\ count' = Reset(count, 0, addr)
  /\ UNCHANGED corrupt

\* The scan met a corrupt bucket: refuse and stop the server.
ConnectIntegrityFault(addr) ==
  /\ StopsAt(addr) # {}
  /\ corrupt[First(StopsAt(addr))]
  /\ ScanOnly(addr)
  /\ stop' = TRUE
  /\ Answer(addr, "integrity")
  /\ UNCHANGED now

\* The address has a bucket: llps_client_ip_rate_consume_existing.
Matches(addr, b) ==
  /\ StopsAt(addr) # {}
  /\ b = First(StopsAt(addr))
  /\ ~corrupt[b]

WindowOpen(b) == ~Expired(b) /\ now >= start[b]

ConnectCounted(addr) ==
  \E b \in Buckets :
    /\ Matches(addr, b) /\ WindowOpen(b) /\ count[b] < Limit
    /\ WriteBucket(b, addr, start[b], count[b] + 1)
    /\ Answer(addr, "admitted")
    /\ UNCHANGED <<now, stop>>

\* Mutant of ConnectRefused: a window that is over still refuses.
ConnectRefusedAlways(addr) ==
  \E b \in Buckets :
    /\ Matches(addr, b) /\ count[b] >= Limit
    /\ ScanOnly(addr)
    /\ Answer(addr, "limit")
    /\ UNCHANGED <<now, stop>>

ConnectRefused(addr) ==
  \E b \in Buckets :
    /\ Matches(addr, b) /\ WindowOpen(b) /\ count[b] >= Limit
    /\ ScanOnly(addr)
    /\ Answer(addr, "limit")
    /\ UNCHANGED <<now, stop>>

\* The window is over, or lies in the future of a clock that was set back.
ConnectNewWindow(addr) ==
  \E b \in Buckets :
    /\ Matches(addr, b) /\ ~WindowOpen(b)
    /\ WriteBucket(b, addr, now, 1)
    /\ Answer(addr, "admitted")
    /\ UNCHANGED <<now, stop>>

\* The address has no bucket: llps_client_ip_rate_consume_new.
ConnectNewBucket(addr) ==
  /\ StopsAt(addr) = {}
  /\ Usable(addr) # {}
  /\ WriteBucket(First(Usable(addr)), addr, now, 1)
  /\ Answer(addr, "admitted")
  /\ UNCHANGED <<now, stop>>

ConnectTableFull(addr) ==
  /\ StopsAt(addr) = {}
  /\ Usable(addr) = {}
  /\ Answer(addr, "full")
  /\ UNCHANGED <<bucketVars, now, stop>>

\* No clock reading, or no majority for the configuration (which also stops
\* the server).
ConnectFault(addr) ==
  /\ Answer(addr, "fault")
  /\ stop' \in {stop, TRUE}
  /\ UNCHANGED <<bucketVars, now>>

Connect(addr) ==
  /\ Len(admits[addr]) < MaxAdmits
  /\ \/ ConnectIntegrityFault(addr)
     \/ ConnectCounted(addr) \/ ConnectRefused(addr) \/ ConnectNewWindow(addr)
     \/ ConnectNewBucket(addr) \/ ConnectTableFull(addr)
     \/ ConnectFault(addr)

-----------------------------------------------------------------------------
(* The environment *)

\* The clock moves; the last verdict is history then.
Tick(t) ==
  /\ t > now \/ ClockStepsBack
  /\ now' = t
  /\ verdict' = [ip |-> NoIp, outcome |-> "none"]
  /\ UNCHANGED <<bucketVars, stop, admits>>

MemoryFault(b) ==
  /\ MayCorrupt
  /\ ~corrupt[b]
  /\ corrupt' = [corrupt EXCEPT ![b] = TRUE]
  /\ UNCHANGED <<owner, start, count, now, stop, admits, verdict>>

\* llps_client_ip_rate_buckets_reset
Init ==
  /\ owner = [b \in Buckets |-> NoIp]
  /\ start = [b \in Buckets |-> 0]
  /\ count = [b \in Buckets |-> 0]
  /\ corrupt = [b \in Buckets |-> FALSE]
  /\ now = 1
  /\ stop = FALSE
  /\ admits = [a \in Ips |-> <<>>]
  /\ verdict = [ip |-> NoIp, outcome |-> "none"]

Next ==
  \/ \E addr \in Ips : Connect(addr)
  \/ \E t \in 1..MaxTime : Tick(t)
  \/ \E b \in Buckets : MemoryFault(b)

Spec == Init /\ [][Next]_vars

-----------------------------------------------------------------------------
\* No bucket counts beyond the limit and every variable keeps its type.
TypeOK ==
  /\ owner \in [Buckets -> Ips \cup {NoIp}]
  /\ start \in [Buckets -> 0..MaxTime]
  /\ count \in [Buckets -> 0..Limit]
  /\ corrupt \in [Buckets -> BOOLEAN]
  /\ now \in 1..MaxTime
  /\ stop \in BOOLEAN
  /\ admits \in [Ips -> Seq(1..MaxTime)]
  /\ verdict \in [ip : Ips \cup {NoIp}, outcome : Outcomes]

\* Connections of an address admitted at clock readings from..to.
AdmittedBetween(addr, from, to) ==
  Cardinality({k \in 1..Len(admits[addr]) : admits[addr][k] \in from..to})

\* max_new_sessions_per_client_ip_per_window as a client can observe it: the
\* windows are fixed, so two of them may meet, but as each opens with an
\* admitted connection, any 2 * Limit connections of an address span at least
\* one window, whatever other addresses recycle and whichever buckets get
\* corrupt.
SlidingBound ==
  \A addr \in Ips : \A k \in 1..Len(admits[addr]) :
    k + 2 * Limit - 1 <= Len(admits[addr]) =>
      admits[addr][k] + Window <= admits[addr][k + 2 * Limit - 1]

\* No address has two buckets, so it cannot collect two quotas.
OneBucketPerAddress ==
  \A b, c \in Buckets : owner[b] = owner[c] /\ owner[b] # NoIp => b = c

\* A client is refused for its rate only if it used up its quota less than one
\* window away, also after the clock was set back: nobody stays locked out.
RefusalJustified ==
  verdict.outcome = "limit" =>
    AdmittedBetween(verdict.ip, now - Window + 1, now + Window - 1) >= Limit

\* A client is refused for a full table only if that many other addresses were
\* admitted within the last window: expired buckets never block anybody.
FullJustified ==
  verdict.outcome = "full" =>
    Cardinality({a \in Ips \ {verdict.ip} :
                   AdmittedBetween(a, now - Window + 1, now) > 0}) >= BucketCount
=============================================================================
