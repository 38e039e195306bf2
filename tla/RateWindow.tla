------------------------------ MODULE RateWindow ------------------------------
(***************************************************************************)
(* DistributedRateLimiter (tfp_client/lib/rate_limiter.py) behind the demo *)
(* server's _RedisRateLimiterAdapter: several processes count the requests *)
(* of one key in Redis, in a window and the one before it, with a Lua      *)
(* script that each process loads when it first connects.  A request reads *)
(* the clock first; what it does then may take long, and the script counts *)
(* by what the clock said.                                                 *)
(*                                                                         *)
(* Abstracted: one key; time in ticks, WindowTicks to a window; the clocks *)
(* of the processes agree.                                                 *)
(***************************************************************************)
EXTENDS Naturals, Functions

CONSTANTS
    Worker,               \* the server processes
    Request,              \* the threads that serve requests, in all the processes
    Placements,           \* how the threads may be spread over the processes
    RateLimit, WindowTicks,
    LastTick, MaxOutages  \* bounds on time and on restarts of Redis and of processes

ASSUME RateAssumption ==
    /\ RateLimit \in Nat \ {0} /\ WindowTicks \in Nat \ {0} /\ {LastTick, MaxOutages} \subseteq Nat
    /\ Placements \subseteq [Request -> Worker]

VARIABLES
    tick,
    process,    \* the process of each thread
    request,    \* each thread: how far its request is, and what the clock said
    client,     \* each process: "new", "bare" (connected, but has no script) or "ready"
    up, script, \* does Redis answer; does it know the script
    counts,     \* the counter of each window
    expires,    \* when each counter expires
    granted,    \* history: requests granted in each tick, of that tick's window
    late,       \* history: requests of each window granted in the window after it
    wiped,      \* history: has Redis lost counters
    outages

rateVars == <<tick, process, request, client, up, script, counts, expires, granted, late, wiped, outages>>

Idle == [step |-> "idle"]

Ticks      == 0..LastTick
Windows    == 0..(LastTick \div WindowTicks)
TicksOf(w) == {k \in Ticks : k \div WindowTicks = w}

RateInit ==
    /\ tick = 0 /\ process \in Placements /\ request = [q \in Request |-> Idle]
    /\ client = [p \in Worker |-> "new"] /\ up \in BOOLEAN /\ script = FALSE
    /\ counts = [w \in Windows |-> 0] /\ expires = [w \in Windows |-> 0]
    /\ granted = [k \in Ticks |-> 0] /\ late = [w \in Windows |-> 0]
    /\ wiped = FALSE /\ outages = 0

-----------------------------------------------------------------------------
(* The script. *)

Count(w) == IF tick < expires[w] THEN counts[w] ELSE 0

CurrentOnly(k) ==  \* mutant: the window before is not looked at
    WindowTicks * Count(k \div WindowTicks)

\* The weighted count at tick k, times WindowTicks: of the window before as much as
\* k's is not over.
Weighted(k) ==
    LET w == k \div WindowTicks
    IN  WindowTicks * Count(w) +
          (IF w = 0 THEN 0 ELSE Count(w - 1) * (WindowTicks - (k % WindowTicks)))

Grant(w) ==
    /\ counts' = [counts EXCEPT ![w] = Count(w) + 1]
    /\ expires' = [expires EXCEPT ![w] = tick + 2 * WindowTicks]
    /\ granted' = IF tick \in TicksOf(w) THEN [granted EXCEPT ![tick] = @ + 1] ELSE granted
    /\ late' = IF tick \div WindowTicks = w + 1 THEN [late EXCEPT ![w] = @ + 1] ELSE late

RunScript(k) ==
    IF Weighted(k) >= RateLimit * WindowTicks THEN UNCHANGED <<counts, expires, granted, late>>
    ELSE Grant(k \div WindowTicks)

-----------------------------------------------------------------------------
(* check_rate_limit. *)

At(q, s)   == request[q].step = s
Goes(q, s) == request' = [request EXCEPT ![q].step = s]
Leaves(q)    == request' = [request EXCEPT ![q] = Idle]

StampRequest(q) ==
    /\ At(q, "idle") /\ request' = [request EXCEPT ![q] = [step |-> "stamped", stamp |-> tick]]
    /\ UNCHANGED <<tick, process, client, up, script, counts, expires, granted, late, wiped, outages>>

\* The process has no client yet; another request of it may see that as well.
Connect(q) ==
    /\ At(q, "stamped") /\ client[process[q]] = "new" /\ Goes(q, "connecting")
    /\ UNCHANGED <<tick, process, client, up, script, counts, expires, granted, late, wiped, outages>>

\* The client is there before its script is.
MakeClient(q) ==
    /\ At(q, "connecting") /\ Goes(q, "loading")
    /\ client' = [client EXCEPT ![process[q]] = IF @ = "new" THEN "bare" ELSE @]
    /\ UNCHANGED <<tick, process, up, script, counts, expires, granted, late, wiped, outages>>

\* When loading fails the request passes uncounted, and its process has a client
\* without a script for good.
LoadScript(q) ==
    /\ At(q, "loading")
    /\ IF up THEN /\ Goes(q, "stamped") /\ script' = TRUE
                  /\ client' = [client EXCEPT ![process[q]] = "ready"]
             ELSE Leaves(q) /\ UNCHANGED <<script, client>>
    /\ UNCHANGED <<tick, process, up, counts, expires, granted, late, wiped, outages>>

\* The script decides, at once.  Without Redis or the script the request passes
\* uncounted (fail_open, which is TRUE for the server).
CheckRateLimit(q) ==
    /\ At(q, "stamped") /\ client[process[q]] # "new" /\ Leaves(q)
    /\ IF client[process[q]] = "ready" /\ up /\ script THEN RunScript(request[q].stamp)
       ELSE UNCHANGED <<counts, expires, granted, late>>
    /\ UNCHANGED <<tick, process, client, up, script, wiped, outages>>

-----------------------------------------------------------------------------
Tick ==
    /\ tick < LastTick /\ tick' = tick + 1
    /\ UNCHANGED <<process, request, client, up, script, counts, expires, granted, late, wiped, outages>>

RedisStops ==
    /\ up /\ outages < MaxOutages /\ outages' = outages + 1 /\ up' = FALSE
    /\ UNCHANGED <<tick, process, request, client, script, counts, expires, granted, late, wiped>>

\* Scripts are not persistent; counters may be.  A mere disconnection keeps both.
RedisAnswers ==
    /\ ~up /\ up' = TRUE
    /\ \/ UNCHANGED <<script, counts, wiped>>
       \/ script' = FALSE /\ UNCHANGED <<counts, wiped>>
       \/ script' = FALSE /\ counts' = [w \in Windows |-> 0] /\ wiped' = TRUE
    /\ UNCHANGED <<tick, process, request, client, expires, granted, late, outages>>

\* A process starts anew; its requests are gone.
RestartWorker(p) ==
    /\ outages < MaxOutages /\ outages' = outages + 1
    /\ client[p] # "new" /\ client' = [client EXCEPT ![p] = "new"]
    /\ request' = [q \in Request |-> IF process[q] = p THEN Idle ELSE request[q]]
    /\ UNCHANGED <<tick, process, up, script, counts, expires, granted, late, wiped>>

RateNext ==
    \/ \E q \in Request : StampRequest(q) \/ Connect(q) \/ MakeClient(q) \/ LoadScript(q) \/ CheckRateLimit(q)
    \/ \E p \in Worker : RestartWorker(p)
    \/ Tick \/ RedisStops \/ RedisAnswers

RateSpec == RateInit /\ [][RateNext]_rateVars

-----------------------------------------------------------------------------
\* Unless Redis itself lost counters, for all the processes together, through
\* slow requests, outages, restarts and reloads of the script:
\* - the weighted count is an estimate, and twice the limit may be granted within
\*   one window's length; but the shorter the span the fewer: of the requests
\*   whose script runs in the window they were stamped in, no more are granted in
\*   n ticks than the limit and its share for n - 1 ticks (with a counter of the
\*   present window only, twice the limit in two ticks);
\* - of the requests stamped in one window, no more than the limit are granted in
\*   it and the next one together.
RateBounded ==
    ~wiped =>
        /\ \A i, j \in Ticks :
             i <= j /\ j - i < WindowTicks =>
               WindowTicks * SumFunctionOnSet(granted, i..j)
                 < WindowTicks * (RateLimit + 1) + RateLimit * (j - i)
        /\ \A w \in Windows : SumFunctionOnSet(granted, TicksOf(w)) + late[w] <= RateLimit
=============================================================================
