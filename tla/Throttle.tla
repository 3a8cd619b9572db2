------------------------------- MODULE Throttle -------------------------------
(***************************************************************************)
(* Rate limits (config/throttles.py).  A synchronous gunicorn worker keeps *)
(* the times of a caller's requests in a cache of its own, one history per *)
(* throttle scope, and answers one request at a time; a request is checked *)
(* against each throttle of its view.  One caller: keys do not interact.   *)
(***************************************************************************)
EXTENDS Integers, Sequences, SequencesExt, FiniteSets

CONSTANTS Workers,
          Limit,     \* per scope: num_requests
          Duration,  \* of the window, in ticks of the clock
          MaxTime,   \* bound: where the clock stops
          None       \* what has not been read or told

Scopes == {"read", "write", "demo"}
Kinds == {"read", "write", "other", "demo"}

ASSUME ThrottleAssumption ==
  /\ Limit \in [Scopes -> Nat \ {0}] /\ Duration \in Nat \ {0} /\ MaxTime \in Nat
  /\ None \notin Nat

VARIABLES now,       \* time.time()
          history,   \* per worker and scope: the cached times, latest first
          left,      \* per worker: the throttles its request has yet to pass
          refused,   \* per worker: one of them has refused it
          peeked,    \* per worker: DemoRateLimitThrottle's remaining_before, once read
          remaining, \* per worker: X-RateLimit-Remaining, as last told
          retryAt,   \* per worker and scope: when to come back, as told since refused
          accepted   \* per worker and scope: when its latest Limit requests passed

work == <<left, refused>>
cache == <<history, retryAt, accepted>>
vars == <<now, work, cache, peeked, remaining>>

Times == 0 .. MaxTime

Init ==
  /\ now = 0
  /\ history = [w \in Workers |-> [s \in Scopes |-> <<>>]]
  /\ left = [w \in Workers |-> <<>>]
  /\ refused = [w \in Workers |-> FALSE]
  /\ peeked = [w \in Workers |-> None]
  /\ remaining = [w \in Workers |-> 0]
  /\ retryAt = [w \in Workers |-> [s \in Scopes |-> None]]
  /\ accepted = [w \in Workers |-> [s \in Scopes |-> <<>>]]

-----------------------------------------------------------------------------
\* The throttles that count a request of a viewset: ReadThrottle skips the four
\* writing actions and WriteThrottle skips list and retrieve, so both count what
\* is neither, such as order_details.
Checks == [read  |-> <<"read">>,
           write |-> <<"write">>,
           other |-> <<"read", "write">>,
           demo  |-> <<"demo">>]

Arrive(w, kind) ==
  /\ left[w] = <<>>
  /\ left' = [left EXCEPT ![w] = Checks[kind]]
  /\ refused' = [refused EXCEPT ![w] = FALSE]
  /\ UNCHANGED <<now, cache, peeked, remaining>>

\* A history up to the last of its entries that is later than limit: what is left of it
\* when the rest is popped off its end.
PoppedUpTo(h, limit) == SubSeq(h, 1, Max({0} \cup {i \in 1 .. Len(h) : h[i] > limit}))

\* Mutant of Recent: an entry leaves the window one tick early.
RecentTooShort(w, s) == PoppedUpTo(history[w][s], now + 1 - Duration)

\* The entries inside the window: histories are latest first, so what pops them off and
\* what filters them leave the same.  The cache drops the key a window after its latest
\* entry, when there are none.
Recent(w, s) == PoppedUpTo(history[w][s], now - Duration)

\* DemoRateLimitThrottle.allow_request, before it calls its parent's.
Peek(w) ==
  /\ left[w] = <<"demo">> /\ peeked[w] = None
  /\ peeked' = [peeked EXCEPT ![w] = Limit["demo"] - Len(Recent(w, "demo"))]
  /\ UNCHANGED <<now, work, cache, remaining>>

\* Mutant of Show: the request itself is not counted.
ShowBefore(w, s, allowed) ==
  IF s = "demo" THEN /\ remaining' = [remaining EXCEPT ![w] = peeked[w]]
                     /\ peeked' = [peeked EXCEPT ![w] = None]
                ELSE UNCHANGED <<peeked, remaining>>

\* Mutant of Show: a refused request is counted as well.
ShowUnfloored(w, s, allowed) ==
  IF s = "demo" THEN /\ remaining' = [remaining EXCEPT ![w] = peeked[w] - 1]
                     /\ peeked' = [peeked EXCEPT ![w] = None]
                ELSE UNCHANGED <<peeked, remaining>>

\* And after: the headers of the answer.
Show(w, s, allowed) ==
  IF s = "demo"
    THEN /\ remaining' = [remaining EXCEPT
              ![w] = IF allowed /\ peeked[w] > 0 THEN peeked[w] - 1 ELSE peeked[w]]
         /\ peeked' = [peeked EXCEPT ![w] = None]
    ELSE UNCHANGED <<peeked, remaining>>

Passed(w) == left' = [left EXCEPT ![w] = Tail(@)]

\* SimpleRateThrottle.throttle_success
Accept(w, s) ==
  /\ history' = [history EXCEPT ![w][s] = <<now>> \o Recent(w, s)]
  /\ accepted' = [accepted EXCEPT ![w][s] =
                    <<now>> \o (IF Len(@) < Limit[s] THEN @ ELSE Front(@))]
  /\ retryAt' = [retryAt EXCEPT ![w][s] = None]
  /\ UNCHANGED refused

\* Mutant of Refuse: a refused request is counted too.
RefuseRecording(w, s) ==
  /\ refused' = [refused EXCEPT ![w] = TRUE]
  /\ history' = [history EXCEPT ![w][s] = Front(<<now>> \o Recent(w, s))]
  /\ retryAt' = [retryAt EXCEPT ![w][s] = Last(Recent(w, s)) + Duration]
  /\ UNCHANGED accepted

\* throttle_failure and wait(): the whole of what the oldest entry has to live.
\* The other throttles are asked all the same.
Refuse(w, s) ==
  /\ refused' = [refused EXCEPT ![w] = TRUE]
  /\ retryAt' = [retryAt EXCEPT ![w][s] = Last(Recent(w, s)) + Duration]
  /\ UNCHANGED <<history, accepted>>

HasRoom(w, s) == Len(Recent(w, s)) < Limit[s]

\* SimpleRateThrottle.allow_request of the next throttle of the view.
AllowRequest(w) ==
  /\ left[w] # <<>>
  /\ LET s == Head(left[w]) IN
       /\ s = "demo" => peeked[w] # None
       /\ IF HasRoom(w, s) THEN Accept(w, s) ELSE Refuse(w, s)
       /\ Show(w, s, HasRoom(w, s))
  /\ Passed(w)
  /\ UNCHANGED now

Tick == now < MaxTime /\ now' = now + 1 /\ UNCHANGED <<work, cache, peeked, remaining>>

Next ==
  \/ \E w \in Workers : \/ \E kind \in Kinds : Arrive(w, kind)
                        \/ Peek(w) \/ AllowRequest(w)
  \/ Tick

Spec == Init /\ [][Next]_vars

-----------------------------------------------------------------------------
TypeOK ==
  /\ now \in Times
  /\ history \in [Workers -> [Scopes -> Seq(Times)]]
  /\ \A w \in Workers, s \in Scopes : Len(history[w][s]) <= Limit[s]
  /\ left \in [Workers -> {Checks[kind] : kind \in Kinds} \cup {<<>>, <<"write">>}]
  /\ refused \in [Workers -> BOOLEAN]
  /\ peeked \in [Workers -> 0 .. Limit["demo"] \cup {None}]
  /\ remaining \in [Workers -> 0 .. Limit["demo"]]
  /\ retryAt \in [Workers -> [Scopes -> 0 .. MaxTime + Duration \cup {None}]]
  /\ accepted \in [Workers -> [Scopes -> Seq(Times)]]

\* "The maximum number of requests allowed in the time window" (docs/
\* RATE_LIMITING.md:59): a worker that lets
\* a request pass let the one a limit's worth before it pass a whole window ago,
\* so no window of that length, wherever it starts, has more than the limit.
\* Each worker has a cache of its own: the API as a whole lets the sum pass.
AtMostLimitInAWindow ==
  [][\A w \in Workers, s \in Scopes :
       /\ left[w] # <<>> /\ left'[w] = Tail(left[w])
       /\ s = Head(left[w]) /\ retryAt'[w][s] = None /\ Len(accepted[w][s]) = Limit[s]
       => now >= Last(accepted[w][s]) + Duration]_vars

\* "The number of requests remaining in the current window" (docs/RATE_LIMITING.md:
\* 60; throttles.py:197-231, which reads the clock once for the header and once
\* more for the decision): a caller told that n > 0 remain is not refused by that
\* worker, and is then told of no fewer than n - 1.
RemainingIsKept ==
  [][\A w \in Workers :
       left[w] = <<"demo">> /\ left'[w] = <<>> /\ remaining[w] > 0
         => ~refused'[w] /\ remaining'[w] >= remaining[w] - 1]_vars

\* "wait for the time specified in Retry-After" (docs/RATE_LIMITING.md:101): a
\* caller who was refused and comes back to the worker then or later finds room
\* in that throttle, whatever else was refused meanwhile.
RetryAfterIsEnough ==
  \A w \in Workers, s \in Scopes :
    retryAt[w][s] # None /\ now >= retryAt[w][s] => Len(Recent(w, s)) < Limit[s]
=============================================================================
