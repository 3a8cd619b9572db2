---------------------------- MODULE ThrottleProofs ----------------------------
(***************************************************************************)
(* What Throttle guarantees for every limit, window, number of workers and *)
(* length of time.  IInv ties a history to what it forgets: it is the      *)
(* beginning of the accepted times, and the others are out of the window.  *)
(***************************************************************************)
EXTENDS Throttle, FiniteSetTheorems, SequenceTheorems, TLAPS

\* A history is latest first, and within its limit.
LatestFirst(w, s) ==
  LET h == history[w][s] IN
    \A i \in 1 .. Len(h) : h[i] <= now /\ \A j \in 1 .. i : h[i] <= h[j]

\* The history is what has been accepted last; of the latest Limit times accepted it has
\* forgotten those that are out of the window.
Remembers(w, s) ==
  LET h == history[w][s]
      a == accepted[w][s] IN
    /\ Len(h) <= Len(a) /\ Len(a) <= Limit[s]
    /\ \A i \in 1 .. Len(a) : IF i <= Len(h) THEN a[i] = h[i] ELSE a[i] + Duration <= now

\* Who has been refused has been told when the oldest entry of a full history leaves it.
ToldWhen(w, s) ==
  retryAt[w][s] # None =>
    Len(history[w][s]) = Limit[s] /\ retryAt[w][s] = history[w][s][Limit[s]] + Duration

\* The header counts what the history has room for, and time only makes more.
CountsRoom(w) ==
  LET h == history[w]["demo"] IN
    /\ remaining[w] > 0 => remaining[w] + Len(h) <= Limit["demo"]
    /\ peeked[w] # None =>
         /\ remaining[w] <= peeked[w]
         /\ \A i \in 1 .. Len(h) : h[i] + Duration > now => i + peeked[w] <= Limit["demo"]
    /\ left[w] = <<"demo">> => ~refused[w]

IInv ==
  /\ TypeOK
  /\ \A w \in Workers, s \in Scopes : LatestFirst(w, s) /\ Remembers(w, s) /\ ToldWhen(w, s)
  /\ \A w \in Workers : CountsRoom(w)

-----------------------------------------------------------------------------
(* The window                                                              *)

\* An initial part of the indices of a sequence is an interval, and so has a maximum.
LEMMA InitialPart ==
  ASSUME NEW n \in Nat, NEW S \in SUBSET (1 .. n), \A i \in S : 1 .. i \subseteq S
  PROVE  Max({0} \cup S) \in 0 .. n /\ S = 1 .. Max({0} \cup S)
<1> DEFINE k == Cardinality(S)
<1>1. \A i \in 0 .. n : IsFiniteSet(1 .. i) /\ Cardinality(1 .. i) = i
  BY FS_Interval
<1>2. IsFiniteSet(S) /\ k <= n
  <2>1. IsFiniteSet(1 .. n) /\ Cardinality(1 .. n) = n
    BY <1>1
  <2>2. IsFiniteSet(S) /\ Cardinality(S) <= Cardinality(1 .. n)
    BY <2>1, FS_Subset
  <2> QED BY <2>1, <2>2
<1>3. k \in Nat
  BY <1>2, FS_CardinalityType
<1>4. ASSUME NEW i \in S PROVE i <= k
  <2>1. 1 .. i \in SUBSET S /\ i \in 0 .. n
    OBVIOUS
  <2>2. Cardinality(1 .. i) <= k
    BY <1>2, <2>1, FS_Subset
  <2> QED BY <1>1, <2>1, <2>2
<1>5. ASSUME NEW i \in 1 .. n, i \notin S PROVE k <= i - 1
  <2>1. \A j \in S : j < i
    BY <1>5
  <2>2. S \in SUBSET (1 .. (i - 1)) /\ i - 1 \in 0 .. n
    BY <2>1
  <2>3. k <= Cardinality(1 .. (i - 1))
    BY <1>1, <2>2, FS_Subset
  <2> QED BY <1>1, <2>2, <2>3
<1> HIDE DEF k
<1>6. S = 1 .. k
  <2>1. \A i \in S : i \in 1 .. k
    BY <1>3, <1>4
  <2>2. ASSUME NEW i \in 1 .. k PROVE i \in S
    <3>1. i \in 1 .. n
      BY <1>2, <1>3
    <3> QED BY <3>1, <1>3, <1>5
  <2> QED BY <2>1, <2>2
<1>7. Max({0} \cup S) = k
  <2>1. k \in {0} \cup S /\ \A y \in {0} \cup S : k >= y /\ y \in Nat
    BY <1>3, <1>6
  <2>2. ASSUME NEW x \in {0} \cup S, \A y \in {0} \cup S : x >= y PROVE x = k
    BY <2>1, <2>2, <1>3
  <2> QED BY <2>1, <2>2 DEF Max
<1> QED BY <1>2, <1>3, <1>6, <1>7

\* What is inside the window is the beginning of the history.
LEMMA RecentIsInTheWindow ==
  ASSUME IInv, NEW w \in Workers, NEW s \in Scopes
  PROVE  LET h == history[w][s]
             n == Len(Recent(w, s)) IN
         /\ Recent(w, s) \in Seq(Times) /\ n \in 0 .. Len(h)
         /\ \A i \in 1 .. n : Recent(w, s)[i] = h[i]
         /\ \A i \in 1 .. Len(h) : i <= n <=> h[i] + Duration > now
<1> DEFINE h == history[w][s]
           S == {i \in 1 .. Len(h) : h[i] > now - Duration}
           k == Max({0} \cup S)
<1>1. h \in Seq(Times) /\ Len(h) \in Nat /\ now \in Nat /\ Duration \in Nat
      /\ \A i \in 1 .. Len(h) : h[i] \in Nat /\ h[i] \in Times
  BY ThrottleAssumption DEF IInv, TypeOK, Times
<1>2. \A i \in 1 .. Len(h) : \A j \in 1 .. i : h[i] <= h[j]
  BY DEF IInv, LatestFirst
<1>3. Recent(w, s) = SubSeq(h, 1, k)
  BY DEF Recent, PoppedUpTo
<1> HIDE DEF h
<1>4. \A i \in S : 1 .. i \subseteq S
  BY <1>1, <1>2
<1>5. S \in SUBSET (1 .. Len(h))
  OBVIOUS
<1> HIDE DEF S
<1>6. k \in 0 .. Len(h) /\ S = 1 .. k
  BY <1>1, <1>4, <1>5, InitialPart
<1> HIDE DEF k
<1>7. SubSeq(h, 1, k) \in Seq(Times) /\ Len(SubSeq(h, 1, k)) = k
      /\ \A i \in 1 .. k : SubSeq(h, 1, k)[i] = h[i]
  BY <1>1, <1>6
<1>8. \A i \in 1 .. Len(h) : i <= k <=> h[i] + Duration > now
  BY <1>1, <1>6 DEF S
<1> QED BY <1>3, <1>6, <1>7, <1>8 DEF h

\* A history that is full of what is inside the window is its own.
LEMMA FullIsRecent ==
  ASSUME IInv, NEW w \in Workers, NEW s \in Scopes, ~HasRoom(w, s)
  PROVE  /\ Len(history[w][s]) = Limit[s] /\ Len(Recent(w, s)) = Limit[s]
         /\ Last(Recent(w, s)) = history[w][s][Limit[s]]
         /\ history[w][s][Limit[s]] \in Times
<1>1. Limit[s] \in Nat \ {0} /\ Len(history[w][s]) \in Nat /\ Len(history[w][s]) <= Limit[s]
      /\ history[w][s] \in Seq(Times)
  BY ThrottleAssumption DEF IInv, TypeOK
<1>2. /\ Len(Recent(w, s)) \in 0 .. Len(history[w][s])
      /\ \A i \in 1 .. Len(Recent(w, s)) : Recent(w, s)[i] = history[w][s][i]
  BY RecentIsInTheWindow
<1>3. Len(Recent(w, s)) = Limit[s] /\ Len(history[w][s]) = Limit[s]
  BY <1>1, <1>2 DEF HasRoom
<1>4. Limit[s] \in 1 .. Len(history[w][s])
  BY <1>1, <1>3
<1> QED BY <1>1, <1>2, <1>3, <1>4, ElementOfSeq DEF Last

-----------------------------------------------------------------------------
\* Nothing is remembered, told or counted at first.
LEMMA InitIInv == Init => IInv
<1> SUFFICES ASSUME Init PROVE IInv
  OBVIOUS
<1> USE ThrottleAssumption
<1>1. \A w \in Workers, s \in Scopes :
        history[w][s] = <<>> /\ accepted[w][s] = <<>> /\ retryAt[w][s] = None
  BY DEF Init
<1>2. \A s \in Scopes : Limit[s] \in Nat \ {0}
  OBVIOUS
<1>3. TypeOK
  <2>1. now \in Times /\ 0 \in 0 .. Limit["demo"]
    BY <1>2 DEF Init, Times, Scopes
  <2>2. history \in [Workers -> [Scopes -> Seq(Times)]]
        /\ accepted \in [Workers -> [Scopes -> Seq(Times)]]
    BY DEF Init
  <2>3. \A w \in Workers, s \in Scopes : Len(history[w][s]) <= Limit[s]
    BY <1>1, <1>2
  <2> QED BY <2>1, <2>2, <2>3 DEF Init, TypeOK
<1>4. \A w \in Workers, s \in Scopes : LatestFirst(w, s) /\ Remembers(w, s) /\ ToldWhen(w, s)
  BY <1>1, <1>2 DEF LatestFirst, Remembers, ToldWhen
<1>5. \A w \in Workers : CountsRoom(w)
  BY DEF Init, CountsRoom
<1> QED BY <1>3, <1>4, <1>5 DEF IInv

\* What a caller has at one worker depends on nothing that happens at another.
LEMMA OthersKeep ==
  ASSUME IInv, NEW w \in Workers, TypeOK', now' = now,
         \A v \in Workers : v # w =>
           /\ history'[v] = history[v] /\ accepted'[v] = accepted[v] /\ retryAt'[v] = retryAt[v]
           /\ left'[v] = left[v] /\ refused'[v] = refused[v]
           /\ peeked'[v] = peeked[v] /\ remaining'[v] = remaining[v],
         \A s \in Scopes : LatestFirst(w, s)' /\ Remembers(w, s)' /\ ToldWhen(w, s)',
         CountsRoom(w)'
  PROVE  IInv'
<1>1. ASSUME NEW v \in Workers, v # w, NEW s \in Scopes
      PROVE  LatestFirst(v, s)' /\ Remembers(v, s)' /\ ToldWhen(v, s)'
  BY <1>1 DEF IInv, LatestFirst, Remembers, ToldWhen
<1>2. ASSUME NEW v \in Workers, v # w PROVE CountsRoom(v)'
  BY <1>2 DEF IInv, CountsRoom
<1> QED BY <1>1, <1>2 DEF IInv

-----------------------------------------------------------------------------
(* The actions                                                             *)

LEMMA ArriveKeeps ==
  ASSUME IInv, NEW w \in Workers, NEW kind \in Kinds, Arrive(w, kind)
  PROVE  IInv'
<1>1. UNCHANGED <<now, history, retryAt, accepted, peeked, remaining>>
      /\ left' = [left EXCEPT ![w] = Checks[kind]] /\ refused' = [refused EXCEPT ![w] = FALSE]
  BY DEF Arrive, cache
<1>2. TypeOK'
  BY <1>1 DEF IInv, TypeOK
<1>3. \A s \in Scopes : LatestFirst(w, s)' /\ Remembers(w, s)' /\ ToldWhen(w, s)'
  BY <1>1 DEF IInv, LatestFirst, Remembers, ToldWhen
<1>4. CountsRoom(w)'
  BY <1>1 DEF IInv, TypeOK, CountsRoom
<1>5. \A v \in Workers : v # w => left'[v] = left[v] /\ refused'[v] = refused[v]
  BY <1>1 DEF IInv, TypeOK
<1> QED BY <1>1, <1>2, <1>3, <1>4, <1>5, OthersKeep

LEMMA PeekKeeps == ASSUME IInv, NEW w \in Workers, Peek(w) PROVE IInv'
<1> DEFINE h == history[w]["demo"]
           n == Len(Recent(w, "demo"))
           room == Limit["demo"] - n
<1>1. UNCHANGED <<now, left, refused, history, retryAt, accepted, remaining>>
      /\ peeked' = [peeked EXCEPT ![w] = room]
  BY DEF Peek, cache, work
<1>2. Limit["demo"] \in Nat /\ Len(h) \in Nat /\ Len(h) <= Limit["demo"] /\ n \in 0 .. Len(h)
      /\ \A i \in 1 .. Len(h) : i <= n <=> h[i] + Duration > now
  <2>1. "demo" \in Scopes
    BY DEF Scopes
  <2> QED BY <2>1, RecentIsInTheWindow, ThrottleAssumption DEF IInv, TypeOK
<1> HIDE DEF n
<1>3. room \in 0 .. Limit["demo"] /\ room \in Nat
  BY <1>2
<1>4. TypeOK'
  BY <1>1, <1>3 DEF IInv, TypeOK
<1>5. \A s \in Scopes : LatestFirst(w, s)' /\ Remembers(w, s)' /\ ToldWhen(w, s)'
  BY <1>1 DEF IInv, LatestFirst, Remembers, ToldWhen
<1>6. CountsRoom(w)'
  <2>1. peeked'[w] = room /\ remaining[w] \in Nat
    BY <1>1, <1>2 DEF IInv, TypeOK
  <2>2. remaining[w] <= room
    BY <1>2, <2>1 DEF IInv, CountsRoom
  <2>3. \A i \in 1 .. Len(h) : h[i] + Duration > now => i + room <= Limit["demo"]
    BY <1>2
  <2> HIDE DEF room
  <2> QED BY <1>1, <2>1, <2>2, <2>3 DEF IInv, CountsRoom
<1>7. \A v \in Workers : v # w => peeked'[v] = peeked[v]
  BY <1>1 DEF IInv, TypeOK
<1> QED BY <1>1, <1>4, <1>5, <1>6, <1>7, OthersKeep

\* With time entries leave the window, and none enters it.
LEMMA TickKeeps == ASSUME IInv, Tick PROVE IInv'
<1>1. UNCHANGED <<left, refused, history, retryAt, accepted, peeked, remaining>>
      /\ now' = now + 1 /\ now \in Nat /\ now' \in Times /\ Duration \in Nat
  BY ThrottleAssumption DEF IInv, TypeOK, Tick, cache, work, Times
<1>2. ASSUME NEW w \in Workers, NEW s \in Scopes
      PROVE  /\ \A i \in 1 .. Len(history[w][s]) : history[w][s][i] \in Nat
             /\ \A i \in 1 .. Len(accepted[w][s]) : accepted[w][s][i] \in Nat
  <2>1. history[w][s] \in Seq(Times) /\ accepted[w][s] \in Seq(Times) /\ Times \subseteq Nat
    BY DEF IInv, TypeOK, Times
  <2> QED BY <2>1, ElementOfSeq
<1>4. TypeOK'
  BY <1>1 DEF IInv, TypeOK
<1>5. ASSUME NEW w \in Workers, NEW s \in Scopes
      PROVE  LatestFirst(w, s)' /\ Remembers(w, s)' /\ ToldWhen(w, s)'
  <2>1. LatestFirst(w, s)'
    BY <1>1, <1>2 DEF IInv, LatestFirst
  <2>2. Remembers(w, s)'
    <3>1. \A i \in 1 .. Len(accepted[w][s]) :
            accepted[w][s][i] + Duration <= now => accepted[w][s][i] + Duration <= now + 1
      BY <1>1, <1>2
    <3>2. Remembers(w, s)
      BY DEF IInv
    <3> QED BY <1>1, <3>1, <3>2 DEF Remembers
  <2>3. ToldWhen(w, s)'
    BY <1>1 DEF IInv, ToldWhen
  <2> QED BY <2>1, <2>2, <2>3
<1>6. ASSUME NEW w \in Workers PROVE CountsRoom(w)'
  <2>1. "demo" \in Scopes
    BY DEF Scopes
  <2> QED BY <1>1, <1>2, <2>1 DEF IInv, CountsRoom
<1> QED BY <1>4, <1>5, <1>6 DEF IInv

\* What a throttle leaves of the request: it is not refused, or nothing has been recorded.
LEMMA AllowRequestEffect ==
  ASSUME IInv, NEW w \in Workers, AllowRequest(w)
  PROVE  \E s \in Scopes :
           /\ s = Head(left[w]) /\ now' = now
           /\ s = "demo" => peeked[w] # None /\ left[w] = <<"demo">>
           /\ IF HasRoom(w, s) THEN Accept(w, s) ELSE Refuse(w, s)
           /\ Show(w, s, HasRoom(w, s))
           /\ left' = [left EXCEPT ![w] = Tail(@)]
           /\ Tail(left[w]) \in {<<>>, <<"write">>}
           /\ left[w] # <<>> /\ Tail(left[w]) # left[w]
<1>1. left[w] \in {<<"read">>, <<"write">>, <<"read", "write">>, <<"demo">>}
  <2>1. left[w] \in {Checks[kind] : kind \in Kinds} \cup {<<>>, <<"write">>} /\ left[w] # <<>>
    BY DEF IInv, TypeOK, AllowRequest
  <2> QED BY <2>1 DEF Checks, Kinds
<1>2. Head(left[w]) \in Scopes /\ Tail(left[w]) \in {<<>>, <<"write">>}
      /\ (Head(left[w]) = "demo" => left[w] = <<"demo">>) /\ Len(Tail(left[w])) # Len(left[w])
  <2>1. CASE left[w] = <<"read">>
    BY <2>1 DEF Scopes
  <2>2. CASE left[w] = <<"write">>
    BY <2>2 DEF Scopes
  <2>3. CASE left[w] = <<"read", "write">>
    <3>1. Head(left[w]) = "read" /\ Tail(left[w]) = <<"write">>
      BY <2>3
    <3> QED BY <2>3, <3>1 DEF Scopes
  <2>4. CASE left[w] = <<"demo">>
    BY <2>4 DEF Scopes
  <2> QED BY <1>1, <2>1, <2>2, <2>3, <2>4
<1>3. Tail(left[w]) # left[w]
  BY <1>2
<1> QED BY <1>2, <1>3 DEF AllowRequest, Passed

\* The typed part of a step of AllowRequest that has nothing to do with its verdict.
LEMMA ShowIsTyped ==
  ASSUME IInv, NEW w \in Workers, NEW s \in Scopes, NEW allowed \in BOOLEAN,
         Show(w, s, allowed), s = "demo" => peeked[w] # None
  PROVE  /\ peeked' \in [Workers -> 0 .. Limit["demo"] \cup {None}]
         /\ remaining' \in [Workers -> 0 .. Limit["demo"]]
         /\ \A v \in Workers : v # w => peeked'[v] = peeked[v] /\ remaining'[v] = remaining[v]
         /\ s # "demo" => peeked'[w] = peeked[w] /\ remaining'[w] = remaining[w]
         /\ s = "demo" =>
              /\ peeked'[w] = None /\ peeked[w] \in 0 .. Limit["demo"]
              /\ remaining'[w] = IF allowed /\ peeked[w] > 0 THEN peeked[w] - 1 ELSE peeked[w]
<1>1. peeked \in [Workers -> 0 .. Limit["demo"] \cup {None}]
      /\ remaining \in [Workers -> 0 .. Limit["demo"]]
  BY DEF IInv, TypeOK
<1>2. Limit["demo"] \in Nat
  BY ThrottleAssumption DEF Scopes
<1>3. CASE s = "demo"
  <2> DEFINE told == IF allowed /\ peeked[w] > 0 THEN peeked[w] - 1 ELSE peeked[w]
  <2>1. peeked[w] \in 0 .. Limit["demo"]
    BY <1>1, <1>3
  <2>2. told \in 0 .. Limit["demo"]
    BY <1>2, <2>1
  <2>3. remaining' = [remaining EXCEPT ![w] = told] /\ peeked' = [peeked EXCEPT ![w] = None]
    BY <1>3 DEF Show
  <2>4. remaining'[w] = told
    BY <1>1, <2>3
  <2> HIDE DEF told
  <2>5. remaining' \in [Workers -> 0 .. Limit["demo"]]
    BY <1>1, <2>2, <2>3
  <2>6. peeked' \in [Workers -> 0 .. Limit["demo"] \cup {None}] /\ peeked'[w] = None
    BY <1>1, <2>3
  <2>7. \A v \in Workers : v # w => peeked'[v] = peeked[v] /\ remaining'[v] = remaining[v]
    BY <1>1, <2>3
  <2> QED BY <1>3, <2>1, <2>4, <2>5, <2>6, <2>7 DEF told
<1>4. CASE s # "demo"
  BY <1>1, <1>4 DEF Show
<1> QED BY <1>3, <1>4

\* A demo throttle's header has counted no more than there is room for.
LEMMA PeekedIsRoom ==
  ASSUME IInv, NEW w \in Workers, peeked[w] # None
  PROVE  peeked[w] \in Nat /\ peeked[w] + Len(Recent(w, "demo")) <= Limit["demo"]
<1> DEFINE h == history[w]["demo"]
           n == Len(Recent(w, "demo"))
<1>1. "demo" \in Scopes
  BY DEF Scopes
<1>2. peeked[w] \in 0 .. Limit["demo"] /\ Limit["demo"] \in Nat /\ Len(h) \in Nat
  BY <1>1, ThrottleAssumption DEF IInv, TypeOK
<1>3. n \in 0 .. Len(h) /\ \A i \in 1 .. Len(h) : i <= n <=> h[i] + Duration > now
  BY <1>1, RecentIsInTheWindow
<1>4. \A i \in 1 .. Len(h) : h[i] + Duration > now => i + peeked[w] <= Limit["demo"]
  BY DEF IInv, CountsRoom
<1> HIDE DEF n, h
<1>5. n # 0 => n \in 1 .. Len(h) /\ n <= n
  BY <1>2, <1>3
<1>6. n # 0 => n + peeked[w] <= Limit["demo"]
  BY <1>3, <1>4, <1>5
<1>7. peeked[w] + n <= Limit["demo"]
  BY <1>2, <1>3, <1>6
<1> QED BY <1>2, <1>7 DEF n

\* A refusal changes what the caller is told, and no history.
LEMMA RefuseKeeps ==
  ASSUME IInv, NEW w \in Workers, NEW s \in Scopes, ~HasRoom(w, s), Refuse(w, s),
         Show(w, s, HasRoom(w, s)), s = "demo" => peeked[w] # None,
         now' = now, left' = [left EXCEPT ![w] = Tail(@)], Tail(left[w]) \in {<<>>, <<"write">>}
  PROVE  IInv'
<1> DEFINE told == history[w][s][Limit[s]] + Duration
<1>1. /\ Len(history[w][s]) = Limit[s] /\ Len(Recent(w, s)) = Limit[s]
      /\ Last(Recent(w, s)) = history[w][s][Limit[s]] /\ history[w][s][Limit[s]] \in Times
  BY FullIsRecent
<1>2. told \in 0 .. MaxTime + Duration
  BY <1>1, ThrottleAssumption DEF Times
<1>3. UNCHANGED <<now, history, accepted>> /\ refused' = [refused EXCEPT ![w] = TRUE]
      /\ retryAt' = [retryAt EXCEPT ![w][s] = told]
  BY <1>1 DEF Refuse
<1> HIDE DEF told
<1>4. /\ retryAt' \in [Workers -> [Scopes -> 0 .. MaxTime + Duration \cup {None}]]
      /\ retryAt'[w][s] = told /\ (\A t \in Scopes : t # s => retryAt'[w][t] = retryAt[w][t])
      /\ \A v \in Workers : v # w => retryAt'[v] = retryAt[v]
  BY <1>2, <1>3 DEF IInv, TypeOK
<1>5. /\ left' \in [Workers -> {Checks[kind] : kind \in Kinds} \cup {<<>>, <<"write">>}]
      /\ refused' \in [Workers -> BOOLEAN] /\ left'[w] \in {<<>>, <<"write">>}
      /\ \A v \in Workers : v # w => left'[v] = left[v] /\ refused'[v] = refused[v]
  BY <1>3 DEF IInv, TypeOK
<1> DEFINE room == HasRoom(w, s)
<1>6. room \in BOOLEAN /\ room = FALSE
  BY DEF HasRoom
<1>7. /\ peeked' \in [Workers -> 0 .. Limit["demo"] \cup {None}]
      /\ remaining' \in [Workers -> 0 .. Limit["demo"]]
      /\ \A v \in Workers : v # w => peeked'[v] = peeked[v] /\ remaining'[v] = remaining[v]
      /\ s # "demo" => peeked'[w] = peeked[w] /\ remaining'[w] = remaining[w]
      /\ s = "demo" => peeked'[w] = None /\ remaining'[w] = peeked[w]
  BY <1>6, ShowIsTyped
<1>8. TypeOK'
  BY <1>3, <1>4, <1>5, <1>7 DEF IInv, TypeOK
<1>9. ASSUME NEW t \in Scopes PROVE LatestFirst(w, t)' /\ Remembers(w, t)' /\ ToldWhen(w, t)'
  <2>1. LatestFirst(w, t)' /\ Remembers(w, t)'
    BY <1>3 DEF IInv, LatestFirst, Remembers
  <2>2. ToldWhen(w, t)'
    BY <1>1, <1>3, <1>4 DEF IInv, ToldWhen, told
  <2> QED BY <2>1, <2>2
<1>10. CountsRoom(w)'
  <2>1. left'[w] # <<"demo">>
    <3>1. <<>> # <<"demo">> /\ <<"write">> # <<"demo">>
      OBVIOUS
    <3> QED BY <1>5, <3>1
  <2>2. CASE s = "demo"
    <3>1. remaining'[w] = 0
      BY <1>1, <1>7, <2>2, PeekedIsRoom, ThrottleAssumption
    <3> QED BY <1>7, <2>1, <2>2, <3>1 DEF CountsRoom
  <2>3. CASE s # "demo"
    BY <1>3, <1>7, <2>1, <2>3 DEF IInv, CountsRoom
  <2> QED BY <2>2, <2>3
<1> QED BY <1>3, <1>4, <1>5, <1>7, <1>8, <1>9, <1>10, OthersKeep

\* Putting the time in front of a sequence of times shifts the others.
LEMMA TimeInFront ==
  ASSUME NEW times \in Seq(Times), NEW time \in Times
  PROVE  /\ <<time>> \o times \in Seq(Times)
         /\ Len(<<time>> \o times) = Len(times) + 1
         /\ (<<time>> \o times)[1] = time
         /\ \A i \in 1 .. Len(times) + 1 : i # 1 => (<<time>> \o times)[i] = times[i - 1]
<1>1. <<time>> \in Seq(Times) /\ Len(<<time>>) = 1 /\ <<time>>[1] = time /\ Len(times) \in Nat
  OBVIOUS
<1>2. /\ <<time>> \o times \in Seq(Times)
      /\ Len(<<time>> \o times) = 1 + Len(times)
      /\ \A i \in 1 .. 1 + Len(times) : (<<time>> \o times)[i] =
           IF i <= 1 THEN <<time>>[i] ELSE times[i - 1]
  BY <1>1, ConcatProperties
<1> QED BY <1>1, <1>2

\* What a throttle that lets a request pass writes.
LEMMA AcceptEffect ==
  ASSUME IInv, NEW w \in Workers, NEW s \in Scopes, HasRoom(w, s), Accept(w, s)
  PROVE  LET h == history[w][s]
             a == accepted[w][s]
             n == Len(Recent(w, s))
             m == IF Len(a) < Limit[s] THEN Len(a) ELSE Limit[s] - 1 IN
         /\ history'[w][s] \in Seq(Times) /\ Len(history'[w][s]) = n + 1
         /\ accepted'[w][s] \in Seq(Times) /\ Len(accepted'[w][s]) = m + 1
         /\ n \in Nat /\ n < Limit[s] /\ n <= m /\ m \in Nat /\ m <= Len(a)
         /\ history'[w][s][1] = now /\ accepted'[w][s][1] = now
         /\ \A i \in 1 .. n + 1 : i # 1 => history'[w][s][i] = h[i - 1]
         /\ \A i \in 1 .. m + 1 : i # 1 => accepted'[w][s][i] = a[i - 1]
<1> DEFINE h == history[w][s]
           a == accepted[w][s]
           r == Recent(w, s)
           n == Len(r)
           m == IF Len(a) < Limit[s] THEN Len(a) ELSE Limit[s] - 1
           rest == IF Len(a) < Limit[s] THEN a ELSE Front(a)
<1>1. /\ h \in Seq(Times) /\ a \in Seq(Times) /\ Limit[s] \in Nat \ {0} /\ now \in Times
      /\ Len(h) \in Nat /\ Len(a) \in Nat /\ Len(h) <= Len(a) /\ Len(a) <= Limit[s]
  BY ThrottleAssumption DEF IInv, TypeOK, Remembers
<1>2. r \in Seq(Times) /\ n \in 0 .. Len(h) /\ (\A i \in 1 .. n : r[i] = h[i])
  BY RecentIsInTheWindow
<1>3. n < Limit[s]
  BY DEF HasRoom
<1>4. rest \in Seq(Times) /\ Len(rest) = m /\ (\A i \in 1 .. m : rest[i] = a[i])
  <2>1. CASE Len(a) < Limit[s]
    BY <1>1, <2>1
  <2>2. CASE ~(Len(a) < Limit[s])
    <3>1. rest = SubSeq(a, 1, Len(a) - 1) /\ m = Len(a) - 1 /\ Len(a) >= 1
      BY <1>1, <2>2 DEF Front
    <3>2. \A i \in 1 .. Len(a) - 1 : a[i] \in Times
      BY <1>1, <3>1, ElementOfSeq
    <3>3. Len(a) - 1 \in Int /\ 1 \in Int
      BY <1>1
    <3>4. /\ SubSeq(a, 1, Len(a) - 1) \in Seq(Times)
          /\ Len(SubSeq(a, 1, Len(a) - 1)) = Len(a) - 1
          /\ \A i \in 1 .. Len(a) - 1 : SubSeq(a, 1, Len(a) - 1)[i] = a[i]
      BY <1>1, <3>1, <3>2, <3>3
    <3> QED BY <3>1, <3>4
  <2> QED BY <2>1, <2>2
<1>5. history' = [history EXCEPT ![w][s] = <<now>> \o r]
      /\ accepted' = [accepted EXCEPT ![w][s] = <<now>> \o rest]
  BY DEF Accept
<1> HIDE DEF r, rest
<1>6. history'[w][s] = <<now>> \o r /\ accepted'[w][s] = <<now>> \o rest
  BY <1>5 DEF IInv, TypeOK
<1>7. n \in Nat /\ n <= m /\ m \in Nat /\ m <= Len(a)
  BY <1>1, <1>2, <1>3
<1>8. PICK time \in Times : time = now
  BY <1>1
<1>9. /\ <<now>> \o r \in Seq(Times) /\ Len(<<now>> \o r) = n + 1 /\ (<<now>> \o r)[1] = now
      /\ \A i \in 1 .. n + 1 : i # 1 => (<<now>> \o r)[i] = r[i - 1]
  BY <1>2, <1>8, TimeInFront
<1>10. /\ <<now>> \o rest \in Seq(Times) /\ Len(<<now>> \o rest) = m + 1
       /\ (<<now>> \o rest)[1] = now
       /\ \A i \in 1 .. m + 1 : i # 1 => (<<now>> \o rest)[i] = rest[i - 1]
  BY <1>4, <1>8, TimeInFront
<1>11. \A i \in 1 .. n + 1 : i # 1 => history'[w][s][i] = h[i - 1]
  <2>1. \A i \in 1 .. n + 1 : i # 1 => i - 1 \in 1 .. n
    BY <1>7
  <2> HIDE DEF n, h
  <2> QED BY <1>2, <1>6, <1>9, <2>1
<1>12. \A i \in 1 .. m + 1 : i # 1 => accepted'[w][s][i] = a[i - 1]
  BY <1>4, <1>6, <1>7, <1>10
<1> HIDE DEF n, m, h, a
<1> QED BY <1>3, <1>6, <1>7, <1>9, <1>10, <1>11, <1>12 DEF n, m, h, a, r

\* A request that passes is remembered, and with it what it could be held against.
LEMMA AcceptKeeps ==
  ASSUME IInv, NEW w \in Workers, NEW s \in Scopes, HasRoom(w, s), Accept(w, s),
         Show(w, s, HasRoom(w, s)), s = "demo" => peeked[w] # None,
         now' = now, left' = [left EXCEPT ![w] = Tail(@)], Tail(left[w]) \in {<<>>, <<"write">>}
  PROVE  IInv'
<1> DEFINE h == history[w][s]
           a == accepted[w][s]
           n == Len(Recent(w, s))
           m == IF Len(a) < Limit[s] THEN Len(a) ELSE Limit[s] - 1
<1>1. /\ history'[w][s] \in Seq(Times) /\ Len(history'[w][s]) = n + 1
      /\ accepted'[w][s] \in Seq(Times) /\ Len(accepted'[w][s]) = m + 1
      /\ n \in Nat /\ n < Limit[s] /\ n <= m /\ m \in Nat /\ m <= Len(a)
      /\ history'[w][s][1] = now /\ accepted'[w][s][1] = now
      /\ \A i \in 1 .. n + 1 : i # 1 => history'[w][s][i] = h[i - 1]
      /\ \A i \in 1 .. m + 1 : i # 1 => accepted'[w][s][i] = a[i - 1]
  BY AcceptEffect
<1>2. /\ Len(h) \in Nat /\ Len(a) \in Nat /\ Limit[s] \in Nat /\ now \in Nat /\ Duration \in Nat
      /\ \A i \in 1 .. Len(h) : h[i] \in Nat
      /\ \A i \in 1 .. Len(a) : a[i] \in Nat
  <2>1. h \in Seq(Times) /\ a \in Seq(Times) /\ Times \subseteq Nat
    BY DEF IInv, TypeOK, Times
  <2> QED BY <2>1, ElementOfSeq, ThrottleAssumption DEF IInv, TypeOK, Times
<1>3. n <= Len(h) /\ \A i \in 1 .. Len(h) : i <= n <=> h[i] + Duration > now
  BY RecentIsInTheWindow
<1>4. m + 1 <= Limit[s]
  BY <1>2
<1> HIDE DEF n, m
<1>5. /\ UNCHANGED <<now, refused>>
      /\ (\A v \in Workers : v # w =>
            history'[v] = history[v] /\ accepted'[v] = accepted[v] /\ retryAt'[v] = retryAt[v])
      /\ (\A t \in Scopes : t # s => /\ history'[w][t] = history[w][t]
                                     /\ accepted'[w][t] = accepted[w][t]
                                     /\ retryAt'[w][t] = retryAt[w][t])
      /\ retryAt'[w][s] = None
  BY DEF IInv, TypeOK, Accept
<1>6. /\ left' \in [Workers -> {Checks[kind] : kind \in Kinds} \cup {<<>>, <<"write">>}]
      /\ left'[w] \in {<<>>, <<"write">>}
      /\ \A v \in Workers : v # w => left'[v] = left[v] /\ refused'[v] = refused[v]
  BY <1>5 DEF IInv, TypeOK
<1> DEFINE room == HasRoom(w, s)
<1>7. room \in BOOLEAN /\ room = TRUE
  BY DEF HasRoom
<1>8. /\ peeked' \in [Workers -> 0 .. Limit["demo"] \cup {None}]
      /\ remaining' \in [Workers -> 0 .. Limit["demo"]]
      /\ \A v \in Workers : v # w => peeked'[v] = peeked[v] /\ remaining'[v] = remaining[v]
      /\ s # "demo" => peeked'[w] = peeked[w] /\ remaining'[w] = remaining[w]
      /\ s = "demo" => /\ peeked'[w] = None
                       /\ remaining'[w] = IF peeked[w] > 0 THEN peeked[w] - 1 ELSE peeked[w]
  BY <1>7, ShowIsTyped
<1>9. TypeOK'
  <2>1. \E x \in Seq(Times) : history' = [history EXCEPT ![w][s] = x]
    <3>1. PICK x : history' = [history EXCEPT ![w][s] = x]
      BY DEF Accept
    <3>2. history'[w][s] = x
      BY <3>1 DEF IInv, TypeOK
    <3> QED BY <1>1, <3>1, <3>2
  <2>2. \E x \in Seq(Times) : accepted' = [accepted EXCEPT ![w][s] = x]
    <3>1. PICK x : accepted' = [accepted EXCEPT ![w][s] = x]
      BY DEF Accept
    <3>2. accepted'[w][s] = x
      BY <3>1 DEF IInv, TypeOK
    <3> QED BY <1>1, <3>1, <3>2
  <2>3. history' \in [Workers -> [Scopes -> Seq(Times)]]
        /\ accepted' \in [Workers -> [Scopes -> Seq(Times)]]
    BY <2>1, <2>2 DEF IInv, TypeOK
  <2>4. \A v \in Workers, t \in Scopes : Len(history'[v][t]) <= Limit[t]
    <3>1. Len(history'[w][s]) <= Limit[s]
      BY <1>1, <1>2
    <3> QED BY <1>5, <3>1 DEF IInv, TypeOK
  <2>5. retryAt' \in [Workers -> [Scopes -> 0 .. MaxTime + Duration \cup {None}]]
    BY DEF Accept, IInv, TypeOK
  <2> QED BY <1>5, <1>6, <1>8, <2>3, <2>4, <2>5 DEF IInv, TypeOK
<1>10. ASSUME NEW t \in Scopes PROVE LatestFirst(w, t)' /\ Remembers(w, t)' /\ ToldWhen(w, t)'
  <2>1. CASE t # s
    BY <1>5, <2>1 DEF IInv, LatestFirst, Remembers, ToldWhen
  <2>2. LatestFirst(w, s)'
    <3>1. \A i \in 1 .. Len(h) : h[i] <= now /\ \A j \in 1 .. i : h[i] <= h[j]
      BY DEF IInv, LatestFirst
    <3>2. \A i \in 1 .. n + 1 : i # 1 => i - 1 \in 1 .. Len(h)
      BY <1>1, <1>2, <1>3
    <3>3. ASSUME NEW i \in 1 .. n + 1 PROVE history'[w][s][i] <= now
      <4>1. CASE i = 1
        BY <1>1, <1>2, <4>1
      <4>2. CASE i # 1
        <5>1. i - 1 \in 1 .. Len(h) /\ history'[w][s][i] = h[i - 1]
          BY <1>1, <3>2, <4>2
        <5> HIDE DEF h
        <5> QED BY <3>1, <5>1
      <4> QED BY <4>1, <4>2
    <3>4. ASSUME NEW i \in 1 .. n + 1, NEW j \in 1 .. i
          PROVE  history'[w][s][i] <= history'[w][s][j]
      <4>1. CASE j = 1
        BY <1>1, <3>3, <4>1
      <4>2. CASE j # 1
        <5>1. i # 1 /\ j \in 1 .. n + 1 /\ j - 1 \in 1 .. i - 1 /\ i - 1 \in 1 .. Len(h)
          BY <1>1, <3>2, <4>2
        <5> HIDE DEF h
        <5> QED BY <1>1, <3>1, <5>1
      <4> QED BY <4>1, <4>2
    <3> QED BY <1>1, <1>5, <3>3, <3>4 DEF LatestFirst
  <2>3. Remembers(w, s)'
    <3>1. \A i \in 1 .. Len(a) : IF i <= Len(h) THEN a[i] = h[i] ELSE a[i] + Duration <= now
      BY DEF IInv, Remembers
    <3>2. ASSUME NEW i \in 1 .. m + 1
          PROVE  IF i <= n + 1 THEN accepted'[w][s][i] = history'[w][s][i]
                               ELSE accepted'[w][s][i] + Duration <= now
      <4>1. CASE i = 1
        BY <1>1, <4>1
      <4>2. CASE i # 1
        <5>1. i - 1 \in 1 .. Len(a) /\ accepted'[w][s][i] = a[i - 1]
          BY <1>1, <1>2, <4>2
        <5>2. CASE i <= n + 1
          <6>1. i \in 1 .. n + 1 /\ i - 1 <= Len(h)
            BY <1>1, <1>2, <1>3, <5>2
          <6> HIDE DEF a, h
          <6> QED BY <1>1, <3>1, <4>2, <5>1, <5>2, <6>1
        <5>3. CASE ~(i <= n + 1)
          <6>1. CASE i - 1 <= Len(h)
            <7>1. i - 1 \in 1 .. Len(h) /\ ~(i - 1 <= n)
              BY <1>1, <4>2, <5>3, <6>1
            <7>2. ~(h[i - 1] + Duration > now)
              BY <1>3, <7>1
            <7>3. h[i - 1] + Duration <= now
              BY <1>2, <7>1, <7>2
            <7> HIDE DEF a, h
            <7> QED BY <3>1, <5>1, <5>3, <6>1, <7>3
          <6>2. CASE ~(i - 1 <= Len(h))
            <7> HIDE DEF a, h
            <7> QED BY <3>1, <5>1, <5>3, <6>2
          <6> QED BY <6>1, <6>2
        <5> QED BY <5>2, <5>3
      <4> QED BY <4>1, <4>2
    <3>3. n + 1 <= m + 1
      BY <1>1, <1>2
    <3> QED BY <1>1, <1>4, <1>5, <3>2, <3>3 DEF Remembers
  <2>4. ToldWhen(w, s)'
    BY <1>5 DEF ToldWhen
  <2> QED BY <2>1, <2>2, <2>3, <2>4
<1>11. CountsRoom(w)'
  <2>1. left'[w] # <<"demo">>
    <3>1. <<>> # <<"demo">> /\ <<"write">> # <<"demo">>
      OBVIOUS
    <3> QED BY <1>6, <3>1
  <2>2. CASE s = "demo"
    <3>1. peeked[w] \in Nat /\ peeked[w] + n <= Limit["demo"]
      BY <2>2, PeekedIsRoom DEF n
    <3>2. remaining'[w] > 0 => remaining'[w] + (n + 1) <= Limit["demo"]
      BY <1>1, <1>2, <1>8, <2>2, <3>1
    <3> QED BY <1>1, <1>8, <2>1, <2>2, <3>2 DEF CountsRoom
  <2>3. CASE s # "demo"
    <3>1. history'[w]["demo"] = history[w]["demo"]
      BY <1>5, <2>3 DEF Scopes
    <3> QED BY <1>5, <1>8, <2>1, <2>3, <3>1 DEF IInv, CountsRoom
  <2> QED BY <2>2, <2>3
<1> QED BY <1>5, <1>6, <1>8, <1>9, <1>10, <1>11, OthersKeep

\* IInv is inductive.
LEMMA NextKeeps == IInv /\ [Next]_vars => IInv'
<1> SUFFICES ASSUME IInv, [Next]_vars PROVE IInv'
  OBVIOUS
<1>1. CASE UNCHANGED vars
  <2>1. UNCHANGED <<now, left, refused, history, retryAt, accepted, peeked, remaining>>
    BY <1>1 DEF vars, work, cache
  <2> QED BY <2>1 DEF IInv, TypeOK, LatestFirst, Remembers, ToldWhen, CountsRoom
<1>2. ASSUME NEW w \in Workers, AllowRequest(w) PROVE IInv'
  <2>1. PICK s \in Scopes :
          /\ s = "demo" => peeked[w] # None
          /\ IF HasRoom(w, s) THEN Accept(w, s) ELSE Refuse(w, s)
          /\ Show(w, s, HasRoom(w, s)) /\ now' = now
          /\ left' = [left EXCEPT ![w] = Tail(@)] /\ Tail(left[w]) \in {<<>>, <<"write">>}
    BY <1>2, AllowRequestEffect
  <2>2. CASE HasRoom(w, s)
    BY <2>1, <2>2, AcceptKeeps
  <2>3. CASE ~HasRoom(w, s)
    BY <2>1, <2>3, RefuseKeeps
  <2> QED BY <2>2, <2>3
<1> QED BY <1>1, <1>2, ArriveKeeps, PeekKeeps, TickKeeps DEF Next

\* A step that ends the wait for a throttle is one of AllowRequest.
LEMMA OnlyAllowRequestPasses ==
  ASSUME IInv, [Next]_vars, NEW w \in Workers, left[w] # <<>>, left'[w] = Tail(left[w])
  PROVE  AllowRequest(w)
<1>1. Tail(left[w]) # left[w]
  <2>1. left[w] \in {<<"read">>, <<"write">>, <<"read", "write">>, <<"demo">>}
    <3>1. left[w] \in {Checks[kind] : kind \in Kinds} \cup {<<>>, <<"write">>}
      BY DEF IInv, TypeOK
    <3> QED BY <3>1 DEF Checks, Kinds
  <2>2. Len(Tail(left[w])) # Len(left[w])
    BY <2>1
  <2> QED BY <2>2
<1>2. ~UNCHANGED left
  BY <1>1
<1>3. ~Tick /\ ~UNCHANGED vars
  BY <1>2 DEF Tick, vars, work
<1>4. ASSUME NEW v \in Workers, NEW kind \in Kinds PROVE ~Arrive(v, kind)
  <2>1. CASE v = w
    BY <2>1 DEF Arrive
  <2>2. CASE v # w
    BY <1>1, <2>2 DEF Arrive, IInv, TypeOK
  <2> QED BY <2>1, <2>2
<1>5. ASSUME NEW v \in Workers PROVE ~Peek(v)
  BY <1>2 DEF Peek, work
<1>6. PICK v \in Workers : AllowRequest(v)
  BY <1>3, <1>4, <1>5 DEF Next
<1>7. v = w
  BY <1>1, <1>6 DEF AllowRequest, Passed, IInv, TypeOK
<1> QED BY <1>6, <1>7

-----------------------------------------------------------------------------
\* IInv holds in every reachable state.
THEOREM Invariance == Spec => []IInv
BY InitIInv, NextKeeps, PTL DEF Spec

\* Histories, headers and what a worker has at hand are typed; no history is longer than
\* its limit.
THEOREM TypeCorrect == Spec => []TypeOK
<1>1. IInv => TypeOK
  BY DEF IInv
<1> QED BY <1>1, Invariance, PTL

\* Whoever waits as long as was told finds room.
THEOREM WaitingIsEnough == Spec => []RetryAfterIsEnough
<1>1. ASSUME IInv PROVE RetryAfterIsEnough
  <2> SUFFICES ASSUME NEW w \in Workers, NEW s \in Scopes,
                      retryAt[w][s] # None, now >= retryAt[w][s]
               PROVE  Len(Recent(w, s)) < Limit[s]
    BY DEF RetryAfterIsEnough
  <2>1. Len(history[w][s]) = Limit[s] /\ retryAt[w][s] = history[w][s][Limit[s]] + Duration
        /\ Limit[s] \in Nat \ {0} /\ Limit[s] \in 1 .. Len(history[w][s])
    BY <1>1, ThrottleAssumption DEF IInv, ToldWhen
  <2>2. /\ Len(Recent(w, s)) \in Nat
        /\ Limit[s] <= Len(Recent(w, s)) <=> history[w][s][Limit[s]] + Duration > now
    BY <1>1, <2>1, RecentIsInTheWindow
  <2>3. history[w][s][Limit[s]] \in Times /\ now \in Nat /\ Duration \in Nat
    BY <1>1, <2>1, ElementOfSeq, ThrottleAssumption DEF IInv, TypeOK, Times
  <2> QED BY <2>1, <2>2, <2>3 DEF Times
<1> QED BY <1>1, Invariance, PTL

\* No window, wherever it starts, has more accepted requests than the limit.
THEOREM WindowsAreLimited == Spec => AtMostLimitInAWindow
<1> DEFINE Limited(w, s) ==
      /\ left[w] # <<>> /\ left'[w] = Tail(left[w])
      /\ s = Head(left[w]) /\ retryAt'[w][s] = None /\ Len(accepted[w][s]) = Limit[s]
      => now >= Last(accepted[w][s]) + Duration
<1>1. ASSUME IInv, [Next]_vars, NEW w \in Workers, NEW s \in Scopes,
             left[w] # <<>>, left'[w] = Tail(left[w]),
             s = Head(left[w]), retryAt'[w][s] = None, Len(accepted[w][s]) = Limit[s]
      PROVE  now >= Last(accepted[w][s]) + Duration
  <2> DEFINE h == history[w][s]
             a == accepted[w][s]
  <2>1. AllowRequest(w)
    BY <1>1, OnlyAllowRequestPasses
  <2>2. IF HasRoom(w, s) THEN Accept(w, s) ELSE Refuse(w, s)
    BY <1>1, <2>1 DEF AllowRequest
  <2>3. HasRoom(w, s)
    <3> SUFFICES ASSUME ~HasRoom(w, s) PROVE FALSE
      OBVIOUS
    <3>1. retryAt'[w][s] = Last(Recent(w, s)) + Duration
      BY <1>1, <2>2 DEF Refuse, IInv, TypeOK
    <3>2. Last(Recent(w, s)) \in Nat
      BY <1>1, FullIsRecent DEF Times
    <3> QED BY <1>1, <3>1, <3>2, ThrottleAssumption
  <2>4. /\ Limit[s] \in Nat \ {0} /\ Limit[s] \in 1 .. Len(a) /\ Len(h) \in Nat
        /\ Len(Recent(w, s)) \in Nat /\ Len(Recent(w, s)) < Limit[s]
        /\ \A i \in 1 .. Len(h) : i <= Len(Recent(w, s)) <=> h[i] + Duration > now
    BY <1>1, <2>3, RecentIsInTheWindow, ThrottleAssumption DEF HasRoom, IInv, TypeOK
  <2>5. IF Limit[s] <= Len(h) THEN a[Limit[s]] = h[Limit[s]] ELSE a[Limit[s]] + Duration <= now
    BY <1>1, <2>4 DEF IInv, Remembers
  <2>6. a[Limit[s]] \in Nat /\ now \in Nat /\ Duration \in Nat
    <3>1. a \in Seq(Times) /\ Times \subseteq Nat
      BY <1>1 DEF IInv, TypeOK, Times
    <3> QED BY <1>1, <2>4, <3>1, ElementOfSeq, ThrottleAssumption DEF IInv, TypeOK, Times
  <2>7. a[Limit[s]] + Duration <= now
    <3>1. CASE Limit[s] <= Len(h)
      <4>1. Limit[s] \in 1 .. Len(h) /\ ~(Limit[s] <= Len(Recent(w, s)))
        BY <2>4, <3>1
      <4>2. ~(h[Limit[s]] + Duration > now) /\ a[Limit[s]] = h[Limit[s]]
        BY <2>4, <2>5, <3>1, <4>1
      <4> HIDE DEF h, a
      <4> QED BY <2>6, <4>2
    <3>2. CASE ~(Limit[s] <= Len(h))
      BY <2>5, <3>2
    <3> QED BY <3>1, <3>2
  <2> QED BY <1>1, <2>6, <2>7 DEF Last
<1>2. IInv /\ [Next]_vars => [\A w \in Workers, s \in Scopes : Limited(w, s)]_vars
  BY <1>1
<1> QED BY <1>2, Invariance, PTL DEF Spec, AtMostLimitInAWindow

\* What the header has told remains is there for the next request.
THEOREM RemainingIsTrue == Spec => RemainingIsKept
<1> DEFINE Kept(w) ==
      left[w] = <<"demo">> /\ left'[w] = <<>> /\ remaining[w] > 0
        => ~refused'[w] /\ remaining'[w] >= remaining[w] - 1
<1>1. ASSUME IInv, [Next]_vars, NEW w \in Workers,
             left[w] = <<"demo">>, left'[w] = <<>>, remaining[w] > 0
      PROVE  ~refused'[w] /\ remaining'[w] >= remaining[w] - 1
  <2>1. left[w] # <<>> /\ Tail(left[w]) = <<>> /\ Head(left[w]) = "demo" /\ "demo" \in Scopes
    BY <1>1 DEF Scopes
  <2>2. AllowRequest(w)
    BY <1>1, <2>1, OnlyAllowRequestPasses
  <2>3. peeked[w] # None /\ Show(w, "demo", HasRoom(w, "demo"))
        /\ IF HasRoom(w, "demo") THEN Accept(w, "demo") ELSE Refuse(w, "demo")
    BY <2>1, <2>2 DEF AllowRequest
  <2>4. peeked[w] \in Nat /\ peeked[w] + Len(Recent(w, "demo")) <= Limit["demo"]
    BY <1>1, <2>3, PeekedIsRoom
  <2>5. remaining[w] \in Nat /\ remaining[w] <= peeked[w] /\ ~refused[w]
    BY <1>1, <2>3 DEF IInv, TypeOK, CountsRoom
  <2>6. Len(Recent(w, "demo")) \in Nat /\ Limit["demo"] \in Nat
    BY <1>1, <2>1, RecentIsInTheWindow, ThrottleAssumption
  <2>7. HasRoom(w, "demo")
    BY <1>1, <2>4, <2>5, <2>6 DEF HasRoom
  <2>8. UNCHANGED refused
    BY <2>3, <2>7 DEF Accept
  <2>9. remaining'[w] = peeked[w] - 1
    BY <1>1, <2>3, <2>4, <2>5, <2>7 DEF Show, IInv, TypeOK
  <2> QED BY <2>4, <2>5, <2>8, <2>9
<1>2. IInv /\ [Next]_vars => [\A w \in Workers : Kept(w)]_vars
  BY <1>1
<1> QED BY <1>2, Invariance, PTL DEF Spec, RemainingIsKept
=============================================================================
