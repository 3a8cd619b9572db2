---------------------------- MODULE BacklogProofs ----------------------------
(***************************************************************************)
(* What Backlog guarantees for every number of workers, process ids, rows  *)
(* and faults: the safety half of BacklogIsSeen and of GaugeSettles.  What *)
(* is shown goes on being shown, whichever workers die, are replaced and   *)
(* fail to count, until the master starts again and purges the files.      *)
(***************************************************************************)
EXTENDS Backlog, WellFoundedInduction, TLAPS

\* Counting the backlog takes a worker through its statements.
LEMMA TickKeeps ==
  ASSUME TypeOK, NEW p \in Pids, Tick(p) \/ Raise(p)
  PROVE  TypeOK'
<1>1. 0 \in Figures /\ None \notin Figures
  BY BacklogAssumption DEF Figures
<1>2. CASE Fork(p)
  BY <1>2 DEF Fork, TypeOK
<1>3. CASE CreateGauge(p)
  BY <1>1, <1>3 DEF CreateGauge, TypeOK
<1>4. CASE Count(p)
  BY <1>4 DEF Count, TypeOK
<1>5. CASE Set(p)
  BY <1>5 DEF Set, TypeOK
<1>6. CASE Raise(p)
  BY <1>6, BacklogAssumption DEF Raise, TypeOK
<1> QED BY <1>2, <1>3, <1>4, <1>5, <1>6 DEF Tick

\* Workers and the master die, and start again.
LEMMA LivesKeep ==
  ASSUME TypeOK, OnStarting \/ MasterDies \/ \E p \in Pids : Die(p) \/ ChildExit(p)
  PROVE  TypeOK'
<1>1. CASE OnStarting
  BY <1>1 DEF OnStarting, TypeOK
<1>2. CASE MasterDies
  BY <1>2, BacklogAssumption DEF MasterDies, TypeOK
<1>3. ASSUME NEW p \in Pids, Die(p) PROVE TypeOK'
  BY <1>3, BacklogAssumption DEF Die, TypeOK
<1>4. ASSUME NEW p \in Pids, ChildExit(p) PROVE TypeOK'
  BY <1>4 DEF ChildExit, TypeOK
<1> QED BY <1>1, <1>2, <1>3, <1>4

\* Every worker, figure and file is typed, for any number of them.
THEOREM TypeCorrect == Spec => []TypeOK
<1>1. Init => TypeOK
  BY BacklogAssumption DEF Init, TypeOK, Figures
<1>2. TypeOK /\ [Next]_vars => TypeOK'
  <2> SUFFICES ASSUME TypeOK, [Next]_vars PROVE TypeOK'
    OBVIOUS
  <2>1. CASE Insert \/ Publish
    BY <2>1, BacklogAssumption DEF Insert, Publish, TypeOK, Figures
  <2>2. CASE UNCHANGED vars
    BY <2>2 DEF vars, TypeOK
  <2> QED BY <2>1, <2>2, TickKeeps, LivesKeep DEF Next
<1> QED BY <1>1, <1>2, PTL DEF Spec

-----------------------------------------------------------------------------
(* The maximum over the files                                              *)

LessThan == {ss \in Nat \X Nat : ss[1] < ss[2]}

\* A set of naturals has a least.
LEMMA NaturalsHaveAMin ==
  ASSUME NEW S \in SUBSET Nat, S # {}
  PROVE  \E n \in S : \A m \in S : n =< m
<1>1. IsWellFoundedOn(LessThan, Nat)
  BY NatLessThanWellFounded DEF OpToRel, LessThan
<1>2. PICK n \in S : \A m \in S : <<m, n>> \notin LessThan
  BY <1>1, WFMin
<1>3. ASSUME NEW m \in S PROVE n =< m
  <2>1. <<m, n>> \in Nat \X Nat /\ <<m, n>>[1] = m /\ <<m, n>>[2] = n
    OBVIOUS
  <2>2. ~(m < n)
    BY <1>2, <2>1 DEF LessThan
  <2> QED BY <2>2
<1> QED BY <1>3

\* A set of figures has a greatest.
LEMMA FiguresHaveAMax ==
  ASSUME NEW S \in SUBSET Figures, S # {}
  PROVE  Max(S) \in S /\ \A x \in S : x =< Max(S)
<1> DEFINE T == {n \in Nat : MaxBacklog - n \in S}
<1>1. MaxBacklog \in Nat /\ \A x \in S : x \in Nat /\ x =< MaxBacklog
  BY BacklogAssumption DEF Figures
<1>2. T \subseteq Nat /\ T # {}
  <2>1. PICK x : x \in S
    OBVIOUS
  <2>2. MaxBacklog - x \in Nat /\ MaxBacklog - (MaxBacklog - x) = x
    BY <1>1, <2>1
  <2> QED BY <2>1, <2>2
<1>3. PICK n \in T : \A m \in T : n =< m
  <2> HIDE DEF T
  <2> QED BY <1>2, NaturalsHaveAMin
<1>4. ASSUME NEW x \in S PROVE x =< MaxBacklog - n
  <2>1. MaxBacklog - x \in T /\ n \in Nat
    BY <1>1
  <2>2. n =< MaxBacklog - x
    BY <1>3, <2>1
  <2> QED BY <1>1, <2>1, <2>2
<1>5. \E x \in S : \A y \in S : x >= y
  <2>1. MaxBacklog - n \in S /\ MaxBacklog - n \in Nat
    BY <1>1
  <2> QED BY <1>1, <1>4, <2>1
<1> QED BY <1>1, <1>5 DEF Max

\* What a scrape shows is at least a figure when some file is.
LEMMA GaugeIsAMax ==
  ASSUME TypeOK, NEW n \in Figures
  PROVE  /\ Gauge # None /\ Gauge >= n <=> \E p \in Pids : file[p] # None /\ file[p] >= n
         /\ Gauge # None /\ Gauge =< n
              <=> (\E p \in Pids : file[p] # None) /\ \A p \in Pids : file[p] = None \/ file[p] =< n
<1>1. Samples \in SUBSET Figures
  BY DEF Samples, TypeOK
<1>2. None \notin Figures /\ \A x \in Figures : x \in Int
  BY BacklogAssumption DEF Figures
<1>3. \A x : x \in Samples <=> \E p \in Pids : file[p] # None /\ file[p] = x
  BY DEF Samples
<1>4. CASE Samples = {}
  BY <1>3, <1>4 DEF Gauge
<1>5. CASE Samples # {}
  <2>1. Gauge \in Samples /\ \A x \in Samples : x =< Gauge
    BY <1>1, <1>5, FiguresHaveAMax DEF Gauge
  <2>2. Gauge # None /\ Gauge \in Int /\ n \in Int
    BY <1>1, <1>2, <2>1
  <2>3. PICK p \in Pids : file[p] # None /\ file[p] = Gauge
    BY <1>3, <2>1
  <2>4. \A q \in Pids : file[q] # None => file[q] \in Int /\ file[q] =< Gauge
    BY <1>1, <1>2, <1>3, <2>1
  <2> QED BY <2>2, <2>3, <2>4
<1> QED BY <1>4, <1>5

-----------------------------------------------------------------------------
(* What is shown stays shown                                               *)

\* A worker that has counted holds a figure, and the file of one that waits or has
\* counted is there.
CountsAndFiles ==
  \A p \in Pids :
    /\ worker[p] = "counted" <=> count[p] # None
    /\ worker[p] \in {"waiting", "counted"} => file[p] # None

\* A purge finds no worker: those of a master that was killed have gone with it.
DownHasNone == master = "down" => \A p \in Pids : worker[p] = "gone"

\* Together they are inductive.
LEMMA CountsAndFilesKept ==
  ASSUME TypeOK, CountsAndFiles, DownHasNone, [Next]_vars
  PROVE  CountsAndFiles' /\ DownHasNone'
<1> USE DEF CountsAndFiles, DownHasNone
<1>1. None \notin Figures /\ 0 \in Figures
  BY BacklogAssumption DEF Figures
<1>2. CASE Insert \/ Publish \/ UNCHANGED vars
  BY <1>2 DEF Insert, Publish, vars
<1>3. CASE OnStarting \/ MasterDies
  BY <1>3 DEF OnStarting, MasterDies
<1>4. ASSUME NEW p \in Pids, Fork(p) \/ Die(p) \/ ChildExit(p) \/ Raise(p)
      PROVE  CountsAndFiles' /\ DownHasNone'
  BY <1>4 DEF Fork, Die, ChildExit, Raise, Children, Live, TypeOK
<1>5. ASSUME NEW p \in Pids, CreateGauge(p) \/ Count(p) \/ Set(p)
      PROVE  CountsAndFiles' /\ DownHasNone'
  BY <1>1, <1>5 DEF CreateGauge, Count, Set, TypeOK
<1> QED BY <1>2, <1>3, <1>4, <1>5 DEF Next, Tick

\* Both hold in every reachable state.
THEOREM Invariance == Spec => [](CountsAndFiles /\ DownHasNone)
<1>1. Init => CountsAndFiles /\ DownHasNone
  BY DEF Init, CountsAndFiles, DownHasNone
<1>2. TypeOK /\ CountsAndFiles /\ DownHasNone /\ [Next]_vars
      => (CountsAndFiles /\ DownHasNone)'
  BY CountsAndFilesKept
<1> QED BY <1>1, <1>2, TypeCorrect, PTL DEF Spec

\* The gauge after a step.
LEMMA GaugeIsAMaxAfter ==
  ASSUME NEW CONSTANT n \in Figures
  PROVE  (TypeOK =>
            /\ Gauge # None /\ Gauge >= n <=> \E p \in Pids : file[p] # None /\ file[p] >= n
            /\ Gauge # None /\ Gauge =< n
                 <=> /\ \E p \in Pids : file[p] # None
                     /\ \A p \in Pids : file[p] = None \/ file[p] =< n)'
<1>1. TypeOK =>
        /\ Gauge # None /\ Gauge >= n <=> \E p \in Pids : file[p] # None /\ file[p] >= n
        /\ Gauge # None /\ Gauge =< n
             <=> /\ \E p \in Pids : file[p] # None
                 /\ \A p \in Pids : file[p] = None \/ file[p] =< n
  BY GaugeIsAMax
<1> QED BY <1>1, PTL

\* A figure is shown, and no worker is about to set a lower one.
ShownAtLeast(n) ==
  /\ Gauge # None /\ Gauge >= n
  /\ \A p \in Pids : count[p] = None \/ count[p] >= n

\* A figure is shown, and no worker is about to set another.
Rests(n) ==
  /\ Gauge = n
  /\ \A p \in Pids : count[p] \in {None, n}

\* A step that purges no file keeps those of the others, and sets that of a worker to
\* what it has counted, or to zero where it had none.
LEMMA FilesOfAStep ==
  ASSUME TypeOK, CountsAndFiles, [Next]_vars, ~OnStarting, NEW p \in Pids
  PROVE  /\ \/ file'[p] = file[p]
            \/ count[p] # None /\ file'[p] = count[p]
            \/ file[p] = None /\ file'[p] = 0
         /\ count'[p] \in {None, count[p], unpublished}
<1>1. CASE Insert \/ Publish \/ MasterDies \/ UNCHANGED vars
  BY <1>1 DEF Insert, Publish, MasterDies, vars
<1>2. ASSUME NEW q \in Pids, Fork(q) \/ Die(q) \/ ChildExit(q) \/ Raise(q)
      PROVE  UNCHANGED file /\ count'[p] \in {None, count[p]}
  BY <1>2 DEF Fork, Die, ChildExit, Raise, TypeOK
<1>3. ASSUME NEW q \in Pids, CreateGauge(q)
      PROVE  /\ file'[p] = file[p] \/ (file[p] = None /\ file'[p] = 0)
             /\ UNCHANGED count
  BY <1>3 DEF CreateGauge, TypeOK
<1>4. ASSUME NEW q \in Pids, Count(q)
      PROVE  UNCHANGED file /\ count'[p] \in {count[p], unpublished}
  BY <1>4 DEF Count, TypeOK
<1>5. ASSUME NEW q \in Pids, Set(q)
      PROVE  /\ file'[p] = file[p] \/ (count[p] # None /\ file'[p] = count[p])
             /\ count'[p] \in {None, count[p]}
  BY <1>5 DEF Set, TypeOK, CountsAndFiles
<1> QED BY <1>1, <1>2, <1>3, <1>4, <1>5 DEF Next, Tick

\* The safety half of BacklogIsSeen: what is shown stays shown while the backlog stays,
\* whichever workers die, whichever counts fail and whoever takes the process id of
\* another, until the master starts again
\* (events/metrics.py:5-7, config/gunicorn.py:31-51).
THEOREM ShownStaysShown ==
  ASSUME NEW n \in Figures
  PROVE  Spec => [][ShownAtLeast(n) /\ unpublished >= n /\ ~OnStarting
                      => ShownAtLeast(n)']_vars
<1>1. ASSUME TypeOK, TypeOK', CountsAndFiles, [Next]_vars,
             ShownAtLeast(n), unpublished >= n, ~OnStarting
      PROVE  ShownAtLeast(n)'
  <2>1. n \in Int /\ 0 \in Figures /\ None \notin Figures /\ \A x \in Figures : x \in Nat
    BY BacklogAssumption DEF Figures
  <2>2. PICK p \in Pids : file[p] # None /\ file[p] >= n
    BY <1>1, GaugeIsAMax DEF ShownAtLeast
  <2>3. file'[p] # None /\ file'[p] >= n
    BY <1>1, <2>1, <2>2, FilesOfAStep DEF ShownAtLeast, TypeOK
  <2>4. Gauge' # None /\ Gauge' >= n
    BY <1>1, <2>3, GaugeIsAMaxAfter
  <2>5. \A q \in Pids : count'[q] = None \/ count'[q] >= n
    BY <1>1, FilesOfAStep DEF ShownAtLeast
  <2> QED BY <2>4, <2>5 DEF ShownAtLeast
<1>2. TypeOK /\ TypeOK' /\ CountsAndFiles /\ [Next]_vars
      => (ShownAtLeast(n) /\ unpublished >= n /\ ~OnStarting => ShownAtLeast(n)')
  BY <1>1
<1> QED BY <1>2, TypeCorrect, Invariance, PTL DEF Spec

\* The safety half of GaugeSettles: a gauge that rests at a backlog that rests stays there,
\* whichever workers die, until the master starts again (events/metrics.py:16-17).
THEOREM RestStays ==
  ASSUME NEW n \in Figures
  PROVE  Spec => [][Rests(n) /\ unpublished = n /\ ~OnStarting => Rests(n)']_vars
<1>1. ASSUME TypeOK, TypeOK', CountsAndFiles, [Next]_vars,
             Rests(n), unpublished = n, ~OnStarting
      PROVE  Rests(n)'
  <2>1. n \in Nat /\ 0 \in Figures /\ None \notin Figures /\ \A x \in Figures : x \in Nat
    BY BacklogAssumption DEF Figures
  <2>2. Gauge # None /\ Gauge >= n /\ Gauge =< n
    BY <1>1, <2>1 DEF Rests
  <2>3. /\ \E p \in Pids : file[p] # None /\ file[p] >= n
        /\ \A p \in Pids : file[p] = None \/ file[p] =< n
    BY <1>1, <2>2, GaugeIsAMax
  <2>4. /\ \E p \in Pids : file'[p] # None /\ file'[p] >= n
        /\ \A p \in Pids : file'[p] = None \/ file'[p] =< n
    BY <1>1, <2>1, <2>3, FilesOfAStep DEF Rests, TypeOK
  <2>5. Gauge' # None /\ Gauge' >= n /\ Gauge' =< n
    BY <1>1, <2>4, GaugeIsAMaxAfter
  <2>6. \A q \in Pids : count'[q] \in {None, n}
    BY <1>1, FilesOfAStep DEF Rests
  <2>7. Gauge' \in Figures
    <3>1. Gauge' \in Samples'
      BY <1>1, FiguresHaveAMax, <2>5 DEF Gauge, Samples, TypeOK
    <3> QED BY <1>1, <3>1 DEF Samples, TypeOK
  <2> QED BY <2>1, <2>5, <2>6, <2>7 DEF Rests
<1>2. TypeOK /\ TypeOK' /\ CountsAndFiles /\ [Next]_vars
      => (Rests(n) /\ unpublished = n /\ ~OnStarting => Rests(n)')
  BY <1>1
<1> QED BY <1>2, TypeCorrect, Invariance, PTL DEF Spec
=============================================================================
