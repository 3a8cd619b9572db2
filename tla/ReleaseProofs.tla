---------------------------- MODULE ReleaseProofs ----------------------------
(***************************************************************************)
(* What Release guarantees for every number of people, versions, commits,  *)
(* runs and failures.  IInv says what git keeps whatever is done           *)
(* (History, RefsAreMade), that a run that has pushed its branch has its   *)
(* HEAD on the origin (PushedBranch), and what a run has done of its job   *)
(* at each command.                                                        *)
(***************************************************************************)
EXTENDS Release, TLAPS

\* Commits are made in order, each on top of earlier ones.
Made == 1..made
History ==
  \A c \in Made : c \in past[c] /\ past[c] \subseteq Made
                  /\ \A d \in past[c] : past[d] \subseteq past[c]

\* Whatever a branch or a tag is on has been made.
RefsAreMade ==
  /\ \A b \in Branches : origin.heads[b] \in Made
  /\ \A v \in Versions : origin.tags[v] \in Made \cup {None}
  /\ \A r \in Releasers :
       /\ \A b \in Branches : clone[r].heads[b] \in Made
       /\ \A v \in Versions : clone[r].tags[v] \in Made \cup {None}

\* A run that has pushed its branch has its HEAD there.
PushedBranch(r) == pc[r] = "push_tags" => Head(r) \in past[origin.heads[clone[r].at]]

\* What a run has done of its job at each command.
AtCommand(r) ==
  /\ pc[r] # "idle" => job[r] \in Run
  /\ pc[r] = "commit" => clone[r].tree = job[r].want
  /\ pc[r] \in {"check", "tag"} /\ job[r].bump => carries[Head(r)] = job[r].want
  /\ pc[r] \in {"push", "push_tags"} => clone[r].tags[job[r].want] # None

IInv ==
  /\ TypeOK /\ History /\ RefsAreMade
  /\ \A r \in Releasers : PushedBranch(r) /\ AtCommand(r)
  /\ ReportsAreTrue

-----------------------------------------------------------------------------
\* One commit, one tag at most, and every clone is of it.
LEMMA InitIInv == Init => IInv
<1> SUFFICES ASSUME Init PROVE IInv
  OBVIOUS
<1> USE ReleaseAssumption
<1>1. 1 \in Commits /\ Seed \in Versions /\ "main" \in Branches
  BY DEF Commits, Branches
<1> DEFINE tags == [v \in Versions |-> IF v = Seed /\ SeedTagged THEN 1 ELSE None]
           heads == [b \in Branches |-> 1]
<1>2. tags \in Refs /\ heads \in Heads
  BY <1>1 DEF Refs, Heads
<1>3. origin = [heads |-> heads, tags |-> tags]
      /\ clone = [r \in Releasers |->
                    [at |-> "main", heads |-> heads, tags |-> tags, tree |-> Seed]]
  BY DEF Init
<1>4. (\A v \in Versions : tags[v] \in {1, None}) /\ \A b \in Branches : heads[b] = 1
  OBVIOUS
<1> HIDE DEF tags, heads
<1>5. TypeOK
  BY <1>1, <1>2, <1>3 DEF Init, TypeOK, Commits, Clone
<1>6. Made = {1} /\ past[1] = {1}
  BY <1>1 DEF Init, Made
<1>7. History
  BY <1>6 DEF History
<1>8. RefsAreMade
  BY <1>3, <1>4, <1>6 DEF RefsAreMade
<1>9. \A r \in Releasers : PushedBranch(r) /\ AtCommand(r)
  BY DEF Init, PushedBranch, AtCommand
<1>10. ReportsAreTrue
  BY DEF Init, ReportsAreTrue
<1> QED BY <1>5, <1>7, <1>8, <1>9, <1>10 DEF IInv

\* HEAD is a commit that has been made.
LEMMA HeadIsMade ==
  ASSUME IInv, NEW r \in Releasers
  PROVE  clone[r].at \in Branches /\ Head(r) \in Made /\ Made \subseteq Commits
<1>1. made \in 1..MaxCommits /\ MaxCommits \in Nat
  BY ReleaseAssumption DEF IInv, TypeOK, Commits
<1> QED BY <1>1 DEF IInv, TypeOK, RefsAreMade, Head, Clone, Made, Commits

\* A new commit extends the history: it reaches what its parents do, and no other changes.
LEMMA NewCommitExtends ==
  ASSUME IInv, NEW parents \in SUBSET Made, NEW version \in Versions,
         NewCommit(parents, version)
  PROVE  /\ made' \in Commits /\ made' = made + 1 /\ made' \notin Made
         /\ Made \subseteq Made' /\ made' \in Made'
         /\ past' \in [Commits -> SUBSET Commits] /\ carries' \in [Commits -> Versions]
         /\ \A c \in Made : past'[c] = past[c] /\ carries'[c] = carries[c]
         /\ \A c \in parents : past[c] \subseteq past'[made']
         /\ carries'[made'] = version
         /\ History'
<1> DEFINE new == {made + 1} \cup UNION {past[c] : c \in parents}
<1>1. made \in Nat \ {0} /\ MaxCommits \in Nat /\ made < MaxCommits /\ made' = made + 1
  BY ReleaseAssumption DEF IInv, TypeOK, Commits, NewCommit
<1>2. made' \in Commits /\ made' \notin Made /\ Made' = Made \cup {made'} /\ Made \subseteq Commits
  BY <1>1 DEF Commits, Made
<1>3. past' = [past EXCEPT ![made'] = new] /\ carries' = [carries EXCEPT ![made'] = version]
  BY <1>1 DEF NewCommit
<1>4. new \subseteq Made \cup {made'} /\ made' \in new /\ \A c \in parents : past[c] \subseteq new
  BY <1>1 DEF IInv, History
<1>5. \A d \in new : d # made' => past[d] \subseteq new
  BY <1>1 DEF IInv, History
<1> HIDE DEF new
<1>6. past' \in [Commits -> SUBSET Commits] /\ carries' \in [Commits -> Versions]
  BY <1>2, <1>3, <1>4 DEF IInv, TypeOK
<1>7. \A c \in Made : past'[c] = past[c] /\ carries'[c] = carries[c]
  BY <1>2, <1>3 DEF IInv, TypeOK
<1>8. past'[made'] = new /\ carries'[made'] = version
  BY <1>2, <1>3 DEF IInv, TypeOK
<1>9. History'
  <2> SUFFICES ASSUME NEW c \in Made'
               PROVE  c \in past'[c] /\ past'[c] \subseteq Made'
                      /\ \A d \in past'[c] : past'[d] \subseteq past'[c]
    BY DEF History
  <2>1. CASE c \in Made
    BY <2>1, <1>2, <1>7 DEF IInv, History
  <2>2. CASE c = made'
    <3>1. \A d \in new : past'[d] \subseteq new
      BY <1>2, <1>4, <1>5, <1>7, <1>8
    <3> QED BY <2>2, <3>1, <1>2, <1>4, <1>8
  <2> QED BY <2>1, <2>2, <1>2
<1> QED BY <1>1, <1>2, <1>4, <1>6, <1>7, <1>8, <1>9

\* A fetch brings tags that have been made, and moves none.
LEMMA FollowedKeeps ==
  ASSUME IInv, NEW r \in Releasers
  PROVE  /\ Followed(r) \in Refs
         /\ \A v \in Versions :
              /\ Followed(r)[v] \in Made \cup {None}
              /\ clone[r].tags[v] # None => Followed(r)[v] = clone[r].tags[v]
<1>1. origin.tags \in Refs /\ clone[r].tags \in Refs
  BY DEF IInv, TypeOK, Clone
<1>2. Followed(r) \in Refs
  BY <1>1 DEF Followed, Refs
<1>3. ASSUME NEW v \in Versions
      PROVE  Followed(r)[v] \in {clone[r].tags[v], origin.tags[v]}
             /\ (clone[r].tags[v] # None => Followed(r)[v] = clone[r].tags[v])
  BY DEF Followed
<1> QED BY <1>2, <1>3 DEF IInv, RefsAreMade

-----------------------------------------------------------------------------
\* What was reported stays true while no tag moves.
LEMMA ReportsStayTrue ==
  ASSUME IInv, NEW r \in Releasers, UNCHANGED <<origin, reports>>,
         NEW c \in Clone, clone' = [clone EXCEPT ![r] = c],
         \A v \in Versions : clone[r].tags[v] # None => c.tags[v] = clone[r].tags[v]
  PROVE  ReportsAreTrue'
<1>1. clone'[r] = c /\ \A q \in Releasers : q # r => clone'[q] = clone[q]
  BY DEF IInv, TypeOK
<1>2. ASSUME NEW t \in reports
      PROVE  /\ t.tag => clone'[t.by].tags[t.version] # None
             /\ t.pushed => t.tag /\ origin.tags[t.version] = clone'[t.by].tags[t.version]
  <2>1. t.by \in Releasers /\ t.version \in Versions
    BY DEF IInv, TypeOK, Report
  <2>2. clone[t.by].tags[t.version] # None =>
          clone'[t.by].tags[t.version] = clone[t.by].tags[t.version]
    BY <1>1, <2>1
  <2> QED BY <2>2 DEF IInv, ReportsAreTrue
<1> QED BY <1>2 DEF ReportsAreTrue

\* What may become of r's clone: its refs have been made, and its tags stay where they were.
RefsStay(c, r) ==
  /\ \A b \in Branches : c.heads[b] \in Made
  /\ \A v \in Versions :
       /\ c.tags[v] \in Made \cup {None}
       /\ clone[r].tags[v] # None => c.tags[v] = clone[r].tags[v]

\* A step of r that changes neither the commits nor the origin keeps IInv if what it
\* leaves in r's clone and run does.
LEMMA LocalStepKeeps ==
  ASSUME IInv, NEW r \in Releasers, UNCHANGED <<git, origin, reports>>,
         NEW c \in Clone, clone' = [clone EXCEPT ![r] = c],
         RefsStay(c, r),
         NEW next \in {"idle", "commit", "check", "tag", "push"},
         pc' = [pc EXCEPT ![r] = next],
         NEW j \in Run \cup {NoRun}, job' = [job EXCEPT ![r] = j],
         runs' \in 0..MaxRuns, faults' \in 0..MaxFaults,
         AtCommand(r)'
  PROVE  IInv'
<1>1. UNCHANGED <<made, past, carries>>
  BY DEF git
<1>2. clone'[r] = c /\ pc'[r] = next
      /\ \A s \in Releasers : s # r => clone'[s] = clone[s] /\ pc'[s] = pc[s] /\ job'[s] = job[s]
  BY DEF IInv, TypeOK
<1>3. TypeOK'
  BY <1>1 DEF IInv, TypeOK
<1>4. History'
  BY <1>1 DEF IInv, History, Made
<1>5. RefsAreMade'
  BY <1>1, <1>2 DEF IInv, RefsAreMade, RefsStay, Made
<1>6. \A s \in Releasers : PushedBranch(s)' /\ AtCommand(s)'
  BY <1>1, <1>2 DEF IInv, PushedBranch, AtCommand, Head
<1>7. ReportsAreTrue'
  BY ReportsStayTrue DEF RefsStay
<1> QED BY <1>3, <1>4, <1>5, <1>6, <1>7 DEF IInv

\* So does a step that makes a commit and moves HEAD to it: what was reachable is
\* still reachable.
LEMMA CommittingStepKeeps ==
  ASSUME IInv, NEW r \in Releasers, UNCHANGED <<origin, reports, runs, faults>>,
         NEW parents \in SUBSET Made,
         NEW version \in Versions, NewCommit(parents, version),
         NEW tags \in Refs, NEW tree \in Versions,
         clone' = [clone EXCEPT ![r] =
           [at |-> clone[r].at, heads |-> [clone[r].heads EXCEPT ![clone[r].at] = made + 1],
            tags |-> tags, tree |-> tree]],
         \A v \in Versions :
           /\ tags[v] \in Made \cup {None}
           /\ clone[r].tags[v] # None => tags[v] = clone[r].tags[v],
         NEW next \in {"idle", "check"}, pc' = [pc EXCEPT ![r] = next], UNCHANGED job,
         next = "check" => job[r] \in Run /\ version = job[r].want
  PROVE  IInv'
<1>1. /\ made' \in Commits /\ made' = made + 1 /\ made' \notin Made
      /\ Made \subseteq Made' /\ made' \in Made'
      /\ past' \in [Commits -> SUBSET Commits] /\ carries' \in [Commits -> Versions]
      /\ \A c \in Made : past'[c] = past[c] /\ carries'[c] = carries[c]
      /\ carries'[made'] = version
      /\ History'
  BY NewCommitExtends
<1> DEFINE heads == [clone[r].heads EXCEPT ![clone[r].at] = made + 1]
           c == [at |-> clone[r].at, heads |-> heads, tags |-> tags, tree |-> tree]
<1>2. clone[r] \in Clone /\ clone[r].at \in Branches
  BY DEF IInv, TypeOK, Clone
<1>3. heads \in Heads /\ heads[clone[r].at] = made'
      /\ \A b \in Branches : heads[b] \in {made', clone[r].heads[b]}
  BY <1>1, <1>2 DEF Clone, Heads
<1>4. clone' = [clone EXCEPT ![r] = c]
  OBVIOUS
<1> HIDE DEF heads
<1>5. c \in Clone /\ c.at = clone[r].at /\ c.heads = heads /\ c.tags = tags
  BY <1>2, <1>3 DEF Clone
<1> HIDE DEF c
<1>6. /\ clone'[r] = c /\ pc'[r] = next
      /\ \A s \in Releasers : s # r => clone'[s] = clone[s] /\ pc'[s] = pc[s] /\ job'[s] = job[s]
  BY <1>4 DEF IInv, TypeOK
<1>7. TypeOK'
  BY <1>1, <1>4, <1>5 DEF IInv, TypeOK
<1>8. RefsAreMade'
  <2>1. \A s \in Releasers : s # r =>
          /\ \A b \in Branches : clone'[s].heads[b] \in Made'
          /\ \A v \in Versions : clone'[s].tags[v] \in Made' \cup {None}
    BY <1>1, <1>6 DEF IInv, RefsAreMade
  <2>2. \A v \in Versions : tags[v] \in Made' \cup {None}
    BY <1>1
  <2>3. \A b \in Branches : heads[b] \in Made'
    BY <1>1, <1>3 DEF IInv, RefsAreMade
  <2>4. /\ \A b \in Branches : clone'[r].heads[b] \in Made'
        /\ \A v \in Versions : clone'[r].tags[v] \in Made' \cup {None}
    BY <1>5, <1>6, <2>2, <2>3
  <2>5. (\A b \in Branches : origin'.heads[b] \in Made')
        /\ \A v \in Versions : origin'.tags[v] \in Made' \cup {None}
    BY <1>1 DEF IInv, RefsAreMade
  <2> QED BY <2>1, <2>4, <2>5 DEF RefsAreMade
<1>9. \A s \in Releasers : PushedBranch(s)' /\ AtCommand(s)'
  <2>1. PushedBranch(r)' /\ AtCommand(r)'
    <3>1. next # "push_tags" /\ (next = "check" => carries'[Head(r)'] = job[r].want)
      <4>1. Head(r)' = made'
        BY <1>3, <1>5, <1>6 DEF Head
      <4>2. next = "check" => carries'[made'] = job[r].want
        BY <1>1
      <4> QED BY <4>1, <4>2
    <3>2. job' = job /\ pc'[r] = next
      BY <1>6
    <3> QED BY <3>1, <3>2 DEF PushedBranch, AtCommand
  <2>2. ASSUME NEW s \in Releasers, s # r PROVE PushedBranch(s)' /\ AtCommand(s)'
    <3>1. Head(s) \in Made /\ origin.heads[clone[s].at] \in Made
      BY HeadIsMade DEF IInv, RefsAreMade
    <3>2. clone'[s] = clone[s] /\ pc'[s] = pc[s] /\ job'[s] = job[s] /\ origin' = origin
          /\ Head(s)' = Head(s)
      BY <1>6, <2>2 DEF Head
    <3>3. past'[origin'.heads[clone'[s].at]] = past[origin.heads[clone[s].at]]
          /\ carries'[Head(s)'] = carries[Head(s)]
      BY <1>1, <3>1, <3>2
    <3>4. PushedBranch(s)'
      BY <3>2, <3>3 DEF IInv, PushedBranch
    <3>5. AtCommand(s)'
      BY <3>2, <3>3 DEF IInv, AtCommand
    <3> QED BY <3>4, <3>5
  <2> QED BY <2>1, <2>2
<1>10. ReportsAreTrue'
  <2>1. \A v \in Versions : clone[r].tags[v] # None => c.tags[v] = clone[r].tags[v]
    BY <1>5
  <2> QED BY <1>4, <1>5, <2>1, ReportsStayTrue
<1> QED BY <1>1, <1>7, <1>8, <1>9, <1>10 DEF IInv

-----------------------------------------------------------------------------
(* The actions                                                             *)

\* A run that ends leaves its clone as it is.
LEMMA ExitKeeps ==
  ASSUME IInv, NEW r \in Releasers, Exit(r), UNCHANGED <<git, origin, clone, reports, runs>>,
         faults' \in 0..MaxFaults
  PROVE  IInv'
<1>1. clone[r] \in Clone /\ clone' = [clone EXCEPT ![r] = clone[r]] /\ runs' \in 0..MaxRuns
  BY DEF IInv, TypeOK
<1>2. RefsStay(clone[r], r)
  BY DEF IInv, RefsAreMade, RefsStay
<1>3. pc'[r] = "idle"
  BY DEF IInv, TypeOK, Exit
<1>4. AtCommand(r)'
  BY <1>3 DEF AtCommand
<1> QED BY <1>1, <1>2, <1>4, LocalStepKeeps DEF Exit

LEMMA StopKeeps == ASSUME IInv, NEW r \in Releasers, Stop(r) PROVE IInv'
<1>1. faults' \in 0..MaxFaults
  BY DEF IInv, TypeOK, Stop
<1> QED BY <1>1, ExitKeeps DEF Stop

LEMMA FailKeeps == ASSUME IInv, NEW r \in Releasers, Fail(r) PROVE IInv'
<1>1. faults' \in 0..MaxFaults
  BY ReleaseAssumption DEF IInv, TypeOK, Fail
<1> QED BY <1>1, ExitKeeps DEF Fail

\* A report at the end of a run, after a step that at most adds tags to the origin, is
\* true if it says of the clone and of the origin what the step leaves there.
LEMMA ReadyKeeps ==
  ASSUME IInv, NEW r \in Releasers, pc[r] # "idle",
         NEW tag \in BOOLEAN, NEW pushed \in BOOLEAN, Ready(r, tag, pushed),
         origin' \in [heads : Heads, tags : Refs], origin'.heads = origin.heads,
         \A v \in Versions :
           /\ origin'.tags[v] \in Made \cup {None}
           /\ origin.tags[v] # None => origin'.tags[v] = origin.tags[v],
         tag => clone[r].tags[job[r].want] # None,
         pushed => tag /\ origin'.tags[job[r].want] = clone[r].tags[job[r].want]
  PROVE  IInv'
<1> DEFINE new == [by |-> r, version |-> job[r].want, tag |-> tag, pushed |-> pushed]
<1>1. UNCHANGED <<made, past, carries, clone, runs, faults>>
  BY DEF Ready, git
<1>2. pc' = [pc EXCEPT ![r] = "idle"] /\ job' = [job EXCEPT ![r] = NoRun]
      /\ reports' = reports \cup {new}
  BY DEF Ready, Exit
<1>3. job[r].want \in Versions
  BY DEF IInv, AtCommand, Run
<1>4. new \in Report /\ new.by = r /\ new.version = job[r].want
      /\ new.tag = tag /\ new.pushed = pushed
  BY <1>3 DEF Report
<1> HIDE DEF new
<1>5. pc'[r] = "idle" /\ \A s \in Releasers : s # r => pc'[s] = pc[s] /\ job'[s] = job[s]
  BY <1>2 DEF IInv, TypeOK
<1>6. TypeOK'
  BY <1>1, <1>2, <1>4 DEF IInv, TypeOK
<1>7. History' /\ RefsAreMade'
  BY <1>1 DEF IInv, History, RefsAreMade, Made
<1>8. \A s \in Releasers : PushedBranch(s)' /\ AtCommand(s)'
  BY <1>1, <1>5 DEF IInv, PushedBranch, AtCommand, Head
<1>9. ReportsAreTrue'
  <2>1. ASSUME NEW t \in reports
        PROVE  /\ t.tag => clone[t.by].tags[t.version] # None
               /\ t.pushed => t.tag /\ origin'.tags[t.version] = clone[t.by].tags[t.version]
    <3>1. t.version \in Versions
      BY DEF IInv, TypeOK, Report
    <3> QED BY <3>1 DEF IInv, ReportsAreTrue
  <2>2. /\ new.tag => clone[new.by].tags[new.version] # None
        /\ new.pushed => new.tag /\ origin'.tags[new.version] = clone[new.by].tags[new.version]
    BY <1>4
  <2>3. reports' = reports \cup {new} /\ clone' = clone
    BY <1>1, <1>2
  <2> QED BY <2>1, <2>2, <2>3 DEF ReportsAreTrue
<1> QED BY <1>6, <1>7, <1>8, <1>9 DEF IInv

\* A run that ends before the push reports a tag only if it has come to it.
LEMMA ReadyInTheClone ==
  ASSUME IInv, NEW r \in Releasers, SkipGit(r) \/ SkipPush(r)
  PROVE  IInv'
<1>1. UNCHANGED origin /\ pc[r] \in {"commit", "push"}
  BY DEF SkipGit, SkipPush
<1>2. origin' \in [heads : Heads, tags : Refs]
      /\ \A v \in Versions : origin'.tags[v] \in Made \cup {None}
  BY <1>1 DEF IInv, TypeOK, RefsAreMade
<1>3. CASE SkipGit(r)
  <2>1. Ready(r, FALSE, FALSE) /\ pc[r] # "idle"
    BY <1>1, <1>3 DEF SkipGit
  <2> QED BY <1>1, <1>2, <2>1, ReadyKeeps
<1>4. CASE SkipPush(r)
  <2>1. Ready(r, TRUE, FALSE) /\ pc[r] # "idle" /\ clone[r].tags[job[r].want] # None
    BY <1>1, <1>4 DEF SkipPush, IInv, AtCommand
  <2> QED BY <1>1, <1>2, <2>1, ReadyKeeps
<1> QED BY <1>3, <1>4

\* A command that leaves the clone and the job, and goes on to the next.
LEMMA GoOnKeeps ==
  ASSUME IInv, NEW r \in Releasers, UNCHANGED <<git, origin, clone, reports, runs, faults>>,
         NEW next \in {"check", "tag"}, Goto(r, next), pc[r] \in {"commit", "check"},
         pc[r] = "commit" => ~job[r].bump
  PROVE  IInv'
<1>1. clone[r] \in Clone /\ clone' = [clone EXCEPT ![r] = clone[r]]
      /\ job[r] \in Run \cup {NoRun} /\ job' = [job EXCEPT ![r] = job[r]]
      /\ runs' \in 0..MaxRuns /\ faults' \in 0..MaxFaults
  BY DEF IInv, TypeOK, Goto
<1>2. RefsStay(clone[r], r)
  BY DEF IInv, RefsAreMade, RefsStay
<1>3. pc'[r] = next /\ pc' = [pc EXCEPT ![r] = next] /\ job'[r] = job[r]
  BY DEF IInv, TypeOK, Goto
<1>4. AtCommand(r)'
  BY <1>3 DEF IInv, AtCommand, Head, git
<1> QED BY <1>1, <1>2, <1>3, <1>4, LocalStepKeeps

\* A run begins with its version in the working tree.
LEMMA WriteKeeps ==
  ASSUME IInv, NEW r \in Releasers, NEW new \in Versions, NEW bump \in BOOLEAN,
         pc[r] = "idle", Write(r, new, bump)
  PROVE  IInv'
<1> DEFINE j == [want |-> new, bump |-> bump, updated |-> clone[r].tree # new]
           c == [clone[r] EXCEPT !.tree = new]
<1>1. j \in Run \cup {NoRun} /\ job' = [job EXCEPT ![r] = j]
  BY DEF Run, Write
<1>2. c \in Clone /\ c.heads = clone[r].heads /\ c.tags = clone[r].tags /\ c.tree = new
  BY DEF IInv, TypeOK, Clone
<1>3. clone' = [clone EXCEPT ![r] = c]
  BY DEF IInv, TypeOK, Write
<1>4. pc' = [pc EXCEPT ![r] = "commit"] /\ UNCHANGED <<git, origin, reports, faults>>
      /\ runs < MaxRuns /\ runs' = runs + 1
  BY DEF Write
<1>5. clone'[r] = c /\ pc'[r] = "commit" /\ job'[r] = j /\ j \in Run /\ j.want = new
  BY <1>1, <1>3, <1>4 DEF IInv, TypeOK, Run
<1> HIDE DEF c, j
<1>6. RefsStay(c, r)
  BY <1>2 DEF IInv, RefsAreMade, RefsStay
<1>7. AtCommand(r)'
  BY <1>2, <1>5 DEF AtCommand
<1>8. faults' \in 0..MaxFaults /\ runs' \in 0..MaxRuns
  BY <1>4, ReleaseAssumption DEF IInv, TypeOK
<1> QED BY <1>1, <1>2, <1>3, <1>4, <1>6, <1>7, <1>8, LocalStepKeeps

LEMMA BumpKeeps == ASSUME IInv, NEW r \in Releasers, Bump(r) PROVE IInv'
BY WriteKeeps DEF Bump

LEMMA NamedKeeps == ASSUME IInv, NEW r \in Releasers, Named(r) PROVE IInv'
BY WriteKeeps DEF Named

\* The commit carries the version that the run is to tag.
LEMMA CommitKeeps == ASSUME IInv, NEW r \in Releasers, Commit(r) PROVE IInv'
<1>1. CASE job[r].updated \/ job[r].bump
  <2>1. MakeCommit(r)
    BY <1>1 DEF Commit
  <2>2. clone[r] \in Clone /\ clone[r].tags \in Refs /\ clone[r].tree \in Versions
        /\ {Head(r)} \in SUBSET Made
    BY HeadIsMade DEF IInv, TypeOK, Clone
  <2>3. clone' = [clone EXCEPT ![r] =
          [at |-> clone[r].at, heads |-> [clone[r].heads EXCEPT ![clone[r].at] = made + 1],
           tags |-> clone[r].tags, tree |-> clone[r].tree]]
    <3> DEFINE heads == [clone[r].heads EXCEPT ![clone[r].at] = made + 1]
    <3>1. clone' = [clone EXCEPT ![r] = [clone[r] EXCEPT !.heads = heads]]
      BY <2>1 DEF MakeCommit
    <3> HIDE DEF heads
    <3>2. [clone[r] EXCEPT !.heads = heads] =
            [at |-> clone[r].at, heads |-> heads, tags |-> clone[r].tags, tree |-> clone[r].tree]
      BY <2>2 DEF Clone
    <3> QED BY <3>1, <3>2 DEF heads
  <2>4. \A v \in Versions : clone[r].tags[v] \in Made \cup {None}
    BY DEF IInv, RefsAreMade
  <2>5. job[r] \in Run /\ clone[r].tree = job[r].want
    BY DEF IInv, AtCommand, Commit
  <2>6. pc' = [pc EXCEPT ![r] = "check"] /\ UNCHANGED job
    BY <2>1 DEF MakeCommit, Goto
  <2>7. NewCommit({Head(r)}, clone[r].tree) /\ UNCHANGED <<origin, reports, runs, faults>>
    BY <2>1 DEF MakeCommit
  <2> QED BY <2>2, <2>3, <2>4, <2>5, <2>6, <2>7, CommittingStepKeeps
<1>2. CASE ~(job[r].updated \/ job[r].bump)
  BY <1>2, GoOnKeeps DEF Commit
<1> QED BY <1>1, <1>2

LEMMA SkipCheckKeeps == ASSUME IInv, NEW r \in Releasers, SkipCheck(r) PROVE IInv'
BY GoOnKeeps DEF SkipCheck

\* A check fetches tags.
LEMMA CheckUpToDateKeeps == ASSUME IInv, NEW r \in Releasers, CheckUpToDate(r) PROVE IInv'
<1> DEFINE upToDate == Contains(clone[r].heads["main"], origin.heads["main"])
           c == [clone[r] EXCEPT !.tags = Followed(r)]
           next == IF upToDate THEN "tag" ELSE "idle"
           j == IF upToDate THEN job[r] ELSE NoRun
<1>1. clone' = [clone EXCEPT ![r] = c]
  BY DEF CheckUpToDate
<1>2. c \in Clone /\ c.heads = clone[r].heads /\ c.at = clone[r].at /\ c.tags = Followed(r)
  BY FollowedKeeps DEF IInv, TypeOK, Clone
<1>3. job[r] \in Run
  BY DEF IInv, AtCommand, CheckUpToDate
<1>4. j \in Run \cup {NoRun} /\ job' = [job EXCEPT ![r] = j]
  BY <1>3 DEF IInv, TypeOK, CheckUpToDate, Goto, Exit
<1>5. next \in {"idle", "tag"} /\ pc' = [pc EXCEPT ![r] = next] /\ (next = "tag" => j = job[r])
  BY DEF CheckUpToDate, Goto, Exit
<1>6. UNCHANGED <<git, origin, reports, runs, faults>>
      /\ runs' \in 0..MaxRuns /\ faults' \in 0..MaxFaults
  BY DEF IInv, TypeOK, CheckUpToDate
<1> HIDE DEF c, next, j
<1>7. clone'[r] = c /\ pc'[r] = next /\ job'[r] = j
  BY <1>1, <1>4, <1>5 DEF IInv, TypeOK
<1>8. RefsStay(c, r)
  BY <1>2, FollowedKeeps DEF IInv, RefsAreMade, RefsStay
<1>9. AtCommand(r)'
  <2>1. job[r].bump => carries[Head(r)] = job[r].want
    BY DEF IInv, AtCommand, CheckUpToDate
  <2>2. Head(r)' = Head(r)
    BY <1>2, <1>7 DEF Head
  <2> QED BY <1>3, <1>5, <1>6, <1>7, <2>1, <2>2 DEF AtCommand, git
<1> QED BY <1>1, <1>2, <1>4, <1>5, <1>6, <1>8, <1>9, LocalStepKeeps

\* A new tag is on the HEAD of the clone; another one stays.
LEMMA TagKeeps == ASSUME IInv, NEW r \in Releasers, Tag(r) PROVE IInv'
<1> DEFINE want == job[r].want
           tags == [clone[r].tags EXCEPT ![want] = IF @ = None THEN Head(r) ELSE @]
           c == [clone[r] EXCEPT !.tags = tags]
<1>1. clone' = [clone EXCEPT ![r] = c]
  BY DEF Tag
<1>2. clone[r] \in Clone /\ clone[r].tags \in Refs /\ Head(r) \in Commits /\ Head(r) \in Made
  BY HeadIsMade DEF IInv, TypeOK, Clone
<1>3. job[r] \in Run /\ want \in Versions
  BY DEF IInv, AtCommand, Tag, Run
<1>4. tags \in Refs /\ tags[want] # None
      /\ \A v \in Versions : /\ tags[v] \in {clone[r].tags[v], Head(r)}
                             /\ clone[r].tags[v] # None => tags[v] = clone[r].tags[v]
  BY <1>2, <1>3, ReleaseAssumption DEF Refs
<1> HIDE DEF tags
<1>5. c \in Clone /\ c.heads = clone[r].heads /\ c.tags = tags
  BY <1>2, <1>4 DEF Clone
<1>6. pc' = [pc EXCEPT ![r] = "push"] /\ job' = [job EXCEPT ![r] = job[r]]
      /\ job[r] \in Run \cup {NoRun}
  BY <1>3 DEF Tag, Goto, IInv, TypeOK
<1>7. UNCHANGED <<git, origin, reports, runs, faults>>
      /\ runs' \in 0..MaxRuns /\ faults' \in 0..MaxFaults
  BY DEF IInv, TypeOK, Tag
<1> HIDE DEF c
<1>8. clone'[r] = c /\ pc'[r] = "push" /\ job'[r] = job[r]
  BY <1>1, <1>6 DEF IInv, TypeOK
<1>9. RefsStay(c, r)
  BY <1>2, <1>4, <1>5 DEF IInv, RefsAreMade, RefsStay
<1>10. AtCommand(r)'
  BY <1>3, <1>4, <1>5, <1>8 DEF AtCommand
<1> QED BY <1>1, <1>5, <1>6, <1>7, <1>9, <1>10, LocalStepKeeps

\* The origin's branch moves forward, so what it reached it still reaches.
LEMMA PushBranchMovesForward ==
  ASSUME IInv, NEW r \in Releasers, PushBranch(r)
  PROVE  /\ origin' \in [heads : Heads, tags : Refs] /\ origin'.tags = origin.tags
         /\ origin'.heads[clone[r].at] = Head(r)
         /\ \A b \in Branches : /\ origin'.heads[b] \in Made
                                /\ past[origin.heads[b]] \subseteq past[origin'.heads[b]]
<1> DEFINE heads == [origin.heads EXCEPT ![clone[r].at] = Head(r)]
<1>1. origin' = [origin EXCEPT !.heads = heads]
      /\ past[origin.heads[clone[r].at]] \subseteq past[Head(r)]
  BY DEF PushBranch, Contains
<1>2. clone[r].at \in Branches /\ Head(r) \in Made /\ Head(r) \in Commits
  BY HeadIsMade
<1>3. origin \in [heads : Heads, tags : Refs]
  BY DEF IInv, TypeOK
<1>4. heads \in Heads /\ heads[clone[r].at] = Head(r)
      /\ \A b \in Branches : b # clone[r].at => heads[b] = origin.heads[b]
  BY <1>2, <1>3 DEF Heads
<1> HIDE DEF heads
<1>5. origin' \in [heads : Heads, tags : Refs] /\ origin'.heads = heads /\ origin'.tags = origin.tags
  BY <1>1, <1>3, <1>4
<1>6. \A b \in Branches : heads[b] \in Made /\ past[origin.heads[b]] \subseteq past[heads[b]]
  BY <1>1, <1>2, <1>4 DEF IInv, RefsAreMade
<1> QED BY <1>4, <1>5, <1>6

LEMMA PushBranchKeeps == ASSUME IInv, NEW r \in Releasers, PushBranch(r) PROVE IInv'
<1>1. UNCHANGED <<made, past, carries, clone, job, reports, runs, faults>>
      /\ pc' = [pc EXCEPT ![r] = "push_tags"] /\ pc[r] = "push"
  BY DEF PushBranch, Goto, git
<1>2. /\ origin' \in [heads : Heads, tags : Refs] /\ origin'.tags = origin.tags
      /\ origin'.heads[clone[r].at] = Head(r)
      /\ \A b \in Branches : /\ origin'.heads[b] \in Made
                             /\ past[origin.heads[b]] \subseteq past[origin'.heads[b]]
  BY PushBranchMovesForward
<1>3. pc'[r] = "push_tags" /\ \A s \in Releasers : s # r => pc'[s] = pc[s]
  BY <1>1 DEF IInv, TypeOK
<1>4. TypeOK'
  BY <1>1, <1>2 DEF IInv, TypeOK
<1>5. History' /\ RefsAreMade'
  BY <1>1, <1>2 DEF IInv, History, RefsAreMade, Made
<1>6. ASSUME NEW s \in Releasers PROVE PushedBranch(s)'
  <2>1. Head(s)' = Head(s) /\ clone'[s] = clone[s] /\ past' = past
    BY <1>1 DEF Head
  <2>2. CASE s = r
    <3>1. Head(r) \in past[Head(r)]
      BY HeadIsMade DEF IInv, History
    <3> QED BY <1>2, <2>1, <2>2, <3>1 DEF PushedBranch
  <2>3. CASE s # r
    <3>1. clone[s].at \in Branches
      BY HeadIsMade
    <3>2. pc[s] = "push_tags" => Head(s) \in past[origin'.heads[clone[s].at]]
      BY <1>2, <3>1 DEF IInv, PushedBranch
    <3> QED BY <1>3, <2>1, <2>3, <3>2 DEF PushedBranch
  <2> QED BY <2>2, <2>3
<1>7. \A s \in Releasers : AtCommand(s)'
  BY <1>1, <1>3 DEF IInv, AtCommand, Head
<1>8. ReportsAreTrue'
  BY <1>1, <1>2 DEF IInv, ReportsAreTrue
<1> QED BY <1>4, <1>5, <1>6, <1>7, <1>8 DEF IInv

\* A push of the tags moves none that the origin has.
LEMMA PushTagsAdds ==
  ASSUME IInv, NEW r \in Releasers, PushTags(r)
  PROVE  /\ origin' \in [heads : Heads, tags : Refs] /\ origin'.heads = origin.heads
         /\ \A v \in Versions :
              /\ origin.tags[v] # None => origin'.tags[v] = origin.tags[v]
              /\ origin.tags[v] = None => origin'.tags[v] = clone[r].tags[v]
<1> DEFINE tags == [v \in Versions |->
                     IF origin.tags[v] = None THEN clone[r].tags[v] ELSE origin.tags[v]]
<1>1. origin \in [heads : Heads, tags : Refs] /\ clone[r].tags \in Refs
  BY DEF IInv, TypeOK, Clone
<1>2. tags \in Refs
  BY <1>1 DEF Refs
<1>3. \A v \in Versions :
        tags[v] = IF origin.tags[v] = None THEN clone[r].tags[v] ELSE origin.tags[v]
  OBVIOUS
<1>4. origin' = [origin EXCEPT !.tags = tags]
  BY DEF PushTags
<1> HIDE DEF tags
<1> QED BY <1>1, <1>2, <1>3, <1>4

LEMMA PushTagsKeeps == ASSUME IInv, NEW r \in Releasers, PushTags(r) PROVE IInv'
<1>1. /\ origin' \in [heads : Heads, tags : Refs] /\ origin'.heads = origin.heads
      /\ \A v \in Versions :
           /\ origin.tags[v] # None => origin'.tags[v] = origin.tags[v]
           /\ origin.tags[v] = None => origin'.tags[v] = clone[r].tags[v]
  BY PushTagsAdds
<1>2. \A v \in Versions : origin'.tags[v] \in Made \cup {None}
  BY <1>1 DEF IInv, RefsAreMade
<1>3. pc[r] = "push_tags" /\ job[r].want \in Versions /\ clone[r].tags[job[r].want] # None
  BY DEF PushTags, IInv, AtCommand, Run
<1> DEFINE refused == {v \in Versions : clone[r].tags[v] # None
                                       /\ origin.tags[v] \notin {None, clone[r].tags[v]}}
<1>4. refused = {} => Ready(r, TRUE, TRUE)
  BY DEF PushTags, Tagged
<1>5. refused # {} => Exit(r) /\ UNCHANGED <<git, clone, reports, runs, faults>>
  BY DEF PushTags, Tagged
<1>6. CASE refused = {}
  <2>1. origin'.tags[job[r].want] = clone[r].tags[job[r].want]
    BY <1>1, <1>3, <1>6
  <2> QED BY <1>1, <1>2, <1>3, <1>4, <1>6, <2>1, ReadyKeeps
<1>7. CASE refused # {}
  <2>1. UNCHANGED <<made, past, carries, clone, reports, runs, faults>> /\ Exit(r)
    BY <1>5, <1>7 DEF git
  <2>2. pc' = [pc EXCEPT ![r] = "idle"] /\ job' = [job EXCEPT ![r] = NoRun] /\ pc'[r] = "idle"
        /\ \A s \in Releasers : s # r => pc'[s] = pc[s] /\ job'[s] = job[s]
    BY <2>1 DEF IInv, TypeOK, Exit
  <2>3. TypeOK'
    BY <1>1, <2>1, <2>2 DEF IInv, TypeOK
  <2>4. History' /\ RefsAreMade'
    BY <1>1, <1>2, <2>1 DEF IInv, History, RefsAreMade, Made
  <2>5. \A s \in Releasers : PushedBranch(s)' /\ AtCommand(s)'
    BY <1>1, <2>1, <2>2 DEF IInv, PushedBranch, AtCommand, Head
  <2>6. ASSUME NEW t \in reports
        PROVE  /\ t.tag => clone[t.by].tags[t.version] # None
               /\ t.pushed => t.tag /\ origin'.tags[t.version] = clone[t.by].tags[t.version]
    <3>1. t.version \in Versions
      BY DEF IInv, TypeOK, Report
    <3> QED BY <1>1, <3>1 DEF IInv, ReportsAreTrue
  <2>7. ReportsAreTrue'
    BY <2>1, <2>6 DEF ReportsAreTrue
  <2> QED BY <2>3, <2>4, <2>5, <2>7 DEF IInv
<1> QED BY <1>6, <1>7

\* A step beside the script leaves pc and the jobs, and r's run idle.
LEMMA IdleStepKeeps ==
  ASSUME IInv, NEW r \in Releasers, UNCHANGED <<git, origin, pc, job, reports, runs, faults>>,
         pc[r] = "idle", NEW c \in Clone, clone' = [clone EXCEPT ![r] = c],
         RefsStay(c, r)
  PROVE  IInv'
<1>1. pc' = [pc EXCEPT ![r] = "idle"] /\ job' = [job EXCEPT ![r] = job[r]]
      /\ job[r] \in Run \cup {NoRun} /\ runs' \in 0..MaxRuns /\ faults' \in 0..MaxFaults
  BY DEF IInv, TypeOK
<1>2. pc'[r] = "idle"
  BY DEF IInv, TypeOK
<1>3. AtCommand(r)'
  BY <1>2 DEF AtCommand
<1> QED BY <1>1, <1>3, LocalStepKeeps

LEMMA FastForwardKeeps == ASSUME IInv, NEW r \in Releasers, FastForward(r) PROVE IInv'
<1> DEFINE theirs == origin.heads[clone[r].at]
           heads == [clone[r].heads EXCEPT ![clone[r].at] = theirs]
<1>1. clone[r].at \in Branches /\ theirs \in Made /\ theirs \in Commits
  BY HeadIsMade DEF IInv, RefsAreMade
<1>2. clone[r] \in Clone /\ carries[theirs] \in Versions
  BY <1>1 DEF IInv, TypeOK
<1>3. heads \in Heads /\ \A b \in Branches : heads[b] \in {theirs, clone[r].heads[b]}
  BY <1>1, <1>2 DEF Clone, Heads
<1>4. pc[r] = "idle" /\ UNCHANGED <<git, origin, pc, job, reports, runs, faults>>
      /\ clone' = [clone EXCEPT ![r] = [at |-> clone[r].at, heads |-> heads,
                                      tags |-> Followed(r), tree |-> carries[theirs]]]
  BY DEF FastForward, Clean, Pulled
<1> HIDE DEF heads, theirs
<1>5. PICK c \in Clone : /\ c.heads = heads /\ c.tags = Followed(r)
                          /\ clone' = [clone EXCEPT ![r] = c]
  BY <1>1, <1>2, <1>3, <1>4, FollowedKeeps DEF Clone
<1>6. RefsStay(c, r)
  BY <1>1, <1>3, <1>5, FollowedKeeps DEF IInv, RefsAreMade, RefsStay
<1>7. pc[r] = "idle" /\ UNCHANGED <<git, origin, pc, job, reports, runs, faults>>
  BY <1>4
<1> QED BY <1>5, <1>6, <1>7, IdleStepKeeps

LEMMA CheckoutKeeps == ASSUME IInv, NEW r \in Releasers, Checkout(r) PROVE IInv'
<1>1. PICK b \in Branches :
        clone' = [clone EXCEPT ![r] =
          [clone[r] EXCEPT !.at = b, !.tree = carries[clone[r].heads[b]]]]
  BY DEF Checkout
<1> DEFINE c == [clone[r] EXCEPT !.at = b, !.tree = carries[clone[r].heads[b]]]
<1>2. clone[r] \in Clone /\ carries[clone[r].heads[b]] \in Versions
  BY DEF IInv, TypeOK, Clone, Heads
<1>3. c \in Clone /\ c.heads = clone[r].heads /\ c.tags = clone[r].tags
  BY <1>2 DEF Clone
<1>4. pc[r] = "idle" /\ clone' = [clone EXCEPT ![r] = c]
      /\ UNCHANGED <<git, origin, pc, job, reports, runs, faults>>
  BY <1>1 DEF Checkout, Clean
<1> HIDE DEF c
<1>5. RefsStay(c, r)
  BY <1>3 DEF IInv, RefsAreMade, RefsStay
<1> QED BY <1>3, <1>4, <1>5, IdleStepKeeps

LEMMA RestoreKeeps == ASSUME IInv, NEW r \in Releasers, Restore(r) PROVE IInv'
<1> DEFINE c == [clone[r] EXCEPT !.tree = carries[Head(r)]]
<1>1. carries[Head(r)] \in Versions
  BY HeadIsMade DEF IInv, TypeOK
<1>2. c \in Clone /\ c.heads = clone[r].heads /\ c.tags = clone[r].tags
  BY <1>1 DEF IInv, TypeOK, Clone
<1>3. pc[r] = "idle" /\ clone' = [clone EXCEPT ![r] = c]
      /\ UNCHANGED <<git, origin, pc, job, reports, runs, faults>>
  BY DEF Restore
<1> HIDE DEF c
<1>4. RefsStay(c, r)
  BY <1>2 DEF IInv, RefsAreMade, RefsStay
<1> QED BY <1>2, <1>3, <1>4, IdleStepKeeps

\* A merge reaches what both sides do.
LEMMA PullMergeKeeps == ASSUME IInv, NEW r \in Releasers, PullMerge(r) PROVE IInv'
<1> DEFINE parents == {Head(r), origin.heads[clone[r].at]}
<1>1. parents \in SUBSET Made /\ parents \subseteq Commits
  BY HeadIsMade DEF IInv, RefsAreMade
<1>2. PICK side \in parents :
        /\ NewCommit(parents, carries[side])
        /\ clone' = [clone EXCEPT ![r] =
             [at |-> clone[r].at, heads |-> [clone[r].heads EXCEPT ![clone[r].at] = made + 1],
              tags |-> Followed(r), tree |-> carries[side]]]
  BY DEF PullMerge, Pulled
<1>3. carries[side] \in Versions
  BY <1>1 DEF IInv, TypeOK
<1>4. pc' = [pc EXCEPT ![r] = "idle"] /\ UNCHANGED job /\ UNCHANGED <<origin, reports, runs, faults>>
  BY DEF PullMerge, Clean, IInv, TypeOK
<1> HIDE DEF parents
<1>5. Followed(r) \in Refs /\ "idle" \in {"idle", "check"}
  BY FollowedKeeps
<1>6. \A v \in Versions : /\ Followed(r)[v] \in Made \cup {None}
                          /\ clone[r].tags[v] # None => Followed(r)[v] = clone[r].tags[v]
  BY FollowedKeeps
<1>7. PICK tags \in Refs, tree \in Versions : tags = Followed(r) /\ tree = carries[side]
  BY <1>3, <1>5
<1>8. \A v \in Versions : /\ tags[v] \in Made \cup {None}
                          /\ clone[r].tags[v] # None => tags[v] = clone[r].tags[v]
  BY <1>6, <1>7
<1>9. NewCommit(parents, tree)
      /\ clone' = [clone EXCEPT ![r] =
           [at |-> clone[r].at, heads |-> [clone[r].heads EXCEPT ![clone[r].at] = made + 1],
            tags |-> tags, tree |-> tree]]
  BY <1>2, <1>7
<1>10. "idle" \in {"idle", "check"} /\ parents \in SUBSET Made
  BY <1>1
<1> QED BY <1>4, <1>8, <1>9, <1>10, CommittingStepKeeps

\* IInv is inductive.
LEMMA NextKeeps == IInv /\ [Next]_vars => IInv'
<1> SUFFICES ASSUME IInv, [Next]_vars PROVE IInv'
  OBVIOUS
<1>1. CASE UNCHANGED vars
  BY <1>1 DEF vars, git, IInv, TypeOK, History, RefsAreMade, Made, PushedBranch, AtCommand,
              Head, ReportsAreTrue
<1>2. ASSUME NEW r \in Releasers, Version(r) PROVE IInv'
  BY <1>2, BumpKeeps, NamedKeeps, ReadyInTheClone, CommitKeeps, CheckUpToDateKeeps,
     SkipCheckKeeps, TagKeeps, PushBranchKeeps, PushTagsKeeps, StopKeeps
     DEF Version, NothingToCommit, PushRefused
<1>3. ASSUME NEW r \in Releasers, Beside(r) PROVE IInv'
  BY <1>3, FastForwardKeeps, PullMergeKeeps, CheckoutKeeps, RestoreKeeps DEF Beside
<1> QED BY <1>1, <1>2, <1>3, FailKeeps DEF Next

-----------------------------------------------------------------------------
\* IInv holds in every reachable state.
THEOREM Invariance == Spec => []IInv
BY InitIInv, NextKeeps, PTL DEF Spec

\* Every clone, commit, run and report is typed.
THEOREM TypeCorrect == Spec => []TypeOK
<1>1. IInv => TypeOK
  BY DEF IInv
<1> QED BY <1>1, Invariance, PTL

\* The tag a run has named is in its clone, and on the origin too, on the same commit, if
\* the run has said that it pushed.
THEOREM ReportsHold == Spec => []ReportsAreTrue
<1>1. IInv => ReportsAreTrue
  BY DEF IInv
<1> QED BY <1>1, Invariance, PTL

\* A step other than a push of the tags leaves a tag of the origin on its main.
LEMMA OnlyTagPushesStray ==
  ASSUME IInv, NEW r \in Releasers, Version(r) \/ Fail(r) \/ Beside(r), ~PushTags(r),
         NEW v \in Versions, ~OffMain(v)
  PROVE  ~OffMain(v)'
<1> DEFINE main == origin.heads["main"]
<1>1. "main" \in Branches /\ main \in Made
  BY DEF Branches, IInv, RefsAreMade
<1>2. CASE PushBranch(r)
  <2>1. origin'.tags = origin.tags /\ past[main] \subseteq past[origin'.heads["main"]]
    BY <1>1, <1>2, PushBranchMovesForward
  <2>2. UNCHANGED past
    BY <1>2 DEF PushBranch, git
  <2> QED BY <2>1, <2>2 DEF OffMain
<1>3. CASE Commit(r) \/ PullMerge(r)
  <2>1. UNCHANGED origin
    BY <1>3 DEF Commit, MakeCommit, PullMerge
  <2>2. past'[main] = past[main]
    <3>1. CASE UNCHANGED past
      BY <3>1
    <3>2. CASE \E parents \in SUBSET Made, version \in Versions : NewCommit(parents, version)
      BY <1>1, <3>2, NewCommitExtends
    <3>3. CASE Commit(r)
      <4>1. {Head(r)} \in SUBSET Made /\ clone[r].tree \in Versions
        BY HeadIsMade DEF IInv, TypeOK, Clone
      <4> QED BY <3>1, <3>2, <3>3, <4>1 DEF Commit, MakeCommit, git
    <3>4. CASE PullMerge(r)
      <4>1. {Head(r), origin.heads[clone[r].at]} \in SUBSET Made
            /\ \A side \in {Head(r), origin.heads[clone[r].at]} : carries[side] \in Versions
        BY HeadIsMade DEF IInv, TypeOK, RefsAreMade
      <4> QED BY <3>2, <3>4, <4>1 DEF PullMerge
    <3> QED BY <1>3, <3>3, <3>4
  <2> QED BY <2>1, <2>2 DEF OffMain
<1>4. CASE UNCHANGED <<past, origin>>
  BY <1>4 DEF OffMain
<1> QED BY <1>2, <1>3, <1>4 DEF Version, Fail, Beside, Bump, Named, Write, SkipGit, SkipPush,
       Ready, NothingToCommit, Stop, CheckUpToDate, SkipCheck, Tag, PushRefused, FastForward,
       Checkout, Restore, git

\* A tag gets to the origin off its main only from a run on another branch, or from a clone
\* where it was off main already.
THEOREM MainCarriesItsTags == Spec => MainComesWithItsTags
<1> DEFINE Elsewhere(v) == \E r \in Releasers :
             /\ pc[r] = "push_tags" /\ pc'[r] = "idle" /\ origin'.tags[v] = clone[r].tags[v]
             /\ \/ clone[r].at # "main"
                \/ clone[r].tags[v] \notin past[clone[r].heads["main"]]
<1>1. ASSUME IInv, [Next]_vars, NEW v \in Versions, ~OffMain(v), OffMain(v)'
      PROVE  Elsewhere(v)
  <2>1. ~UNCHANGED vars
    BY <1>1 DEF vars, git, OffMain
  <2>2. PICK r \in Releasers : PushTags(r)
    BY <1>1, <2>1, OnlyTagPushesStray DEF Next
  <2>3. /\ origin'.heads = origin.heads
        /\ origin.tags[v] # None => origin'.tags[v] = origin.tags[v]
        /\ origin.tags[v] = None => origin'.tags[v] = clone[r].tags[v]
    BY <1>1, <2>2, PushTagsAdds
  <2>4. pc[r] = "push_tags" /\ pc'[r] = "idle" /\ UNCHANGED past
    BY <1>1, <2>2 DEF PushTags, Ready, Exit, git, IInv, TypeOK
  <2>5. origin'.tags[v] = clone[r].tags[v] /\ clone[r].tags[v] \notin past[origin.heads["main"]]
    BY <1>1, <2>3, <2>4 DEF OffMain
  <2>6. CASE clone[r].at = "main"
    <3>1. clone[r].heads["main"] \in past[origin.heads["main"]]
      BY <1>1, <2>4, <2>6 DEF IInv, PushedBranch, Head
    <3>2. origin.heads["main"] \in Made
      BY <1>1 DEF IInv, RefsAreMade, Branches
    <3>3. past[clone[r].heads["main"]] \subseteq past[origin.heads["main"]]
      BY <1>1, <3>1, <3>2 DEF IInv, History
    <3> QED BY <2>4, <2>5, <3>3
  <2>7. CASE clone[r].at # "main"
    BY <2>4, <2>5, <2>7
  <2> QED BY <2>6, <2>7
<1>2. IInv /\ [Next]_vars =>
        [\A v \in Versions : ~OffMain(v) /\ OffMain(v)' => Elsewhere(v)]_vars
  BY <1>1
<1> QED BY <1>2, Invariance, PTL DEF Spec, MainComesWithItsTags

\* The tag an increment makes is on a commit whose settings carry its version.
THEOREM TagsCarryTheirVersion == Spec => TagCarriesItsVersion
<1> DEFINE Carried(r, v) ==
      pc[r] = "tag" /\ job[r].bump /\ clone[r].tags[v] = None /\ clone'[r].tags[v] # None =>
        carries'[clone'[r].tags[v]] = v
<1>1. ASSUME IInv, [Next]_vars, NEW r \in Releasers, NEW v \in Versions,
             pc[r] = "tag", job[r].bump, clone[r].tags[v] = None, clone'[r].tags[v] # None
      PROVE  carries'[clone'[r].tags[v]] = v
  <2>1. carries[Head(r)] = job[r].want
    BY <1>1 DEF IInv, AtCommand
  <2>2. clone'[r] # clone[r]
    BY <1>1
  <2>3. Tag(r)
    <3>1. ~UNCHANGED clone
      BY <2>2
    <3>2. PICK s \in Releasers : Version(s) \/ Fail(s) \/ Beside(s)
      BY <1>1, <3>1 DEF Next, vars
    <3>3. s = r
      <4>1. \E c : clone' = [clone EXCEPT ![s] = c]
        BY <3>1, <3>2 DEF Version, Beside, Bump, Named, Write, SkipGit, SkipPush, Ready, Commit,
               MakeCommit, NothingToCommit, CheckUpToDate, SkipCheck, Tag, PushBranch,
               PushRefused, PushTags, Stop, Fail, FastForward, PullMerge, Checkout, Restore
      <4> QED BY <4>1, <2>2 DEF IInv, TypeOK
    <3> QED BY <1>1, <3>1, <3>2, <3>3 DEF Version, Beside, Bump, Named, SkipGit, SkipPush, Commit,
           NothingToCommit, CheckUpToDate, SkipCheck, PushBranch, PushRefused, PushTags, Fail,
           FastForward, PullMerge, Checkout, Restore, Clean
  <2>4. UNCHANGED carries /\ clone' = [clone EXCEPT ![r].tags[job[r].want] =
                                        IF @ = None THEN Head(r) ELSE @]
    BY <2>3 DEF Tag, git
  <2>5. clone[r] \in Clone
    BY <1>1 DEF IInv, TypeOK
  <2>6. v = job[r].want /\ clone'[r].tags[v] = Head(r)
    <3>1. clone'[r].tags = [clone[r].tags EXCEPT ![job[r].want] =
                              IF @ = None THEN Head(r) ELSE @]
      BY <2>4, <2>5, <1>1 DEF IInv, TypeOK, Clone
    <3> QED BY <3>1, <1>1, <2>5 DEF Clone, Refs
  <2> QED BY <2>1, <2>4, <2>6
<1>2. IInv /\ [Next]_vars => [\A r \in Releasers, v \in Versions : Carried(r, v)]_vars
  BY <1>1
<1> QED BY <1>2, Invariance, PTL DEF Spec, TagCarriesItsVersion
=============================================================================
