------------------------------- MODULE Release -------------------------------
(***************************************************************************)
(* scripts/version_manager.py: a release is a row of git commands over a   *)
(* clone and its origin, each of which may fail and leave what came before *)
(* it.  Several people release from clones of their own, from main or from *)
(* a branch beside it that the origin has too: the script asks only that   *)
(* main is not behind, commits and tags HEAD and pushes its branch.  They  *)
(* merge what they pull, never rewrite a branch, and a branch only changes *)
(* by a release (to a run, others' work is a commit it has not pulled).    *)
(* git is modelled from how the script uses it.  A commit is the version   *)
(* its settings file carries and the commits reachable from it; a version  *)
(* is a number, in steps of Radix.  The options --force, --push and        *)
(* --skip-git are chosen where the script looks at them.                   *)
(***************************************************************************)
EXTENDS Integers, FiniteSets, FiniteSetsExt

CONSTANTS Releasers,   \* people, each with a clone
          Explicit,    \* what they may ask for by name: versions, and what is not one
          Radix,       \* bound on the patch numbers of a minor version
          MaxVersion,  \* bound on versions
          MaxCommits,  \* bound on commits
          MaxRuns,     \* bound on the runs of the script
          MaxFaults,   \* bound on commands that fail for reasons of their own
          Seed,        \* the version of the first commit,
          SeedTagged,  \* and whether it has a tag
          None, NoRun  \* no commit, no run

Versions == 0..MaxVersion
Parts == {"patch", "minor"}    \* and "major", to "minor" what that is to "patch"
Commits == 1..MaxCommits
Branches == {"main", "side"}

ASSUME ReleaseAssumption ==
  /\ Radix \in Nat \ {0} /\ MaxVersion \in Nat
  /\ MaxRuns \in Nat /\ MaxFaults \in Nat
  /\ MaxCommits \in Nat \ {0} /\ Seed \in Versions /\ SeedTagged \in BOOLEAN
  /\ None \notin Commits

VARIABLES made,     \* the number of commits made so far
          past,     \* per commit: the commits reachable from it, itself among them
          carries,  \* per commit: the version in its settings file
          origin,   \* the origin: its branches, and per version the commit its tag is on
          clone,    \* per releaser: the branch checked out, the branches, the tags, and
                    \* the version in the working tree
          pc, job,  \* per releaser: next command, and what the run works with
          reports,  \* what runs have printed at their end
          runs,     \* the number of runs begun,
          faults    \* and of commands that have failed for reasons of their own

git == <<made, past, carries>>
vars == <<made, past, carries, origin, clone, pc, job, reports, runs, faults>>

Heads == [Branches -> Commits]
Refs == [Versions -> Commits \cup {None}]
Clone == [at : Branches, heads : Heads, tags : Refs, tree : Versions]

Run == [want : Versions,     \* new_version
        bump : BOOLEAN,      \* the argument was major, minor or patch
        updated : BOOLEAN]   \* the settings file was changed

\* "Version ... ready!", with a tag named or not, and the changes pushed or not.
Report == [by : Releasers, version : Versions, tag : BOOLEAN, pushed : BOOLEAN]

Init ==
  /\ made = 1
  /\ past = [c \in Commits |-> IF c = 1 THEN {1} ELSE {}]
  /\ carries = [c \in Commits |-> Seed]
  /\ LET tags == [v \in Versions |-> IF v = Seed /\ SeedTagged THEN 1 ELSE None]
         heads == [b \in Branches |-> 1]
     IN /\ origin = [heads |-> heads, tags |-> tags]
        /\ clone = [r \in Releasers |->
             [at |-> "main", heads |-> heads, tags |-> tags, tree |-> Seed]]
  /\ pc = [r \in Releasers |-> "idle"]
  /\ job = [r \in Releasers |-> NoRun]
  /\ reports = {}
  /\ runs = 0
  /\ faults = 0

-----------------------------------------------------------------------------
\* git: a new commit on top of parents; HEAD of a clone; tags that a fetch follows.
NewCommit(parents, version) ==
  /\ made < MaxCommits
  /\ made' = made + 1
  /\ past' = [past EXCEPT ![made + 1] = {made + 1} \cup UNION {past[c] : c \in parents}]
  /\ carries' = [carries EXCEPT ![made + 1] = version]

Head(r) == clone[r].heads[clone[r].at]

Fetched(r) ==
  UNION {past[origin.heads[b]] \cup past[clone[r].heads[b]] : b \in Branches}

Followed(r) ==
  [v \in Versions |->
    IF clone[r].tags[v] = None /\ origin.tags[v] \in Fetched(r)
      THEN origin.tags[v] ELSE clone[r].tags[v]]

Contains(c, d) == past[d] \subseteq past[c]

Goto(r, next) == pc' = [pc EXCEPT ![r] = next] /\ UNCHANGED job

\* The script exits, at its end or with the exception that main() prints.
Exit(r) == pc' = [pc EXCEPT ![r] = "idle"] /\ job' = [job EXCEPT ![r] = NoRun]
Stop(r) == Exit(r) /\ UNCHANGED <<git, origin, clone, reports, runs, faults>>

\* The end of version(): what it prints depends on its options.
Ready(r, tag, pushed) ==
  /\ reports' = reports \cup
       {[by |-> r, version |-> job[r].want, tag |-> tag, pushed |-> pushed]}
  /\ Exit(r)
  /\ UNCHANGED <<git, clone, runs, faults>>

Tagged(r) == {v \in Versions : clone[r].tags[v] # None}

\* get_current_version(): the greatest local tag.  The pattern the fall back looks for in
\* the settings is not there, so without a tag the version is 0.0.0.
Current(r) == IF Tagged(r) = {} THEN 0 ELSE Max(Tagged(r))

Increment(v, part) == IF part = "patch" THEN v + 1 ELSE (v \div Radix + 1) * Radix

-----------------------------------------------------------------------------
(* version(), command by command                                           *)

\* The new version is written to the settings file.
Write(r, new, bump) ==
  /\ runs < MaxRuns
  /\ runs' = runs + 1
  /\ job' = [job EXCEPT ![r] =
       [want |-> new, bump |-> bump, updated |-> clone[r].tree # new]]
  /\ clone' = [clone EXCEPT ![r].tree = new]
  /\ pc' = [pc EXCEPT ![r] = "commit"]
  /\ UNCHANGED <<git, origin, reports, faults>>

Bump(r) ==
  /\ pc[r] = "idle"
  /\ \E part \in Parts :
       LET new == Increment(Current(r), part) IN
       /\ new \in Versions /\ (part = "patch" => new % Radix # 0)    \* the bounds
       /\ Write(r, new, TRUE)

\* Mutant of Named: what is asked for is not parsed.
NamedUnparsed(r) ==
  /\ pc[r] = "idle"
  /\ \E new \in Explicit : Write(r, new, FALSE)

\* _parse_version() refuses what is not a version.  A dirty tree needs a "y": with an "N",
\* as with a failure before the file is written, nothing has happened.
Named(r) ==
  /\ pc[r] = "idle"
  /\ \E new \in Explicit \cap Versions : Write(r, new, FALSE)

\* --skip-git, with --push or without: the settings are changed, and that is all.
SkipGit(r) == pc[r] = "commit" /\ Ready(r, FALSE, FALSE) /\ UNCHANGED origin

\* git commit -m: refused when there is nothing to commit.
MakeCommit(r) ==
  /\ clone[r].tree # carries[Head(r)]
  /\ NewCommit({Head(r)}, clone[r].tree)
  /\ clone' = [clone EXCEPT ![r].heads[clone[r].at] = made + 1]
  /\ Goto(r, "check")
  /\ UNCHANGED <<origin, reports, runs, faults>>

\* Mutant of Commit: an increment too commits only what this run has changed.
CommitIfUpdated(r) ==
  /\ pc[r] = "commit"
  /\ IF job[r].updated
       THEN MakeCommit(r)
       ELSE Goto(r, "check") /\ UNCHANGED <<git, origin, clone, reports, runs, faults>>

\* An increment always commits, an explicit version what this run has changed.
Commit(r) ==
  /\ pc[r] = "commit"
  /\ IF job[r].updated \/ job[r].bump
       THEN MakeCommit(r)
       ELSE Goto(r, "check") /\ UNCHANGED <<git, origin, clone, reports, runs, faults>>

NothingToCommit(r) ==
  /\ pc[r] = "commit" /\ (job[r].updated \/ job[r].bump)
  /\ clone[r].tree = carries[Head(r)]
  /\ Stop(r)

\* _check_main_branch_up_to_date(): fetch, and compare main, whatever is checked out.
CheckUpToDate(r) ==
  /\ pc[r] = "check"
  /\ clone' = [clone EXCEPT ![r].tags = Followed(r)]
  /\ IF Contains(clone[r].heads["main"], origin.heads["main"])
       THEN Goto(r, "tag") ELSE Exit(r)
  /\ UNCHANGED <<git, origin, reports, runs, faults>>

\* --force, or a fetch that fails: no check.
SkipCheck(r) ==
  /\ pc[r] = "check"
  /\ Goto(r, "tag")
  /\ UNCHANGED <<git, origin, clone, reports, runs, faults>>

\* git tag, on HEAD.  A tag that exists stays where it is.
Tag(r) ==
  /\ pc[r] = "tag"
  /\ clone' = [clone EXCEPT ![r].tags[job[r].want] = IF @ = None THEN Head(r) ELSE @]
  /\ Goto(r, "push")
  /\ UNCHANGED <<git, origin, reports, runs, faults>>

\* Without --push the run ends here.
SkipPush(r) == pc[r] = "push" /\ Ready(r, TRUE, FALSE) /\ UNCHANGED origin

\* git push: the branch of HEAD, which on the origin is only moved forward.
PushBranch(r) ==
  /\ pc[r] = "push" /\ Contains(Head(r), origin.heads[clone[r].at])
  /\ origin' = [origin EXCEPT !.heads[clone[r].at] = Head(r)]
  /\ Goto(r, "push_tags")
  /\ UNCHANGED <<git, clone, reports, runs, faults>>

\* Mutant of PushRefused: the exit status of git push is not looked at.
PushRefusedUnchecked(r) ==
  /\ pc[r] = "push" /\ ~Contains(Head(r), origin.heads[clone[r].at])
  /\ Goto(r, "push_tags")
  /\ UNCHANGED <<git, origin, clone, reports, runs, faults>>

PushRefused(r) ==
  /\ pc[r] = "push" /\ ~Contains(Head(r), origin.heads[clone[r].at])
  /\ Stop(r)

\* git push --tags: every local tag.  One that the origin has on another commit is
\* refused, the others are pushed, and the command fails.
PushTags(r) ==
  LET refused == {v \in Tagged(r) : origin.tags[v] \notin {None, clone[r].tags[v]}} IN
  /\ pc[r] = "push_tags"
  /\ origin' = [origin EXCEPT !.tags =
       [v \in Versions |-> IF origin.tags[v] = None THEN clone[r].tags[v] ELSE origin.tags[v]]]
  /\ IF refused = {}
       THEN Ready(r, TRUE, TRUE)
       ELSE Exit(r) /\ UNCHANGED <<git, clone, reports, runs, faults>>

\* Mutant of Fail: a push of the tags that fails is not noticed.
FailUnnoticed(r) ==
  /\ pc[r] # "idle" /\ faults < MaxFaults
  /\ faults' = faults + 1
  /\ reports' = IF pc[r] # "push_tags" THEN reports ELSE reports \cup
       {[by |-> r, version |-> job[r].want, tag |-> TRUE, pushed |-> TRUE]}
  /\ Exit(r)
  /\ UNCHANGED <<git, origin, clone, runs>>

\* The next command fails, the build of the image among them, or the run is interrupted.
Fail(r) ==
  /\ pc[r] # "idle" /\ faults < MaxFaults
  /\ faults' = faults + 1
  /\ Exit(r)
  /\ UNCHANGED <<git, origin, clone, reports, runs>>

-----------------------------------------------------------------------------
(* Beside the script                                                       *)

Clean(r) == pc[r] = "idle" /\ clone[r].tree = carries[Head(r)]

\* r's clone when HEAD has moved to a commit of this version, and tags have been fetched.
Pulled(r, head, version) ==
  [at |-> clone[r].at, heads |-> [clone[r].heads EXCEPT ![clone[r].at] = head],
   tags |-> Followed(r), tree |-> version]

\* git pull of the branch checked out, with a clean tree, as the script asks for.
FastForward(r) ==
  LET theirs == origin.heads[clone[r].at] IN
  /\ Clean(r) /\ Contains(theirs, Head(r))
  /\ clone' = [clone EXCEPT ![r] = Pulled(r, theirs, carries[theirs])]
  /\ UNCHANGED <<git, origin, pc, job, reports, runs, faults>>

\* A merge keeps the version of one side or the other, by itself or by hand.
PullMerge(r) ==
  LET ours == Head(r)
      theirs == origin.heads[clone[r].at]
  IN /\ Clean(r) /\ ~Contains(theirs, ours) /\ ~Contains(ours, theirs)
     /\ \E side \in {ours, theirs} :
          /\ NewCommit({ours, theirs}, carries[side])
          /\ clone' = [clone EXCEPT ![r] = Pulled(r, made + 1, carries[side])]
     /\ UNCHANGED <<origin, pc, job, reports, runs, faults>>

\* git checkout of the other branch, with a clean tree.
Checkout(r) ==
  /\ Clean(r)
  /\ \E b \in Branches \ {clone[r].at} :
       clone' = [clone EXCEPT ![r] = [@ EXCEPT !.at = b, !.tree = carries[clone[r].heads[b]]]]
  /\ UNCHANGED <<git, origin, pc, job, reports, runs, faults>>

\* git checkout of the settings file.
Restore(r) ==
  /\ pc[r] = "idle" /\ clone[r].tree # carries[Head(r)]
  /\ clone' = [clone EXCEPT ![r].tree = carries[Head(r)]]
  /\ UNCHANGED <<git, origin, pc, job, reports, runs, faults>>

Version(r) ==
  \/ Bump(r) \/ Named(r) \/ SkipGit(r) \/ Commit(r) \/ NothingToCommit(r)
  \/ CheckUpToDate(r) \/ SkipCheck(r) \/ Tag(r) \/ SkipPush(r)
  \/ PushBranch(r) \/ PushRefused(r) \/ PushTags(r)

Beside(r) == FastForward(r) \/ PullMerge(r) \/ Checkout(r) \/ Restore(r)

Next == \E r \in Releasers : Version(r) \/ Fail(r) \/ Beside(r)

Spec == Init /\ [][Next]_vars

-----------------------------------------------------------------------------
\* Every clone, commit, run and report is typed.
TypeOK ==
  /\ made \in Commits
  /\ past \in [Commits -> SUBSET Commits] /\ carries \in [Commits -> Versions]
  /\ origin \in [heads : Heads, tags : Refs]
  /\ clone \in [Releasers -> Clone]
  /\ pc \in [Releasers -> {"idle", "commit", "check", "tag", "push", "push_tags"}]
  /\ job \in [Releasers -> Run \cup {NoRun}]
  /\ reports \subseteq Report
  /\ runs \in 0..MaxRuns
  /\ faults \in 0..MaxFaults

\* "This ensures we have a commit to tag" (version_manager.py:348): whatever failed runs
\* have left in the clone, on whichever branch, the tag an increment makes is on a commit
\* whose settings carry its version.  Of an explicit version that need not be so.
TagCarriesItsVersion ==
  [][\A r \in Releasers, v \in Versions :
       pc[r] = "tag" /\ job[r].bump /\ clone[r].tags[v] = None /\ clone'[r].tags[v] # None =>
         carries'[clone'[r].tags[v]] = v]_vars

OffMain(v) == origin.tags[v] # None /\ origin.tags[v] \notin past[origin.heads["main"]]

\* Tags are pushed after the branch (version_manager.py:368-371), so a run on main brings
\* main's tags with main: no failure, refusal or race puts a tag on the origin off its
\* main.  Only a run on another branch does, or one that finds in its clone a tag that is
\* not on its own main: the script never looks at the branch it tags and pushes.
MainComesWithItsTags ==
  [][\A v \in Versions : ~OffMain(v) /\ OffMain(v)' =>
       \E r \in Releasers :
         /\ pc[r] = "push_tags" /\ pc'[r] = "idle" /\ origin'.tags[v] = clone[r].tags[v]
         /\ \/ clone[r].at # "main"
            \/ clone[r].tags[v] \notin past[clone[r].heads["main"]]]_vars

\* "Changes pushed to remote" and "Tag: ..." (version_manager.py:372, 376): whatever
\* others push before it, the tag a run names is in its clone, and when it says that it has
\* pushed, the origin has it on the same commit.  "Version ... ready!" alone promises
\* neither: --skip-git prints it too.
ReportsAreTrue ==
  \A t \in reports :
    /\ t.tag => clone[t.by].tags[t.version] # None
    /\ t.pushed => t.tag /\ origin.tags[t.version] = clone[t.by].tags[t.version]
=============================================================================
