------------------------------- MODULE Identity -------------------------------
(***************************************************************************)
(* Users of an external identity provider: OIDCJWTAuthentication.get_user  *)
(* (authentication/oidc_auth.py), which every request that carries such a  *)
(* token runs before its view.  It creates the user at the first request,  *)
(* follows the provider's name for them and makes their groups those of    *)
(* the token, in one transaction, READ COMMITTED, of several statements.   *)
(* Beside them people sign up, and take names of their own.                *)
(***************************************************************************)
EXTENDS Naturals, FiniteSets

CONSTANTS Requests,     \* requests with a token of the provider, and POST /signup
          Subs,         \* subjects: the `sub` claims
          Bases,        \* preferred usernames
          Roles,        \* role names a token may carry
          Groups,       \* those that are Django groups
          Local,        \* a user created here, who has no subject,
          LocalName,    \* and their name
          MaxSuffix,    \* bound: of the usernames base, base-2, base-3, ...
          NoUser, NoName, NoToken

\* A created user is known by the request that created them.
Users == Requests \cup {Local}
Names == Bases \X (1 .. MaxSuffix)
Plain(base) == <<base, 1>>
Token == [sub : Subs, base : Bases, roles : SUBSET Roles]

ASSUME IdentityAssumption ==
  /\ Groups \subseteq Roles
  /\ Local \notin Requests /\ NoUser \notin Requests \cup {Local}
  /\ MaxSuffix \in Nat \ {0}
  /\ LocalName \in Bases \X {1} /\ NoName \notin Names /\ NoToken \notin Token

VARIABLES username,  \* auth_user: the name of each user who is there
          identity,  \* authentication_externalidentity: the user of each subject
          groups,    \* auth_user_groups
          pc, token, \* per request: its next statement, and what it carries
          user,      \* per request: the user it has found or created
          name,      \* per request: their name, as read, inserted or updated
          seen,      \* per request: their groups, when it last read them
          wrote      \* per request: the tables it has written and not committed

tables == <<username, identity, groups>>
vars == <<tables, pc, token, user, name, seen, wrote>>

InTransaction == {"lookup", "name", "create", "identity", "free", "rename",
                  "compare", "read", "set", "commit"}
SigningUp == {"validate", "insert"}
Ended == {"done", "failed"}

Init ==
  /\ username = [u \in Users |-> IF u = Local THEN LocalName ELSE NoName]
  /\ identity = [s \in Subs |-> NoUser]
  /\ groups = [u \in Users |-> {}]
  /\ pc = [r \in Requests |-> "new"]
  /\ token = [r \in Requests |-> NoToken]
  /\ user = [r \in Requests |-> NoUser]
  /\ name = [r \in Requests |-> NoName]
  /\ seen = [r \in Requests |-> {}]
  /\ wrote = [r \in Requests |-> {}]

Exists(n) == \E u \in Users : username[u] = n

\* Mutant of Wanted: roles that are no Django group are given too.
WantedUnfiltered(r) == token[r].roles

\* Group.objects.filter(name__in=role_names)
Wanted(r) == token[r].roles \cap Groups

\* What user.groups.set() removes and adds.
Changed(r) == (seen[r] \ Wanted(r)) \cup (Wanted(r) \ seen[r])

-----------------------------------------------------------------------------
(* A statement that needs a row another transaction has written waits for  *)
(* that transaction to end.                                                *)

Others(r, table) == {s \in Requests \ {r} : table \in wrote[s]}

FreeName(r, n) ==
  /\ \A s \in Others(r, "user") : name[s] # n
  /\ \A s \in Others(r, "name") : n \notin {name[s], username[user[s]]}
FreeUser(r) == \A s \in Others(r, "name") : user[s] # user[r]
FreeSub(r) == \A s \in Others(r, "identity") : token[s].sub # token[r].sub
FreeGroups(r) == \A s \in Others(r, "groups") :
  user[s] = user[r] => Changed(s) \cap Changed(r) = {}

-----------------------------------------------------------------------------
Goto(r, next) == pc' = [pc EXCEPT ![r] = next]
Writes(r, table) == wrote' = [wrote EXCEPT ![r] = @ \cup {table}]

\* Mutant of Rollback: the user was created outside the transaction.
RollbackKeepingUser(r) ==
  /\ Goto(r, "failed")
  /\ wrote' = [wrote EXCEPT ![r] = {}]
  /\ username' = IF "user" \in wrote[r] THEN [username EXCEPT ![r] = name[r]] ELSE username
  /\ UNCHANGED <<identity, groups, token, user, name, seen>>

\* The transaction raises: all of it is rolled back, and the answer is a 500.
Rollback(r) ==
  /\ Goto(r, "failed")
  /\ wrote' = [wrote EXCEPT ![r] = {}]
  /\ UNCHANGED <<tables, token, user, name, seen>>

Arrive(r) ==
  /\ pc[r] = "new"
  /\ \E t \in Token : token' = [token EXCEPT ![r] = t]
  /\ Goto(r, "lookup")
  /\ UNCHANGED <<tables, user, name, seen, wrote>>

\* ExternalIdentity...filter(sub=sub).first(), with its user.
Lookup(r) ==
  LET u == identity[token[r].sub] IN
  /\ pc[r] = "lookup"
  /\ user' = [user EXCEPT ![r] = IF u = NoUser THEN r ELSE u]
  /\ name' = [name EXCEPT ![r] = IF u = NoUser THEN Plain(token[r].base) ELSE username[u]]
  /\ Goto(r, IF u = NoUser THEN "name" ELSE "free")
  /\ UNCHANGED <<tables, token, seen, wrote>>

\* One turn of the loop of _unique_username.
TryName(r) ==
  /\ pc[r] = "name"
  /\ IF Exists(name[r])
       THEN /\ name[r][2] < MaxSuffix
            /\ name' = [name EXCEPT ![r] = <<@[1], @[2] + 1>>]
            /\ UNCHANGED pc
       ELSE Goto(r, "create") /\ UNCHANGED name
  /\ UNCHANGED <<tables, token, user, seen, wrote>>

\* User.objects.create(): the name may have been taken since it was looked for.
CreateUser(r) ==
  /\ pc[r] = "create" /\ FreeName(r, name[r])
  /\ IF Exists(name[r])
       THEN Rollback(r)
       ELSE Writes(r, "user") /\ Goto(r, "identity")
            /\ UNCHANGED <<tables, token, user, name, seen>>

\* ExternalIdentity.objects.create(): so may the subject.
CreateIdentity(r) ==
  /\ pc[r] = "identity" /\ FreeSub(r)
  /\ IF identity[token[r].sub] # NoUser
       THEN Rollback(r)
       ELSE Writes(r, "identity") /\ Goto(r, "free")
            /\ UNCHANGED <<tables, token, user, name, seen>>

\* The name differs from the provider's, which nobody else has.
NameIsFree(r) ==
  LET n == Plain(token[r].base) IN
  /\ pc[r] = "free"
  /\ Goto(r, IF name[r] # n /\ \A u \in Users \ {user[r]} : username[u] # n
               THEN "rename" ELSE "compare")
  /\ UNCHANGED <<tables, token, user, name, seen, wrote>>

\* user.save(update_fields=["username"])
Rename(r) ==
  LET n == Plain(token[r].base) IN
  /\ pc[r] = "rename" /\ FreeName(r, n) /\ FreeUser(r)
  /\ IF \E u \in Users \ {user[r]} : username[u] = n
       THEN Rollback(r)
       ELSE /\ name' = [name EXCEPT ![r] = n]
            /\ Writes(r, "name") /\ Goto(r, "compare")
            /\ UNCHANGED <<tables, token, user, seen>>

\* Mutant of CompareGroups: a user who has the groups may keep others.
CompareGroupsLoosely(r) ==
  /\ pc[r] = "compare"
  /\ seen' = [seen EXCEPT ![r] = groups[user[r]]]
  /\ Goto(r, IF token[r].roles \subseteq groups[user[r]] THEN "commit" ELSE "read")
  /\ UNCHANGED <<tables, token, user, name, wrote>>

\* _sync_roles: nothing to do for a user who has just the groups of the token.
CompareGroups(r) ==
  /\ pc[r] = "compare"
  /\ seen' = [seen EXCEPT ![r] = groups[user[r]]]
  /\ Goto(r, IF groups[user[r]] = token[r].roles THEN "commit" ELSE "read")
  /\ UNCHANGED <<tables, token, user, name, wrote>>

\* user.groups.set() reads them again,
ReadGroups(r) ==
  /\ pc[r] = "read"
  /\ seen' = [seen EXCEPT ![r] = groups[user[r]]]
  /\ Goto(r, "set")
  /\ UNCHANGED <<tables, token, user, name, wrote>>

\* and removes and adds what differs.
SetGroups(r) ==
  /\ pc[r] = "set" /\ FreeGroups(r)
  /\ Writes(r, "groups")
  /\ Goto(r, "commit")
  /\ UNCHANGED <<tables, token, user, name, seen>>

Commit(r) ==
  LET u == user[r] IN
  /\ pc[r] = "commit"
  /\ username' = IF {"user", "name"} \cap wrote[r] # {}
                   THEN [username EXCEPT ![u] = name[r]] ELSE username
  /\ identity' = IF "identity" \in wrote[r]
                   THEN [identity EXCEPT ![token[r].sub] = u] ELSE identity
  /\ groups' = IF "groups" \in wrote[r]
                 THEN [groups EXCEPT ![u] = (@ \ (seen[r] \ Wanted(r))) \cup (Wanted(r) \ seen[r])]
                 ELSE groups
  /\ wrote' = [wrote EXCEPT ![r] = {}]
  /\ Goto(r, "done")
  /\ UNCHANGED <<token, user, name, seen>>

\* POST /signup: a name of the caller's choice, and no token.
SignUp(r) ==
  /\ pc[r] = "new"
  /\ \E n \in Names : name' = [name EXCEPT ![r] = n]
  /\ user' = [user EXCEPT ![r] = r]
  /\ Goto(r, "validate")
  /\ UNCHANGED <<tables, token, seen, wrote>>

\* serializer.is_valid(): a name that is taken is a 400.
ValidateSignUp(r) ==
  /\ pc[r] = "validate"
  /\ Goto(r, IF Exists(name[r]) THEN "failed" ELSE "insert")
  /\ UNCHANGED <<tables, token, user, name, seen, wrote>>

\* Mutant of InsertSignUp: a name that validation found free is saved, whoever has it.
InsertSignUpAnyway(r) ==
  /\ pc[r] = "insert"
  /\ username' = [username EXCEPT ![r] = name[r]]
  /\ Goto(r, "done")
  /\ UNCHANGED <<identity, groups, token, user, name, seen, wrote>>

\* User.objects.create_user(), a transaction of its own: one taken since is a 500.
InsertSignUp(r) ==
  /\ pc[r] = "insert" /\ FreeName(r, name[r])
  /\ IF Exists(name[r])
       THEN Rollback(r)
       ELSE /\ username' = [username EXCEPT ![r] = name[r]]
            /\ Goto(r, "done")
            /\ UNCHANGED <<identity, groups, token, user, name, seen, wrote>>

\* The worker is killed, or the database ends the transaction.
Abort(r) == pc[r] \in InTransaction \cup SigningUp /\ Rollback(r)

Terminated == (\A r \in Requests : pc[r] \in Ended) /\ UNCHANGED vars

Next ==
  \/ \E r \in Requests :
       \/ Arrive(r) \/ Lookup(r) \/ TryName(r) \/ CreateUser(r) \/ CreateIdentity(r)
       \/ NameIsFree(r) \/ Rename(r) \/ CompareGroups(r) \/ ReadGroups(r) \/ SetGroups(r)
       \/ Commit(r) \/ SignUp(r) \/ ValidateSignUp(r) \/ InsertSignUp(r) \/ Abort(r)
  \/ Terminated

Spec == Init /\ [][Next]_vars

-----------------------------------------------------------------------------
TypeOK ==
  /\ username \in [Users -> Names \cup {NoName}]
  /\ identity \in [Subs -> Requests \cup {NoUser}]
  /\ groups \in [Users -> SUBSET Groups]
  /\ pc \in [Requests -> {"new"} \cup Ended \cup InTransaction \cup SigningUp]
  /\ token \in [Requests -> Token \cup {NoToken}]
  /\ user \in [Requests -> Requests \cup {NoUser}]
  /\ name \in [Requests -> Names \cup {NoName}]
  /\ seen \in [Requests -> SUBSET Groups]
  /\ wrote \in [Requests -> SUBSET {"user", "identity", "name", "groups"}]

\* "only tokens without it go through JIT provisioning" (oidc_auth.py:93-109): however
\* many first requests race, fail or die, every user created for a subject belongs to
\* exactly one subject, who keeps them, and none is left over; no subject gets a user who
\* signed up.
OneUserPerSubject ==
  \A u \in Users :
    LET subjects == {s \in Subs : identity[s] = u} IN
    IF u \in Requests /\ token[u] # NoToken
      THEN username[u] # NoName <=> Cardinality(subjects) = 1
      ELSE subjects = {}

\* No two users have one name, whoever signs up, is created or is renamed at once
\* (_unique_username, oidc_auth.py:131-139, the rename at 113-121, and a name that
\* RegisterSerializer found free): what was looked up is old when it is written.
UsernamesDiffer ==
  \A u, v \in Users : username[u] = username[v] /\ username[u] # NoName => u = v

\* "syncs Django Group membership from the token's roles claim on each request"
\* (oidc_auth.py:11-12): a request leaves its user with the groups of its token
\* and no other, if those it read are still there when it commits.  Of two
\* requests that overlap, each removes and adds only what it found to differ.
GroupsAreThoseOfTheToken ==
  [][\A r \in Requests :
       pc[r] = "commit" /\ pc'[r] = "done" /\ groups[user[r]] = seen[r]
         => groups'[user[r]] = Wanted(r)]_vars
=============================================================================
