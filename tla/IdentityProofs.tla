---------------------------- MODULE IdentityProofs ----------------------------
(***************************************************************************)
(* What Identity guarantees for every number of requests, subjects, names  *)
(* and groups: IInv says what a transaction has found or written at each   *)
(* statement, and what the unique indexes keep for it until it ends.       *)
(***************************************************************************)
EXTENDS Identity, FiniteSetTheorems, TLAPS

Later == {"free", "rename", "compare", "read", "set", "commit"}

\* The user of a request's subject: created by it, or found.
Created(r) == user[r] = r /\ "user" \in wrote[r] /\ "identity" \in wrote[r]
Found(r) ==
  /\ identity[token[r].sub] = user[r]
  /\ "user" \notin wrote[r] /\ "identity" \notin wrote[r]

\* What a request has at hand at each statement.
AtStatement(r) ==
  /\ pc[r] = "new" => token[r] = NoToken
  /\ pc[r] \in SigningUp => token[r] = NoToken /\ user[r] = r
  /\ pc[r] \in InTransaction => token[r] \in Token
  /\ pc[r] \notin Later \cup {"identity"} => wrote[r] = {}
  /\ pc[r] \in {"name", "create", "identity"} => user[r] = r
  /\ pc[r] = "identity" => wrote[r] = {"user"}
  /\ pc[r] \in Later => user[r] \in Requests /\ (Created(r) \/ Found(r))
  /\ pc[r] \in Later \cup SigningUp \cup {"name", "create", "identity"} => name[r] \in Names
  /\ pc[r] = "commit" /\ "groups" \notin wrote[r] => seen[r] = token[r].roles

\* A name that is written and not committed: nobody else has it, or has written it.
Naming(r) == "user" \in wrote[r] \/ "name" \in wrote[r]
NameHeld(r) ==
  Naming(r) =>
    /\ \A u \in Users : u # user[r] => username[u] # name[r]
    /\ \A s \in Requests : s # r /\ Naming(s) => name[s] # name[r]

\* So with a subject.
SubHeld(r) ==
  "identity" \in wrote[r] =>
    /\ identity[token[r].sub] = NoUser
    /\ \A s \in Requests : s # r /\ "identity" \in wrote[s] => token[s].sub # token[r].sub

\* Users and subjects, as they are committed.
UsersAndSubjects ==
  /\ \A s \in Subs : LET u == identity[s] IN
       u # NoUser => token[u] \in Token /\ token[u].sub = s /\ username[u] # NoName
  /\ \A r \in Requests : username[r] # NoName =>
       /\ pc[r] = "done"
       /\ token[r] # NoToken => token[r] \in Token /\ identity[token[r].sub] = r

IInv ==
  /\ TypeOK
  /\ \A r \in Requests : AtStatement(r) /\ NameHeld(r) /\ SubHeld(r)
  /\ UsersAndSubjects
  /\ UsernamesDiffer

-----------------------------------------------------------------------------
\* Initially nobody but Local has a name, and no request has arrived.
LEMMA InitIInv == Init => IInv
<1> SUFFICES ASSUME Init PROVE IInv
  OBVIOUS
<1> USE IdentityAssumption
<1>1. LocalName \in Names
  BY DEF Names
<1>2. TypeOK
  BY <1>1 DEF Init, TypeOK, Users
<1>3. \A r \in Requests : AtStatement(r) /\ NameHeld(r) /\ SubHeld(r)
  BY DEF Init, AtStatement, NameHeld, Naming, SubHeld, Later, InTransaction, SigningUp
<1>4. UsersAndSubjects
  BY DEF Init, UsersAndSubjects, Users
<1>5. UsernamesDiffer
  BY DEF Init, UsernamesDiffer
<1> QED BY <1>2, <1>3, <1>4, <1>5 DEF IInv

\* A step of r leaves what the other requests know and have written.
Alone(r) ==
  \A s \in Requests : s # r =>
    /\ pc'[s] = pc[s] /\ token'[s] = token[s] /\ user'[s] = user[s]
    /\ name'[s] = name[s] /\ seen'[s] = seen[s] /\ wrote'[s] = wrote[s]

\* A step that commits nothing: IInv holds after it if it holds of the request that made
\* it, and if what it has written is free.
LEMMA UncommittedKeeps ==
  ASSUME IInv, NEW r \in Requests, TypeOK', Alone(r), UNCHANGED tables,
         pc[r] # "done",
         pc[r] # "new" => token'[r] = token[r],
         AtStatement(r)', NameHeld(r)', SubHeld(r)'
  PROVE  IInv'
<1>1. UNCHANGED <<username, identity, groups>>
  BY DEF tables
<1>2. ASSUME NEW s \in Requests, s # r
      PROVE  AtStatement(s)' /\ NameHeld(s)' /\ SubHeld(s)'
  <2>1. AtStatement(s)'
    BY <1>1, <1>2 DEF IInv, Alone, AtStatement, Created, Found
  <2>2. NameHeld(s)'
    <3>1. ASSUME NEW t \in Requests, t # s, Naming(s)', Naming(t)' PROVE name'[t] # name'[s]
      <4>1. CASE t = r
        BY <3>1, <4>1, <1>2 DEF NameHeld
      <4>2. CASE t # r
        BY <3>1, <4>2, <1>2 DEF IInv, Alone, NameHeld, Naming
      <4> QED BY <4>1, <4>2
    <3>2. Naming(s)' => \A u \in Users : u # user'[s] => username'[u] # name'[s]
      BY <1>1, <1>2 DEF IInv, Alone, NameHeld, Naming
    <3> QED BY <3>1, <3>2 DEF NameHeld
  <2>3. SubHeld(s)'
    <3>1. ASSUME NEW t \in Requests, t # s, "identity" \in wrote'[s], "identity" \in wrote'[t]
          PROVE  token'[t].sub # token'[s].sub
      <4>1. CASE t = r
        BY <3>1, <4>1, <1>2 DEF SubHeld
      <4>2. CASE t # r
        BY <3>1, <4>2, <1>2 DEF IInv, Alone, SubHeld
      <4> QED BY <4>1, <4>2
    <3>2. "identity" \in wrote'[s] => identity'[token'[s].sub] = NoUser
      BY <1>1, <1>2 DEF IInv, Alone, SubHeld
    <3> QED BY <3>1, <3>2 DEF SubHeld
  <2> QED BY <2>1, <2>2, <2>3
<1>3. UsersAndSubjects'
  <2>1. ASSUME NEW s \in Subs, NEW u, u = identity[s], u # NoUser
        PROVE  token'[u] \in Token /\ token'[u].sub = s /\ username'[u] # NoName
    <3>1. u \in Requests
      BY <2>1 DEF IInv, TypeOK
    <3>2. token[u] \in Token /\ token[u].sub = s /\ username[u] # NoName /\ pc[u] = "done"
      BY <2>1, <3>1 DEF IInv, UsersAndSubjects
    <3>3. u # r
      BY <3>2
    <3> QED BY <3>1, <3>2, <3>3, <1>1 DEF Alone
  <2>2. ASSUME NEW s \in Requests, username[s] # NoName
        PROVE  /\ pc'[s] = "done" /\ token'[s] = token[s]
               /\ token[s] # NoToken => token[s] \in Token /\ identity[token[s].sub] = s
    <3>1. pc[s] = "done"
      BY <2>2 DEF IInv, UsersAndSubjects
    <3>2. s # r
      BY <3>1
    <3> QED BY <2>2, <3>1, <3>2 DEF Alone, IInv, UsersAndSubjects
  <2> QED BY <2>1, <2>2, <1>1 DEF UsersAndSubjects
<1>4. UsernamesDiffer'
  BY <1>1 DEF IInv, UsernamesDiffer
<1> QED BY <1>2, <1>3, <1>4 DEF IInv

\* A step that writes nothing new, and changes nothing of what it has written.
LEMMA ReadingKeeps ==
  ASSUME IInv, NEW r \in Requests, TypeOK', Alone(r), UNCHANGED tables,
         pc[r] # "done",
         pc[r] # "new" => token'[r] = token[r],
         AtStatement(r)',
         \/ \A table \in {"user", "name", "identity"} : table \notin wrote'[r]
         \/ /\ \A table \in {"user", "name", "identity"} :
                 table \in wrote'[r] <=> table \in wrote[r]
            /\ name'[r] = name[r] /\ user'[r] = user[r] /\ token'[r] = token[r]
  PROVE  IInv'
<1>1. UNCHANGED <<username, identity, groups>>
  BY DEF tables
<1>2. NameHeld(r)'
  BY <1>1 DEF IInv, Alone, NameHeld, Naming
<1>3. SubHeld(r)'
  BY <1>1 DEF IInv, Alone, SubHeld
<1> QED BY <1>2, <1>3, UncommittedKeeps

-----------------------------------------------------------------------------
(* The steps that only read                                                *)

\* The transaction is undone: nothing of it was in the tables.
LEMMA RollbackKeeps ==
  ASSUME IInv, NEW r \in Requests, Rollback(r), pc[r] \notin {"new", "done"}
  PROVE  IInv'
<1>1. /\ pc' = [pc EXCEPT ![r] = "failed"] /\ wrote' = [wrote EXCEPT ![r] = {}]
      /\ UNCHANGED <<tables, token, user, name, seen>>
  BY DEF Rollback, Goto
<1>2. TypeOK'
  BY <1>1 DEF IInv, TypeOK, tables, Ended
<1>3. Alone(r) /\ pc'[r] = "failed" /\ wrote'[r] = {}
  BY <1>1 DEF IInv, TypeOK, Alone
<1>4. AtStatement(r)'
  BY <1>3 DEF AtStatement, SigningUp, InTransaction, Later
<1> QED BY <1>1, <1>2, <1>3, <1>4, ReadingKeeps

\* A request arrives, with a token or to sign up.
LEMMA ArriveKeeps ==
  ASSUME IInv, NEW r \in Requests, Arrive(r) \/ SignUp(r)
  PROVE  IInv'
<1> USE IdentityAssumption
<1>1. CASE Arrive(r)
  <2>1. PICK t \in Token : token' = [token EXCEPT ![r] = t]
    BY <1>1 DEF Arrive
  <2>2. pc[r] = "new" /\ pc' = [pc EXCEPT ![r] = "lookup"] /\ UNCHANGED <<tables, user, name, seen, wrote>>
    BY <1>1 DEF Arrive, Goto
  <2>3. TypeOK'
    BY <2>1, <2>2 DEF IInv, TypeOK, tables, InTransaction
  <2>4. Alone(r) /\ pc'[r] = "lookup" /\ token'[r] = t
    BY <2>1, <2>2 DEF IInv, TypeOK, Alone
  <2>5. wrote'[r] = {}
    BY <2>2 DEF IInv, AtStatement, Later
  <2>6. AtStatement(r)'
    BY <2>4, <2>5 DEF AtStatement, SigningUp, InTransaction, Later
  <2> QED BY <2>2, <2>3, <2>4, <2>5, <2>6, ReadingKeeps
<1>2. CASE SignUp(r)
  <2>1. PICK n \in Names : name' = [name EXCEPT ![r] = n]
    BY <1>2 DEF SignUp
  <2>2. /\ pc[r] = "new" /\ pc' = [pc EXCEPT ![r] = "validate"]
        /\ user' = [user EXCEPT ![r] = r] /\ UNCHANGED <<tables, token, seen, wrote>>
    BY <1>2 DEF SignUp, Goto
  <2>3. TypeOK'
    BY <2>1, <2>2 DEF IInv, TypeOK, tables, SigningUp
  <2>4. Alone(r) /\ pc'[r] = "validate" /\ name'[r] = n /\ user'[r] = r
    BY <2>1, <2>2 DEF IInv, TypeOK, Alone
  <2>5. wrote'[r] = {} /\ token'[r] = NoToken
    BY <2>2 DEF IInv, AtStatement, Later
  <2>6. AtStatement(r)'
    BY <2>1, <2>4, <2>5 DEF AtStatement, SigningUp, InTransaction, Later
  <2> QED BY <2>2, <2>3, <2>4, <2>5, <2>6, ReadingKeeps
<1> QED BY <1>1, <1>2

\* The user of the subject is looked for, and a name for one who is not there.
LEMMA LookupKeeps ==
  ASSUME IInv, NEW r \in Requests, Lookup(r) \/ TryName(r)
  PROVE  IInv'
<1> USE IdentityAssumption
<1>1. /\ pc[r] \in {"lookup", "name"} /\ UNCHANGED <<tables, token, seen, wrote>>
      /\ \A s \in Requests : s # r => pc'[s] = pc[s] /\ user'[s] = user[s] /\ name'[s] = name[s]
  BY DEF Lookup, TryName, Goto, IInv, TypeOK
<1>2. wrote[r] = {} /\ token[r] \in Token
  BY <1>1 DEF IInv, AtStatement, Later, InTransaction
<1>3. TypeOK' /\ AtStatement(r)'
  <2>1. CASE Lookup(r)
    <3> DEFINE u == identity[token[r].sub]
    <3>1. /\ user' = [user EXCEPT ![r] = IF u = NoUser THEN r ELSE u]
          /\ name' = [name EXCEPT ![r] = IF u = NoUser THEN Plain(token[r].base) ELSE username[u]]
          /\ pc' = [pc EXCEPT ![r] = IF u = NoUser THEN "name" ELSE "free"]
      BY <2>1 DEF Lookup, Goto
    <3>2. token[r].sub \in Subs /\ token[r].base \in Bases /\ u \in Requests \cup {NoUser}
      BY <1>2 DEF Token, IInv, TypeOK
    <3>3. u # NoUser => u \in Requests /\ username[u] \in Names
      BY <3>2 DEF IInv, TypeOK, UsersAndSubjects, Users
    <3>4. Plain(token[r].base) \in Names
      BY <3>2 DEF Plain, Names
    <3> HIDE DEF u
    <3>5. /\ user' \in [Requests -> Requests \cup {NoUser}]
          /\ name' \in [Requests -> Names \cup {NoName}]
          /\ pc' \in [Requests -> {"new"} \cup Ended \cup InTransaction \cup SigningUp]
      BY <3>1, <3>2, <3>3, <3>4 DEF IInv, TypeOK, InTransaction
    <3>6. TypeOK'
      BY <1>1, <3>5 DEF IInv, TypeOK, tables
    <3>7. CASE u = NoUser
      <4>1. pc'[r] = "name" /\ user'[r] = r /\ name'[r] \in Names
        BY <3>1, <3>4, <3>7 DEF IInv, TypeOK
      <4>2. AtStatement(r)'
        BY <4>1, <1>1, <1>2 DEF AtStatement, SigningUp, InTransaction, Later
      <4> QED BY <4>2, <3>6
    <3>8. CASE u # NoUser
      <4>1. pc'[r] = "free" /\ user'[r] = u /\ name'[r] \in Names
        BY <3>1, <3>3, <3>8 DEF IInv, TypeOK
      <4>2. Found(r)'
        BY <4>1, <1>1, <1>2 DEF Found, u, tables
      <4>3. AtStatement(r)'
        BY <4>1, <4>2, <1>1, <1>2, <3>3, <3>8 DEF AtStatement, SigningUp, InTransaction, Later
      <4> QED BY <4>3, <3>6
    <3> QED BY <3>7, <3>8
  <2>2. CASE TryName(r)
    <3>1. pc[r] = "name" /\ name[r] \in Names /\ user[r] = r
      BY <2>2 DEF TryName, IInv, AtStatement
    <3>2. /\ UNCHANGED user
          /\ name' = name \/ (name[r][2] < MaxSuffix
                              /\ name' = [name EXCEPT ![r] = <<name[r][1], name[r][2] + 1>>])
          /\ pc' = pc \/ pc' = [pc EXCEPT ![r] = "create"]
      BY <2>2 DEF TryName, Goto
    <3>3. name[r][2] < MaxSuffix => <<name[r][1], name[r][2] + 1>> \in Names
      BY <3>1 DEF Names
    <3>4. name'[r] \in Names /\ pc'[r] \in {"name", "create"} /\ user'[r] = r
      BY <3>1, <3>2, <3>3 DEF IInv, TypeOK
    <3>5. TypeOK'
      BY <1>1, <3>2, <3>3 DEF IInv, TypeOK, tables, InTransaction
    <3>6. AtStatement(r)'
      BY <1>1, <1>2, <3>4 DEF AtStatement, SigningUp, InTransaction, Later
    <3> QED BY <3>5, <3>6
  <2> QED BY <2>1, <2>2
<1>4. Alone(r)
  BY <1>1 DEF Alone
<1> QED BY <1>1, <1>2, <1>3, <1>4, ReadingKeeps

\* The other statements that only read, and the one that sets the groups.
LEMMA GroupsKeep ==
  ASSUME IInv, NEW r \in Requests,
         NameIsFree(r) \/ CompareGroups(r) \/ ReadGroups(r) \/ SetGroups(r)
  PROVE  IInv'
<1>1. /\ pc[r] \in Later /\ UNCHANGED <<tables, token, user, name>>
      /\ pc' \in [Requests -> {"new"} \cup Ended \cup InTransaction \cup SigningUp]
      /\ seen' \in [Requests -> SUBSET Groups]
      /\ wrote' \in [Requests -> SUBSET {"user", "identity", "name", "groups"}]
      /\ \A s \in Requests : s # r => pc'[s] = pc[s] /\ seen'[s] = seen[s] /\ wrote'[s] = wrote[s]
      /\ wrote'[r] = wrote[r] \/ wrote'[r] = wrote[r] \cup {"groups"}
      /\ pc'[r] \in Later
      /\ pc'[r] = "commit" /\ "groups" \notin wrote'[r] => seen'[r] = token[r].roles
  <2>1. user[r] \in Requests
    <3>1. pc[r] \in Later
      BY DEF NameIsFree, CompareGroups, ReadGroups, SetGroups, Later
    <3> QED BY <3>1 DEF IInv, AtStatement
  <2>2. groups[user[r]] \in SUBSET Groups
    BY <2>1 DEF IInv, TypeOK, Users
  <2>3. CASE NameIsFree(r)
    BY <2>3 DEF NameIsFree, Goto, IInv, TypeOK, Later, InTransaction
  <2>4. CASE CompareGroups(r)
    BY <2>2, <2>4 DEF CompareGroups, Goto, IInv, TypeOK, Later, InTransaction
  <2>5. CASE ReadGroups(r)
    BY <2>2, <2>5 DEF ReadGroups, Goto, IInv, TypeOK, Later, InTransaction
  <2>6. CASE SetGroups(r)
    BY <2>6 DEF SetGroups, Goto, Writes, IInv, TypeOK, Later, InTransaction
  <2> QED BY <2>3, <2>4, <2>5, <2>6
<1>2. /\ token[r] \in Token /\ name[r] \in Names /\ user[r] \in Requests
      /\ Created(r) \/ Found(r)
  BY <1>1 DEF IInv, AtStatement, Later, InTransaction
<1>3. TypeOK' /\ Alone(r)
  BY <1>1 DEF IInv, TypeOK, tables, Alone
<1>4. (Created(r) \/ Found(r))'
  BY <1>1, <1>2 DEF Created, Found, tables
<1>5. AtStatement(r)'
  BY <1>1, <1>2, <1>4 DEF AtStatement, Later, InTransaction, SigningUp
<1>6. \A table \in {"user", "name", "identity"} : table \in wrote'[r] <=> table \in wrote[r]
  BY <1>1
<1> QED BY <1>1, <1>3, <1>5, <1>6, ReadingKeeps DEF Later

-----------------------------------------------------------------------------
(* The steps that write                                                    *)

\* The INSERT of a user: it waits for every other that has written the name.
LEMMA CreateUserKeeps ==
  ASSUME IInv, NEW r \in Requests, CreateUser(r)
  PROVE  IInv'
<1>1. CASE Rollback(r)
  BY <1>1, RollbackKeeps DEF CreateUser
<1>2. CASE ~Rollback(r)
  <2>1. /\ pc[r] = "create" /\ FreeName(r, name[r]) /\ ~Exists(name[r])
        /\ pc' = [pc EXCEPT ![r] = "identity"]
        /\ wrote' = [wrote EXCEPT ![r] = wrote[r] \cup {"user"}]
        /\ UNCHANGED <<tables, token, user, name, seen>>
    BY <1>2 DEF CreateUser, Goto, Writes
  <2>2. wrote[r] = {} /\ user[r] = r /\ name[r] \in Names /\ token[r] \in Token
    BY <2>1 DEF IInv, AtStatement, Later, InTransaction
  <2>3. pc'[r] = "identity" /\ wrote'[r] = {"user"} /\ Alone(r)
    BY <2>1, <2>2 DEF IInv, TypeOK, Alone
  <2>4. TypeOK'
    BY <2>1 DEF IInv, TypeOK, tables, InTransaction
  <2>5. AtStatement(r)'
    BY <2>1, <2>2, <2>3 DEF AtStatement, SigningUp, InTransaction, Later
  <2>6. NameHeld(r)'
    BY <2>1, <2>2, <2>3 DEF NameHeld, Naming, Alone, FreeName, Others, Exists, tables
  <2>7. SubHeld(r)'
    BY <2>3 DEF SubHeld
  <2> QED BY <2>1, <2>3, <2>4, <2>5, <2>6, <2>7, UncommittedKeeps
<1> QED BY <1>1, <1>2

\* The INSERT of the subject: it waits for every other that has written it.
LEMMA CreateIdentityKeeps ==
  ASSUME IInv, NEW r \in Requests, CreateIdentity(r)
  PROVE  IInv'
<1>1. CASE Rollback(r)
  BY <1>1, RollbackKeeps DEF CreateIdentity
<1>2. CASE ~Rollback(r)
  <2>1. /\ pc[r] = "identity" /\ FreeSub(r) /\ identity[token[r].sub] = NoUser
        /\ pc' = [pc EXCEPT ![r] = "free"]
        /\ wrote' = [wrote EXCEPT ![r] = wrote[r] \cup {"identity"}]
        /\ UNCHANGED <<tables, token, user, name, seen>>
    BY <1>2 DEF CreateIdentity, Goto, Writes
  <2>2. wrote[r] = {"user"} /\ user[r] = r /\ name[r] \in Names /\ token[r] \in Token
    BY <2>1 DEF IInv, AtStatement, Later, InTransaction
  <2>3. pc'[r] = "free" /\ wrote'[r] = {"user", "identity"} /\ Alone(r)
    BY <2>1, <2>2 DEF IInv, TypeOK, Alone
  <2>4. TypeOK'
    BY <2>1 DEF IInv, TypeOK, tables, InTransaction
  <2>5. AtStatement(r)'
    BY <2>1, <2>2, <2>3 DEF AtStatement, Created, SigningUp, InTransaction, Later
  <2>6. NameHeld(r)'
    BY <2>1, <2>2, <2>3 DEF IInv, NameHeld, Naming, Alone, tables
  <2>7. SubHeld(r)'
    BY <2>1, <2>3 DEF SubHeld, FreeSub, Others, Alone, tables
  <2> QED BY <2>1, <2>3, <2>4, <2>5, <2>6, <2>7, UncommittedKeeps
<1> QED BY <1>1, <1>2

\* The UPDATE of the name: it too waits.
LEMMA RenameKeeps ==
  ASSUME IInv, NEW r \in Requests, Rename(r)
  PROVE  IInv'
<1>1. CASE Rollback(r)
  BY <1>1, RollbackKeeps DEF Rename
<1>2. CASE ~Rollback(r)
  <2> DEFINE n == Plain(token[r].base)
  <2>1. /\ pc[r] = "rename" /\ FreeName(r, n)
        /\ \A u \in Users : u # user[r] => username[u] # n
        /\ pc' = [pc EXCEPT ![r] = "compare"]
        /\ wrote' = [wrote EXCEPT ![r] = wrote[r] \cup {"name"}]
        /\ name' = [name EXCEPT ![r] = n]
        /\ UNCHANGED <<tables, token, user, seen>>
    BY <1>2 DEF Rename, Goto, Writes
  <2>2. /\ user[r] \in Requests /\ (Created(r) \/ Found(r)) /\ token[r] \in Token
    BY <2>1 DEF IInv, AtStatement, Later, InTransaction
  <2>3. n \in Names
    BY <2>2, IdentityAssumption DEF Plain, Names, Token
  <2> HIDE DEF n
  <2>4. /\ pc'[r] = "compare" /\ wrote'[r] = wrote[r] \cup {"name"} /\ name'[r] = n /\ Alone(r)
    BY <2>1 DEF IInv, TypeOK, Alone
  <2>5. TypeOK'
    BY <2>1, <2>3 DEF IInv, TypeOK, tables, InTransaction
  <2>6. (Created(r) \/ Found(r))'
    BY <2>1, <2>2, <2>4 DEF Created, Found, tables
  <2>7. AtStatement(r)'
    BY <2>1, <2>2, <2>3, <2>4, <2>6 DEF AtStatement, SigningUp, InTransaction, Later
  <2>8. NameHeld(r)'
    BY <2>1, <2>4 DEF NameHeld, Naming, Alone, FreeName, Others, tables
  <2>9. SubHeld(r)'
    BY <2>1, <2>4 DEF IInv, SubHeld, Alone, tables
  <2> QED BY <2>1, <2>4, <2>5, <2>7, <2>8, <2>9, UncommittedKeeps
<1> QED BY <1>1, <1>2

\* The name of a sign-up is looked at, before it is saved.
LEMMA ValidateSignUpKeeps ==
  ASSUME IInv, NEW r \in Requests, ValidateSignUp(r)
  PROVE  IInv'
<1>1. /\ pc[r] = "validate" /\ UNCHANGED <<tables, token, user, name, seen, wrote>>
      /\ pc' = [pc EXCEPT ![r] = IF Exists(name[r]) THEN "failed" ELSE "insert"]
  BY DEF ValidateSignUp, Goto
<1>2. wrote[r] = {} /\ token[r] = NoToken /\ user[r] = r /\ name[r] \in Names
  BY <1>1 DEF IInv, AtStatement, SigningUp, Later
<1>3. pc'[r] \in {"failed", "insert"} /\ Alone(r)
  BY <1>1 DEF IInv, TypeOK, Alone
<1>4. TypeOK'
  BY <1>1 DEF IInv, TypeOK, tables, Ended, SigningUp
<1>5. AtStatement(r)'
  BY <1>1, <1>2, <1>3 DEF AtStatement, SigningUp, InTransaction, Later
<1> QED BY <1>1, <1>2, <1>3, <1>4, <1>5, ReadingKeeps

-----------------------------------------------------------------------------
(* The steps that commit                                                   *)

\* A sign-up saves its name.
LEMMA InsertSignUpKeeps ==
  ASSUME IInv, NEW r \in Requests, InsertSignUp(r)
  PROVE  IInv'
<1>1. CASE Rollback(r)
  BY <1>1, RollbackKeeps DEF InsertSignUp
<1>2. CASE ~Rollback(r)
  <2>1. /\ pc[r] = "insert" /\ FreeName(r, name[r]) /\ ~Exists(name[r])
        /\ username' = [username EXCEPT ![r] = name[r]]
        /\ pc' = [pc EXCEPT ![r] = "done"]
        /\ UNCHANGED <<identity, groups, token, user, name, seen, wrote>>
    BY <1>2 DEF InsertSignUp, Goto
  <2>2. /\ wrote[r] = {} /\ token[r] = NoToken /\ name[r] \in Names /\ name[r] # NoName
    BY <2>1, IdentityAssumption DEF IInv, AtStatement, SigningUp, Later
  <2>3. /\ pc'[r] = "done" /\ username'[r] = name[r]
        /\ \A s \in Requests : s # r => pc'[s] = pc[s]
        /\ \A u \in Users : u # r => username'[u] = username[u]
    BY <2>1 DEF IInv, TypeOK, Users
  <2>4. TypeOK'
    BY <2>1, <2>2 DEF IInv, TypeOK, Ended, Users
  <2>5. ASSUME NEW s \in Requests PROVE AtStatement(s)' /\ NameHeld(s)' /\ SubHeld(s)'
    <3>1. AtStatement(s)'
      <4>1. CASE s = r
        BY <4>1, <2>1, <2>2, <2>3 DEF AtStatement, SigningUp, InTransaction, Later
      <4>2. CASE s # r
        BY <4>2, <2>1, <2>3 DEF IInv, AtStatement, Created, Found
      <4> QED BY <4>1, <4>2
    <3>2. Naming(s) => s # r /\ name[s] # name[r]
      BY <2>1, <2>2 DEF Naming, FreeName, Others
    <3>3. NameHeld(s)'
      BY <2>1, <2>3, <3>2 DEF IInv, NameHeld, Naming
    <3>4. SubHeld(s)'
      BY <2>1 DEF IInv, SubHeld
    <3> QED BY <3>1, <3>3, <3>4
  <2>6. UsersAndSubjects'
    <3>1. \A s \in Subs : identity[s] # NoUser => identity[s] \in Requests
      BY DEF IInv, TypeOK
    <3>2. \A u \in Requests : username[u] # NoName => username'[u] # NoName
      BY <2>2, <2>3 DEF Users
    <3>3. ASSUME NEW u \in Requests, username'[u] # NoName
          PROVE  /\ pc'[u] = "done"
                 /\ token[u] # NoToken => token[u] \in Token /\ identity[token[u].sub] = u
      <4>1. CASE u = r
        BY <4>1, <2>2, <2>3
      <4>2. CASE u # r
        BY <4>2, <3>3, <2>3 DEF IInv, UsersAndSubjects, Users
      <4> QED BY <4>1, <4>2
    <3> QED BY <3>1, <3>2, <3>3, <2>1 DEF IInv, UsersAndSubjects
  <2>7. UsernamesDiffer'
    BY <2>1, <2>3 DEF IInv, UsernamesDiffer, Exists
  <2> QED BY <2>4, <2>5, <2>6, <2>7 DEF IInv
<1> QED BY <1>1, <1>2

\* A transaction commits: the name and the subject it has held become those of its user.
LEMMA CommitKeeps ==
  ASSUME IInv, NEW r \in Requests, Commit(r)
  PROVE  IInv'
<1> DEFINE u == user[r]
           n == IF Naming(r) THEN name[r] ELSE username[u]
           sub == token[r].sub
<1> USE IdentityAssumption
<1>1. /\ pc[r] = "commit" /\ pc' = [pc EXCEPT ![r] = "done"]
      /\ wrote' = [wrote EXCEPT ![r] = {}]
      /\ username' = IF Naming(r) THEN [username EXCEPT ![u] = name[r]] ELSE username
      /\ identity' = IF "identity" \in wrote[r] THEN [identity EXCEPT ![sub] = u] ELSE identity
      /\ groups' = groups \/ groups' =
           [groups EXCEPT ![u] = (@ \ (seen[r] \ Wanted(r))) \cup (Wanted(r) \ seen[r])]
      /\ UNCHANGED <<token, user, name, seen>>
  BY DEF Commit, Goto, Naming
<1>2. /\ u \in Requests /\ u \in Users /\ name[r] \in Names /\ name[r] # NoName
      /\ token[r] \in Token /\ sub \in Subs
      /\ Created(r) \/ Found(r)
  BY <1>1 DEF IInv, AtStatement, Later, InTransaction, Users, Token
<1>3. TypeOK'
  <2>1. username' \in [Users -> Names \cup {NoName}] /\ identity' \in [Subs -> Requests \cup {NoUser}]
    BY <1>1, <1>2 DEF IInv, TypeOK
  <2>2. groups' \in [Users -> SUBSET Groups]
    BY <1>1, <1>2 DEF IInv, TypeOK, Wanted
  <2> QED BY <2>1, <2>2, <1>1 DEF IInv, TypeOK, Ended
<1>4. /\ username'[u] = n /\ \A v \in Users : v # u => username'[v] = username[v]
      /\ pc'[r] = "done" /\ \A s \in Requests : s # r => pc'[s] = pc[s]
      /\ wrote'[r] = {} /\ \A s \in Requests : s # r => wrote'[s] = wrote[s]
  BY <1>1, <1>2 DEF IInv, TypeOK
<1>5. /\ n # NoName
      /\ \A v \in Users : v # u => username[v] # n
      /\ \A s \in Requests : s # r /\ Naming(s) => user[s] = u \/ name[s] # n
  <2>1. CASE Naming(r)
    BY <2>1, <1>2 DEF IInv, NameHeld
  <2>2. CASE ~Naming(r)
    <3>1. Found(r)
      BY <2>2, <1>2 DEF Naming, Created
    <3>2. username[u] # NoName
      BY <3>1, <1>2 DEF Found, IInv, UsersAndSubjects
    <3>3. \A s \in Requests : Naming(s) => user[s] = u \/ name[s] # username[u]
      BY <1>2 DEF IInv, NameHeld
    <3> QED BY <2>2, <3>2, <3>3, <1>2 DEF IInv, UsernamesDiffer
  <2> QED BY <2>1, <2>2
<1>6. /\ "identity" \in wrote[r] => u = r /\ identity[sub] = NoUser
      /\ "identity" \notin wrote[r] => Found(r)
      /\ identity'[sub] = u
      /\ \A s \in Subs : s # sub => identity'[s] = identity[s]
      /\ \A s \in Subs : identity[s] # NoUser => identity'[s] = identity[s]
  <2>1. /\ "identity" \in wrote[r] => u = r /\ identity[sub] = NoUser
        /\ "identity" \notin wrote[r] => Found(r)
    BY <1>2 DEF IInv, SubHeld, Created, Found
  <2> QED BY <2>1, <1>1, <1>2 DEF IInv, TypeOK, Found
<1> HIDE DEF u, n
<1>7. ASSUME NEW s \in Requests PROVE AtStatement(s)' /\ NameHeld(s)' /\ SubHeld(s)'
  <2>1. CASE s = r
    BY <2>1, <1>4 DEF AtStatement, NameHeld, Naming, SubHeld, SigningUp, InTransaction, Later
  <2>2. CASE s # r
    <3>1. Found(s) /\ pc[s] \in Later => Found(s)'
      <4> SUFFICES ASSUME Found(s), pc[s] \in Later PROVE Found(s)'
        OBVIOUS
      <4>1. token[s].sub \in Subs /\ user[s] # NoUser
        BY DEF IInv, AtStatement, Later, InTransaction, Token
      <4> QED BY <4>1, <2>2, <1>1, <1>4, <1>6 DEF Found
    <3>2. Created(s) => Created(s)'
      BY <2>2, <1>1, <1>4 DEF Created
    <3>3. AtStatement(s)'
      BY <3>1, <3>2, <2>2, <1>1, <1>4 DEF IInv, AtStatement
    <3>4. NameHeld(s)'
      <4> SUFFICES ASSUME Naming(s) PROVE NameHeld(s)'
        BY <2>2, <1>4 DEF NameHeld, Naming
      <4>1. ASSUME NEW v \in Users, v # user[s] PROVE username'[v] # name[s]
        BY <4>1, <2>2, <1>4, <1>5 DEF IInv, NameHeld
      <4>2. ASSUME NEW t \in Requests, t # s, Naming(t)' PROVE name[t] # name[s]
        BY <4>2, <1>4 DEF IInv, NameHeld, Naming
      <4> QED BY <4>1, <4>2, <1>1 DEF NameHeld
    <3>5. SubHeld(s)'
      <4> SUFFICES ASSUME "identity" \in wrote[s] PROVE SubHeld(s)'
        BY <2>2, <1>4 DEF SubHeld
      <4>1. pc[s] \in Later
        BY DEF IInv, AtStatement
      <4>2. token[s].sub \in Subs
        BY <4>1 DEF IInv, AtStatement, Later, InTransaction, Token
      <4>3. token[s].sub # sub
        <5>1. CASE "identity" \in wrote[r]
          BY <5>1, <2>2 DEF IInv, SubHeld
        <5>2. CASE "identity" \notin wrote[r]
          <6>1. identity[sub] = u /\ u # NoUser
            BY <5>2, <1>2, <1>6 DEF Found, u
          <6> QED BY <6>1 DEF IInv, SubHeld
        <5> QED BY <5>1, <5>2
      <4>4. \A t \in Requests : t # s /\ "identity" \in wrote'[t] => token[t].sub # token[s].sub
        BY <1>4 DEF IInv, SubHeld
      <4> QED BY <4>2, <4>3, <4>4, <1>1, <1>6 DEF IInv, SubHeld
    <3> QED BY <3>3, <3>4, <3>5
  <2> QED BY <2>1, <2>2
<1>8. UsersAndSubjects'
  <2>1. \A v \in Requests : v \in Users
    BY DEF Users
  <2>2. token[u] \in Token /\ token[u].sub = sub
    <3>1. CASE "identity" \in wrote[r]
      BY <3>1, <1>2, <1>6
    <3>2. CASE "identity" \notin wrote[r]
      BY <3>2, <1>2, <1>6 DEF Found, IInv, UsersAndSubjects, u
    <3> QED BY <3>1, <3>2
  <2>3. ASSUME NEW s \in Subs, NEW v, v = identity'[s], v # NoUser
        PROVE  token[v] \in Token /\ token[v].sub = s /\ username'[v] # NoName
    <3>1. CASE s = sub
      BY <3>1, <2>2, <2>3, <1>4, <1>5, <1>6
    <3>2. CASE s # sub
      <4>1. v = identity[s] /\ v \in Requests
        BY <3>2, <2>3, <1>6 DEF IInv, TypeOK
      <4>2. token[v] \in Token /\ token[v].sub = s /\ username[v] # NoName
        BY <4>1, <2>3 DEF IInv, UsersAndSubjects
      <4> QED BY <4>1, <4>2, <2>1, <1>4, <1>5
    <3> QED BY <3>1, <3>2
  <2>4. ASSUME NEW v \in Requests, username'[v] # NoName
        PROVE  /\ pc'[v] = "done"
               /\ token[v] # NoToken => token[v] \in Token /\ identity'[token[v].sub] = v
    <3>1. CASE v = u /\ v = r
      BY <3>1, <2>2, <1>4, <1>6
    <3>2. CASE v = u /\ v # r
      <4>1. identity[sub] = u
        BY <3>2, <1>6 DEF Found, u
      <4>2. username[v] # NoName /\ pc[v] = "done"
        BY <4>1, <3>2, <1>2 DEF IInv, UsersAndSubjects, u
      <4> QED BY <4>1, <4>2, <3>2, <2>2, <1>4, <1>6
    <3>3. CASE v # u
      <4>1. username[v] # NoName
        BY <3>3, <2>1, <2>4, <1>4
      <4>2. /\ pc[v] = "done"
            /\ token[v] # NoToken => token[v] \in Token /\ identity[token[v].sub] = v
        BY <4>1 DEF IInv, UsersAndSubjects
      <4>3. token[v] \in Token => token[v].sub \in Subs
        BY DEF Token
      <4> QED BY <4>2, <4>3, <1>1, <1>4, <1>6
    <3> QED BY <3>1, <3>2, <3>3
  <2> QED BY <2>3, <2>4, <1>1 DEF UsersAndSubjects
<1>9. UsernamesDiffer'
  BY <1>4, <1>5 DEF IInv, UsernamesDiffer
<1> QED BY <1>3, <1>7, <1>8, <1>9 DEF IInv

-----------------------------------------------------------------------------
\* Every step keeps IInv.
LEMMA NextKeeps ==
  ASSUME IInv, [Next]_vars
  PROVE  IInv'
<1>1. CASE UNCHANGED vars
  <2>1. UNCHANGED <<username, identity, groups, pc, token, user, name, seen, wrote>>
    BY <1>1 DEF vars, tables
  <2>2. TypeOK' /\ UsersAndSubjects' /\ UsernamesDiffer'
    BY <2>1 DEF IInv, TypeOK, UsersAndSubjects, UsernamesDiffer
  <2>3. \A r \in Requests : AtStatement(r)' /\ NameHeld(r)' /\ SubHeld(r)'
    BY <2>1 DEF IInv, AtStatement, Created, Found, NameHeld, Naming, SubHeld
  <2> QED BY <2>2, <2>3 DEF IInv
<1>2. ASSUME NEW r \in Requests, Abort(r) PROVE IInv'
  BY <1>2, RollbackKeeps DEF Abort, InTransaction, SigningUp
<1> QED BY <1>1, <1>2, ArriveKeeps, LookupKeeps, GroupsKeep, CreateUserKeeps, CreateIdentityKeeps,
           RenameKeeps, ValidateSignUpKeeps, InsertSignUpKeeps, CommitKeeps DEF Next, Terminated

\* IInv holds in every reachable state.
THEOREM Invariance == Spec => []IInv
BY InitIInv, NextKeeps, PTL DEF Spec

\* Users, subjects and requests are typed.
THEOREM TypeCorrect == Spec => []TypeOK
<1>1. IInv => TypeOK
  BY DEF IInv
<1> QED BY <1>1, Invariance, PTL

\* No two users have one name, whatever races.
THEOREM NamesAreUnique == Spec => []UsernamesDiffer
<1>1. IInv => UsernamesDiffer
  BY DEF IInv
<1> QED BY <1>1, Invariance, PTL

\* Every user created for a subject belongs to that subject alone, and none is left over.
THEOREM SubjectsKeepTheirUser == Spec => []OneUserPerSubject
<1>1. ASSUME IInv PROVE OneUserPerSubject
  <2> SUFFICES ASSUME NEW u \in Users
               PROVE  LET subjects == {s \in Subs : identity[s] = u} IN
                      IF u \in Requests /\ token[u] # NoToken
                        THEN username[u] # NoName <=> Cardinality(subjects) = 1
                        ELSE subjects = {}
    BY DEF OneUserPerSubject
  <2> DEFINE subjects == {s \in Subs : identity[s] = u}
  <2>1. u # NoUser
    BY IdentityAssumption DEF Users
  <2>2. \A s \in subjects : u \in Requests /\ token[u] \in Token /\ s = token[u].sub /\ username[u] # NoName
    BY <1>1, <2>1 DEF IInv, TypeOK, UsersAndSubjects
  <2>3. CASE u \in Requests /\ token[u] # NoToken
    <3>1. username[u] # NoName => subjects = {token[u].sub}
      <4> SUFFICES ASSUME username[u] # NoName PROVE subjects = {token[u].sub}
        OBVIOUS
      <4>1. token[u] \in Token /\ identity[token[u].sub] = u
        BY <1>1, <2>3 DEF IInv, UsersAndSubjects
      <4>2. token[u].sub \in subjects
        BY <4>1 DEF Token
      <4> QED BY <4>2, <2>2
    <3>2. username[u] = NoName => subjects = {}
      BY <2>2
    <3>3. \A x : Cardinality({x}) = 1
      BY FS_Singleton
    <3>4. Cardinality({}) = 0
      BY FS_EmptySet
    <3> HIDE DEF subjects
    <3>5. username[u] # NoName <=> Cardinality(subjects) = 1
      <4>1. CASE username[u] # NoName
        <5>1. Cardinality(subjects) = 1
          BY <3>1, <3>3, <4>1
        <5> QED BY <4>1, <5>1
      <4>2. CASE username[u] = NoName
        <5>1. Cardinality(subjects) = 0
          BY <3>2, <3>4, <4>2
        <5> QED BY <4>2, <5>1
      <4> QED BY <4>1, <4>2
    <3> QED BY <2>3, <3>5 DEF subjects
  <2>4. CASE ~(u \in Requests /\ token[u] # NoToken)
    BY <2>2, <2>4, IdentityAssumption
  <2> QED BY <2>3, <2>4
<1> QED BY <1>1, Invariance, PTL

\* A request that finds the groups it has read leaves its user those of its token.
THEOREM GroupsFollowTheToken == Spec => GroupsAreThoseOfTheToken
<1> DEFINE Granted(r) ==
      pc[r] = "commit" /\ pc'[r] = "done" /\ groups[user[r]] = seen[r]
        => groups'[user[r]] = Wanted(r)
<1>1. ASSUME IInv, [Next]_vars, NEW r \in Requests,
             pc[r] = "commit", pc'[r] = "done", groups[user[r]] = seen[r]
      PROVE  groups'[user[r]] = Wanted(r)
  <2>1. Commit(r)
    <3>1. ASSUME NEW s \in Requests, Rollback(s) PROVE pc'[r] # "done"
      BY <1>1, <3>1 DEF Rollback, Goto, IInv, TypeOK
    <3>2. UNCHANGED pc => FALSE
      BY <1>1
    <3>3. PICK s \in Requests :
            \/ Arrive(s) \/ Lookup(s) \/ TryName(s) \/ CreateUser(s) \/ CreateIdentity(s)
            \/ NameIsFree(s) \/ Rename(s) \/ CompareGroups(s) \/ ReadGroups(s) \/ SetGroups(s)
            \/ Commit(s) \/ SignUp(s) \/ ValidateSignUp(s) \/ InsertSignUp(s) \/ Abort(s)
      BY <1>1, <3>2 DEF Next, Terminated, vars
    <3>4. Rollback(s) \/ s = r
      <4>1. Rollback(s) \/ \E next : pc' = [pc EXCEPT ![s] = next] \/ UNCHANGED pc
        BY <3>3 DEF Arrive, Lookup, TryName, CreateUser, CreateIdentity, NameIsFree, Rename,
               CompareGroups, ReadGroups, SetGroups, Commit, SignUp, ValidateSignUp,
               InsertSignUp, Abort, Goto
      <4> QED BY <4>1, <3>2, <1>1 DEF IInv, TypeOK
    <3>5. s = r
      <4>1. ~Rollback(s)
        BY <3>1, <1>1
      <4> QED BY <3>4, <4>1
    <3> QED BY <1>1, <3>1, <3>3, <3>5 DEF Arrive, Lookup, TryName, CreateUser, CreateIdentity,
           NameIsFree, Rename, CompareGroups, ReadGroups, SetGroups, SignUp, ValidateSignUp,
           InsertSignUp, Abort
  <2>2. user[r] \in Users /\ seen[r] \subseteq Groups
    BY <1>1 DEF IInv, AtStatement, Later, TypeOK, Users
  <2>3. CASE "groups" \in wrote[r]
    <3>1. groups'[user[r]] = (seen[r] \ (seen[r] \ Wanted(r))) \cup (Wanted(r) \ seen[r])
      BY <2>1, <2>2, <2>3, <1>1 DEF Commit, IInv, TypeOK
    <3> QED BY <3>1
  <2>4. CASE "groups" \notin wrote[r]
    <3>1. groups'[user[r]] = seen[r] /\ seen[r] = token[r].roles
      BY <2>1, <2>4, <1>1 DEF Commit, IInv, AtStatement
    <3> QED BY <3>1, <2>2 DEF Wanted
  <2> QED BY <2>3, <2>4
<1>2. IInv /\ [Next]_vars => [\A r \in Requests : Granted(r)]_vars
  BY <1>1
<1> QED BY <1>2, Invariance, PTL DEF Spec, GroupsAreThoseOfTheToken
=============================================================================
