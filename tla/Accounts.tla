------------------------------ MODULE Accounts ------------------------------
(***************************************************************************)
(* Accounts, sessions and the handlers that use them: UserService over     *)
(* SqliteUserRepository, AuthService over SessionManager, AuthGuard, the   *)
(* gRPC methods of UserServiceImpl and AuthServiceImpl, and the start-up   *)
(* of main().                                                              *)
(*                                                                         *)
(* A worker is a thread of the gRPC pool running one call.  A step of a    *)
(* worker is one section under Database::mutex or SessionManager::m_mutex  *)
(* with the local code that follows it: nothing is locked between two      *)
(* sections of a call, so the sections of different calls interleave.      *)
(***************************************************************************)
EXTENDS Integers, FiniteSets

CONSTANTS
  Workers,        \* gRPC pool threads
  Names,          \* usernames, and their special members
  EmptyName,      \* the empty username of a request that has none
  SeedName,       \* "admin" of seedInitialAdminIfNeeded
  Passwords,      \* passwords of at least kMinimumPasswordLength characters
  SeedPassword,   \* "admin123" of seedInitialAdminIfNeeded
  NoPassword,     \* the empty password: an update that keeps the old one
  ShortPassword,  \* any other password that is too short
  Tokens,         \* the outcomes of generateToken (a bound on the logins)
  NoToken,        \* a call without an authorization header
  MaxId,          \* the largest rowid: past it an INSERT fails (SQLITE_FULL)
  Faults          \* TRUE: a statement, or hashing a password, may fail

ASSUME AccountsAssumption ==
  /\ SeedName \in Names
  /\ EmptyName \notin Names
  /\ SeedPassword \in Passwords
  /\ {NoPassword, ShortPassword} \cap Passwords = {}
  /\ NoPassword # ShortPassword
  /\ NoToken \notin Tokens
  /\ MaxId \in Nat \ {0}
  /\ Faults \in BOOLEAN

VARIABLES
  users,     \* the rows of table users
  lastId,    \* sqlite_sequence: the last id an AUTOINCREMENT handed out
  sessions,  \* m_sessions: the User each live token stands for
  issued,    \* every token ever generated (no variable of the code)
  calls,     \* per worker, the call it runs and where it stands
  up         \* the process is running

vars == <<users, lastId, sessions, issued, calls, up>>

Roles == {"User", "Admin"}
Ids == 1..MaxId
AskedPasswords == Passwords \union {NoPassword, ShortPassword}
Statuses == {"none", "OK", "UNAUTHENTICATED", "PERMISSION_DENIED",
             "INVALID_ARGUMENT", "NOT_FOUND", "UNKNOWN"}
Places == {"idle", "createLookup", "createInsert", "updateRead", "updateRole",
           "updatePassword", "deleteRead", "deleteRemove", "listRead",
           "loginSession"}

Hash(password) == <<"hash", password>>
Verify(password, hash) == hash = Hash(password)
Hashes == {Hash(p) : p \in Passwords}

Row == [id : Ids, username : Names, hash : Hashes, role : Roles]
Session == [token : Tokens, id : Ids, username : Names, role : Roles]

(***************************************************************************)
(* id and name hold what a call carries from one section to the next: the  *)
(* id asked for and the username of the row it was found in.  token is the *)
(* one a guarded call came with.  reply is the status of the worker's last *)
(* finished call.                                                          *)
(***************************************************************************)
Call == [pc : Places, id : Ids \union {0}, name : Names \union {EmptyName},
         password : AskedPasswords, role : Roles,
         token : Tokens \union {NoToken}, reply : Statuses]

Blank == [pc |-> "idle", id |-> 0, name |-> EmptyName,
          password |-> NoPassword, role |-> "User", token |-> NoToken,
          reply |-> "none"]

Answered(status) == [Blank EXCEPT !.reply = status]
Become(w, call) == calls' = [calls EXCEPT ![w] = call]
Answer(w, status) == Become(w, Answered(status))
Goto(w, place) == Become(w, [calls[w] EXCEPT !.pc = place])
At(w, place) == up /\ calls[w].pc = place

-----------------------------------------------------------------------------
(* SqliteUserRepository: one operator per statement.  A SELECT that fails   *)
(* at once or on the way finds fewer rows than there are, a failed INSERT,  *)
(* UPDATE or DELETE changes nothing.                                        *)

FindAll == IF Faults THEN SUBSET users ELSE {users}
FindCredentials(name) == {r \in users : r.username = name}
Absent(name) == FindCredentials(name) = {} \/ Faults

\* Mutant: a primary key without AUTOINCREMENT takes the largest id plus one.
LargestIdPlusOne ==
  CHOOSE i \in Ids \union {MaxId + 1} :
    /\ \A r \in users : r.id < i
    /\ i = 1 \/ \E r \in users : r.id = i - 1
NextRowId == lastId + 1
\* Mutants: no UNIQUE on username; no limit on the rowid.
CanInsertTwice(name) == NextRowId \in Ids
CanInsertPastMaxId(name) == FindCredentials(name) = {}
CanInsert(name) == NextRowId \in Ids /\ FindCredentials(name) = {}
Insert(name, password, role) ==
  /\ CanInsert(name)
  /\ users' = users \union {[id |-> NextRowId, username |-> name,
                             hash |-> Hash(password), role |-> role]}
  /\ lastId' = NextRowId

Has(id) == \E r \in users : r.id = id
Remove(id) == users' = {r \in users : r.id # id}
SetRole(id, role) ==
  users' = {IF r.id = id THEN [r EXCEPT !.role = role] ELSE r : r \in users}
SetPassword(id, password) ==
  users' = {IF r.id = id THEN [r EXCEPT !.hash = Hash(password)] ELSE r
              : r \in users}

-----------------------------------------------------------------------------
(* AuthGuard, SessionManager and AuthService.                               *)

SessionsOf(token) == {s \in sessions : s.token = token}

\* Mutant: any session will do for a handler of administrators.
AnySession(w, token, minimum, call) ==
  \/ SessionsOf(token) = {} /\ Answer(w, "UNAUTHENTICATED")
  \/ SessionsOf(token) # {} /\ Become(w, call)

\* requireRole: the role compared is the one the session was created with.
RequireRole(w, token, minimum, call) ==
  \/ SessionsOf(token) = {} /\ Answer(w, "UNAUTHENTICATED")
  \/ \E s \in SessionsOf(token) :
       IF minimum = "Admin" /\ s.role # "Admin"
         THEN Answer(w, "PERMISSION_DENIED")
         ELSE Become(w, call)

\* Mutant: a generator that starts over with the process.
TokensOfThisProcess == Tokens \ {s.token : s \in sessions}
FreshTokens == Tokens \ issued
LoggingIn == {w \in Workers : calls[w].pc = "loginSession"}

\* The credentials are read and verified; createSession is a later section.
Login(w, name, password) ==
  /\ At(w, "idle")
  /\ \/ Absent(name) /\ Answer(w, "UNAUTHENTICATED")
     \/ \E r \in FindCredentials(name) :
          IF Verify(password, r.hash)
            THEN /\ Cardinality(LoggingIn) < Cardinality(FreshTokens)
                 /\ Become(w, [Blank EXCEPT !.pc = "loginSession", !.id = r.id,
                                            !.name = name, !.role = r.role])
            ELSE Answer(w, "UNAUTHENTICATED")
  /\ UNCHANGED <<users, lastId, sessions, issued, up>>

CreateSession(w) ==
  /\ At(w, "loginSession")
  /\ \E t \in FreshTokens :
       /\ sessions' = sessions \union
            {[token |-> t, id |-> calls[w].id, username |-> calls[w].name,
              role |-> calls[w].role]}
       /\ issued' = issued \union {t}
  /\ Answer(w, "OK")
  /\ UNCHANGED <<users, lastId, up>>

ValidateToken(w, token) ==
  /\ At(w, "idle")
  /\ Answer(w, IF SessionsOf(token) = {} THEN "UNAUTHENTICATED" ELSE "OK")
  /\ UNCHANGED <<users, lastId, sessions, issued, up>>

-----------------------------------------------------------------------------
(* UserServiceImpl and UserService.                                         *)

Unchecked == UNCHANGED <<users, lastId, sessions, issued, up>>
TooShort(password) == password \notin Passwords

CreateUser(w, token, name, password, role) ==
  /\ At(w, "idle")
  /\ RequireRole(w, token, "Admin",
       IF name = EmptyName \/ TooShort(password)
         THEN Answered("INVALID_ARGUMENT")
         ELSE [Blank EXCEPT !.pc = "createLookup", !.name = name,
                            !.password = password, !.role = role,
                            !.token = token])
  /\ Unchecked

CreateUserLookup(w) ==
  /\ At(w, "createLookup")
  /\ \/ FindCredentials(calls[w].name) # {} /\ Answer(w, "INVALID_ARGUMENT")
     \/ Absent(calls[w].name) /\ Goto(w, "createInsert")
     \/ Absent(calls[w].name) /\ Faults /\ Answer(w, "UNKNOWN") \* hash throws
  /\ Unchecked

CreateUserInsert(w) ==
  /\ At(w, "createInsert")
  /\ \/ /\ Insert(calls[w].name, calls[w].password, calls[w].role)
        /\ Answer(w, "OK")
     \/ /\ ~CanInsert(calls[w].name) \/ Faults
        /\ Answer(w, "INVALID_ARGUMENT")
        /\ UNCHANGED <<users, lastId>>
  /\ UNCHANGED <<sessions, issued, up>>

\* Mutants: the comparison off by one; the users counted, not the admins.
IsLastAdminOffByOne(target, seen) ==
  target.role = "Admin" /\ Cardinality({r \in seen : r.role = "Admin"}) < 1
IsLastUser(target, seen) ==
  target.role = "Admin" /\ Cardinality(seen) <= 1
\* adminCount <= 1 in the snapshot findAll returned, for an admin in it.
IsLastAdmin(target, seen) ==
  /\ target.role = "Admin"
  /\ Cardinality({r \in seen : r.role = "Admin"}) <= 1

UpdateUser(w, token, id, password, role) ==
  /\ At(w, "idle")
  /\ RequireRole(w, token, "Admin",
       [Blank EXCEPT !.pc = "updateRead", !.id = id,
                     !.password = password, !.role = role, !.token = token])
  /\ Unchecked

UpdateUserRead(w) ==
  /\ At(w, "updateRead")
  /\ \E seen \in FindAll :
       \/ /\ \A r \in seen : r.id # calls[w].id
          /\ Answer(w, "INVALID_ARGUMENT")
       \/ \E target \in seen :
            /\ target.id = calls[w].id
            /\ IF \/ calls[w].role # "Admin" /\ IsLastAdmin(target, seen)
                  \/ calls[w].password # NoPassword /\ TooShort(calls[w].password)
                 THEN Answer(w, "INVALID_ARGUMENT")
                 ELSE Become(w, [calls[w] EXCEPT !.pc = "updateRole",
                                                 !.name = target.username])
  /\ Unchecked

UpdateUserRole(w) ==
  /\ At(w, "updateRole")
  /\ \/ /\ Has(calls[w].id)
        /\ SetRole(calls[w].id, calls[w].role)
        /\ \/ calls[w].password = NoPassword /\ Answer(w, "OK")
           \/ calls[w].password # NoPassword /\ Goto(w, "updatePassword")
           \/ /\ calls[w].password # NoPassword /\ Faults
              /\ Answer(w, "UNKNOWN")                         \* hash throws
     \/ /\ ~Has(calls[w].id) \/ Faults
        /\ Answer(w, "INVALID_ARGUMENT")
        /\ UNCHANGED users
  /\ UNCHANGED <<lastId, sessions, issued, up>>

\* Mutant: the call goes on only while its row is there.
UpdatePasswordOfRow(w) ==
  /\ At(w, "updatePassword")
  /\ Has(calls[w].id)
  /\ SetPassword(calls[w].id, calls[w].password)
  /\ Answer(w, "OK")
  /\ UNCHANGED <<lastId, sessions, issued, up>>

UpdateUserPassword(w) ==
  /\ At(w, "updatePassword")
  /\ \/ /\ Has(calls[w].id)
        /\ SetPassword(calls[w].id, calls[w].password)
        /\ Answer(w, "OK")
     \/ /\ ~Has(calls[w].id) \/ Faults
        /\ Answer(w, "INVALID_ARGUMENT")
        /\ UNCHANGED users
  /\ UNCHANGED <<lastId, sessions, issued, up>>

DeleteUser(w, token, id) ==
  /\ At(w, "idle")
  /\ RequireRole(w, token, "Admin",
       [Blank EXCEPT !.pc = "deleteRead", !.id = id, !.token = token])
  /\ Unchecked

DeleteUserRead(w) ==
  /\ At(w, "deleteRead")
  /\ \E seen \in FindAll :
       \/ /\ \A r \in seen : r.id # calls[w].id
          /\ Answer(w, "NOT_FOUND")
       \/ \E target \in seen :
            /\ target.id = calls[w].id
            /\ IF IsLastAdmin(target, seen)
                 THEN Answer(w, "NOT_FOUND")
                 ELSE Become(w, [calls[w] EXCEPT !.pc = "deleteRemove",
                                                 !.name = target.username])
  /\ Unchecked

\* Mutant: numRowsAffected is not looked at.
RemoveAnyway(w) ==
  /\ At(w, "deleteRemove")
  /\ Remove(calls[w].id)
  /\ Answer(w, "OK")
  /\ UNCHANGED <<lastId, sessions, issued, up>>

DeleteUserRemove(w) ==
  /\ At(w, "deleteRemove")
  /\ \/ Has(calls[w].id) /\ Remove(calls[w].id) /\ Answer(w, "OK")
     \/ /\ ~Has(calls[w].id) \/ Faults
        /\ Answer(w, "NOT_FOUND")
        /\ UNCHANGED users
  /\ UNCHANGED <<lastId, sessions, issued, up>>

ListUsers(w, token) ==
  /\ At(w, "idle")
  /\ RequireRole(w, token, "Admin",
       [Blank EXCEPT !.pc = "listRead", !.token = token])
  /\ Unchecked

\* The rows found are the reply; a failed statement replies with none of them.
ListUsersRead(w) == At(w, "listRead") /\ Answer(w, "OK") /\ Unchecked

-----------------------------------------------------------------------------
(* The process.  main() seeds an admin when findAll is empty and ignores    *)
(* whether that worked; no call is served before.  A hash that throws there *)
(* ends main(), so the process stays down: no step.                         *)

Boot ==
  /\ ~up
  /\ up' = TRUE
  /\ \E seen \in FindAll :
       \/ seen # {} /\ UNCHANGED <<users, lastId>>
       \/ seen = {} /\ Insert(SeedName, SeedPassword, "Admin")
       \/ /\ seen = {} /\ (~CanInsert(SeedName) \/ Faults)
          /\ UNCHANGED <<users, lastId>>
  /\ UNCHANGED <<sessions, issued, calls>>

\* The process ends, between any two sections: the calls it served and the
\* sessions are gone, the database file stays.
Crash ==
  /\ up
  /\ up' = FALSE
  /\ sessions' = {}
  /\ calls' = [w \in Workers |-> Blank]
  /\ UNCHANGED <<users, lastId, issued>>

Init ==
  /\ users = {} /\ lastId = 0
  /\ sessions = {} /\ issued = {}
  /\ calls = [w \in Workers |-> Blank]
  /\ up = FALSE

\* A client sends a call to a free worker.
Arrive(w) ==
  \/ \E name \in Names, password \in AskedPasswords : Login(w, name, password)
  \/ \E token \in Tokens \union {NoToken} :
       \/ ValidateToken(w, token)
       \/ ListUsers(w, token)
       \/ \E id \in Ids : DeleteUser(w, token, id)
       \/ \E name \in Names \union {EmptyName}, password \in AskedPasswords,
             role \in Roles : CreateUser(w, token, name, password, role)
       \/ \E id \in Ids, password \in AskedPasswords, role \in Roles :
            UpdateUser(w, token, id, password, role)

\* A worker runs the next section of its call.
Serve(w) ==
  \/ CreateSession(w)
  \/ CreateUserLookup(w) \/ CreateUserInsert(w)
  \/ UpdateUserRead(w) \/ UpdateUserRole(w) \/ UpdateUserPassword(w)
  \/ DeleteUserRead(w) \/ DeleteUserRemove(w)
  \/ ListUsersRead(w)

Next == Boot \/ Crash \/ \E w \in Workers : Arrive(w) \/ Serve(w)

Spec == Init /\ [][Next]_vars

(***************************************************************************)
(* A thread that is inside a call is scheduled again, and a mutex that is  *)
(* only held for one statement is obtained.                                *)
(***************************************************************************)
LiveSpec == Spec /\ \A w \in Workers : WF_vars(Serve(w))

(***************************************************************************)
(* The same system when at most one call at a time stands between the      *)
(* last-admin check of deleteUser or updateUser and its statement.         *)
(***************************************************************************)
Removing(w) == \/ calls[w].pc = "deleteRemove"
               \/ calls[w].pc = "updateRole" /\ calls[w].role # "Admin"
SoloRemoval == \A v, w \in Workers : Removing(v) /\ Removing(w) => v = w
SoloSpec == Init /\ [][Next /\ SoloRemoval']_vars

-----------------------------------------------------------------------------
(* Properties.                                                              *)

\* The tables, the sessions and the calls have the types of the code.
TypeOK ==
  /\ users \subseteq Row
  /\ lastId \in Ids \union {0}
  /\ sessions \subseteq Session
  /\ issued \subseteq Tokens
  /\ calls \in [Workers -> Call]
  /\ up \in BOOLEAN

\* Two createUser calls that both found a name free (UserService.cpp:26) never
\* both store it: the loser is refused by the UNIQUE column.
UsernamesUnique ==
  \A r, s \in users : r.id = s.id \/ r.username = s.username => r = s

\* An id that a session or a call read earlier still means the user it meant
\* then, or nobody: no deletion, creation or restart in between gives a stale
\* id to another user (AUTOINCREMENT, SqliteUserRepository.cpp:24-44).
IdentityStable ==
  \A r \in users :
    /\ \A s \in sessions : s.id = r.id => s.username = r.username
    /\ \A w \in Workers :
         calls[w].pc \in {"updateRole", "deleteRemove", "loginSession"}
           /\ calls[w].id = r.id => calls[w].name = r.username

\* A token that was ever issued may stop being accepted, at a restart, but it
\* never comes to stand for another user and is never accepted again
\* (generateToken, SessionManager::createSession).
TokenMeaning == [][\A t \in issued : SessionsOf(t)' \subseteq SessionsOf(t)]_vars

\* While the process runs, the accounts are changed only by a call that carries
\* the token of an administrator: neither a call without one, nor the session of
\* a plain user, nor a token that an earlier process knew changes anything,
\* whoever else is signed in and wherever the process ends between the guard and
\* the statement (AuthGuard.cpp:20-36, in front of every handler of
\* UserServiceImpl that writes).
OfAdmin(token) == \E s \in SessionsOf(token) : s.role = "Admin"
OnlyAdminsWrite ==
  [][up /\ users' # users =>
       \E w \in Workers : calls'[w] # calls[w] /\ OfAdmin(calls[w].token)]_vars

HasAdmin == \E r \in users : r.role = "Admin"

\* deleteUser and updateUser never take the last administrator away
\* (UserService.cpp:62 and :107).
LastAdminKept == [][HasAdmin => HasAdmin']_vars

\* Whenever calls are served there is an administrator: seeding at start-up and
\* the two last-admin checks together leave no way to be locked out.
ServesAdmin == up => HasAdmin

\* Every call a worker starts is answered, whatever the other calls do.
CallsAnswered ==
  \A w \in Workers : calls[w].pc # "idle" ~> calls[w].pc = "idle"

(***************************************************************************)
(* The handlers implement the abstract store: every reply tells the truth  *)
(* about the effect of its call.                                           *)
(***************************************************************************)
KindOf(call) ==
  CASE call.pc \in {"createLookup", "createInsert"} -> "create"
    [] call.pc \in {"updateRead", "updateRole", "updatePassword"} -> "update"
    [] call.pc \in {"deleteRead", "deleteRemove"} -> "delete"
    [] call.pc \in {"listRead", "loginSession"} -> "other"
    [] call.pc = "idle" -> "none"

RequestOf(call) ==
  LET kind == KindOf(call) IN
  [kind  |-> kind,
   id    |-> IF kind \in {"update", "delete"} THEN call.id ELSE 0,
   name  |-> IF kind = "create" THEN call.name ELSE EmptyName,
   role  |-> IF kind \in {"create", "update"} THEN call.role ELSE "User",
   done  |-> call.pc = "updatePassword",
   reply |-> call.reply]

AccountsByName ==
  [n \in {r.username : r \in users} |->
     LET row == CHOOSE r \in users : r.username = n
     IN  [id |-> row.id, role |-> row.role]]

Store == INSTANCE AccountStore
           WITH accounts <- AccountsByName,
                usedIds  <- 1..lastId,
                requests <- [w \in Workers |-> RequestOf(calls[w])]

\* Accounts implements AccountStore.
ImplementsStore == Store!Spec

(***************************************************************************)
(* The sessions, as the client sees them.                                  *)
(***************************************************************************)
Accepted == {s.token : s \in sessions}
Guard == INSTANCE TokenServer WITH accepted <- Accepted

\* The server is the one ClientSession relies on: whatever calls, failures and
\* restarts there are, tokens are issued once and forgotten together
\* (SessionManager.cpp, generateToken).
ImplementsTokenServer == Guard!Spec
=============================================================================
