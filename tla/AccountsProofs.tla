--------------------------- MODULE AccountsProofs ---------------------------
(***************************************************************************)
(* Theorems about Accounts, for every value of its constants.              *)
(*                                                                         *)
(* Every step of a worker only replaces that worker's call, by one that is *)
(* well formed and, if it carries an id and a username, read both from the *)
(* same row (StepShape).  TypeInv and IdInv are inductive over that.       *)
(***************************************************************************)
EXTENDS Accounts, FiniteSetTheorems, TLAPS

\* What the checks before a section guarantee about the call that reaches it.
WellFormed(c) ==
  /\ c.pc \in {"createLookup", "createInsert"} =>
       c.name \in Names /\ c.password \in Passwords
  /\ c.pc = "loginSession" => c.id \in Ids /\ c.name \in Names
  /\ c.pc = "updateRole" => c.password \in Passwords \union {NoPassword}
  /\ c.pc = "updatePassword" => c.password \in Passwords

TypeInv == TypeOK /\ \A w \in Workers : WellFormed(calls[w])

\* The places where a call holds an id and the username it was found with.
Holding == {"updateRole", "deleteRemove", "loginSession"}

\* A call that holds an id and a username took them from one row.
Anchored(c) ==
  c.pc \in Holding => \E r \in users : r.id = c.id /\ r.username = c.name

LEMMA AnsweredShape ==
  ASSUME NEW status \in Statuses
  PROVE  /\ Answered(status) \in Call
         /\ Answered(status).pc = "idle"
         /\ WellFormed(Answered(status))
         /\ Anchored(Answered(status))
BY DEF Answered, Blank, Call, Places, Statuses, AskedPasswords, Roles,
       WellFormed, Anchored, Holding

LEMMA BlankShape ==
  Blank \in Call /\ Blank.pc = "idle" /\ WellFormed(Blank)
BY DEF Blank, Call, Places, Statuses, AskedPasswords, Roles, WellFormed

\* A step of a worker replaces its call, by one in order.
WorkerShape(w) ==
  \E c \in Call : /\ calls' = [calls EXCEPT ![w] = c]
                  /\ WellFormed(c) /\ Anchored(c)

\* The same for an arriving call, which has read no account to change.
ArrivalShape(w) ==
  \E c \in Call : /\ calls' = [calls EXCEPT ![w] = c]
                  /\ WellFormed(c) /\ Anchored(c)
                  /\ c.pc \notin {"updateRole", "deleteRemove"}

\* What becomes of a guarded call is its refusal or what it asked to become.
LEMMA RequireRoleShape ==
  ASSUME NEW w \in Workers, NEW token, NEW minimum, NEW call,
         call \in Call, WellFormed(call), Anchored(call),
         call.pc \notin {"updateRole", "deleteRemove"},
         RequireRole(w, token, minimum, call)
  PROVE  ArrivalShape(w)
<1>1. CASE Become(w, call)
  BY <1>1 DEF Become, ArrivalShape
<1>2. CASE \E status \in Statuses : Answer(w, status)
  BY <1>2, AnsweredShape DEF Answer, Become, ArrivalShape
<1>3. {"UNAUTHENTICATED", "PERMISSION_DENIED"} \subseteq Statuses
  BY DEF Statuses
<1> QED
  BY <1>1, <1>2, <1>3 DEF RequireRole

\* An arriving call changes nothing but its worker.
LEMMA ArriveShape ==
  ASSUME NEW w \in Workers, Arrive(w), TypeInv
  PROVE  /\ ArrivalShape(w)
         /\ UNCHANGED <<users, lastId, sessions, issued, up>>
<1> USE DEF TypeInv, TypeOK
<1>1. ASSUME NEW name \in Names, NEW password \in AskedPasswords,
             Login(w, name, password)
      PROVE  /\ ArrivalShape(w)
             /\ UNCHANGED <<users, lastId, sessions, issued, up>>
  <2>1. CASE Answer(w, "UNAUTHENTICATED")
    BY <1>1, <2>1, AnsweredShape DEF Login, Answer, Become, ArrivalShape, Statuses
  <2>2. CASE \E r \in FindCredentials(name) :
               Become(w, [Blank EXCEPT !.pc = "loginSession", !.id = r.id,
                                       !.name = name, !.role = r.role])
    <3>1. PICK r \in FindCredentials(name) :
               Become(w, [Blank EXCEPT !.pc = "loginSession", !.id = r.id,
                                       !.name = name, !.role = r.role])
      BY <2>2
    <3> DEFINE c == [Blank EXCEPT !.pc = "loginSession", !.id = r.id,
                                  !.name = name, !.role = r.role]
    <3>2. r \in users /\ r.username = name /\ r \in Row
      BY DEF FindCredentials
    <3>3. c \in Call /\ WellFormed(c) /\ Anchored(c)
          /\ c.pc \notin {"updateRole", "deleteRemove"}
      BY <3>2, BlankShape
      DEF Blank, Call, Row, Places, Statuses, AskedPasswords, Roles, WellFormed,
          Anchored, Holding
    <3> QED
      BY <1>1, <3>1, <3>3 DEF Login, Become, ArrivalShape
  <2> QED
    BY <1>1, <2>1, <2>2 DEF Login
<1>2. ASSUME NEW token \in Tokens \union {NoToken}, ValidateToken(w, token)
      PROVE  /\ ArrivalShape(w)
             /\ UNCHANGED <<users, lastId, sessions, issued, up>>
  <2>1. \E status \in Statuses : Answer(w, status)
    BY <1>2 DEF ValidateToken, Statuses
  <2> QED
    BY <1>2, <2>1, AnsweredShape DEF ValidateToken, Answer, Become, ArrivalShape
<1>3. ASSUME NEW token \in Tokens \union {NoToken}, ListUsers(w, token)
      PROVE  /\ ArrivalShape(w)
             /\ UNCHANGED <<users, lastId, sessions, issued, up>>
  <2> DEFINE c == [Blank EXCEPT !.pc = "listRead", !.token = token]
  <2>1. c \in Call /\ WellFormed(c) /\ Anchored(c)
        /\ c.pc \notin {"updateRole", "deleteRemove"}
    BY DEF Blank, Call, Places, Statuses, AskedPasswords, Roles, WellFormed,
           Anchored, Holding
  <2> QED
    BY <1>3, <2>1, RequireRoleShape DEF ListUsers, Unchecked
<1>4. ASSUME NEW token \in Tokens \union {NoToken}, NEW id \in Ids,
             DeleteUser(w, token, id)
      PROVE  /\ ArrivalShape(w)
             /\ UNCHANGED <<users, lastId, sessions, issued, up>>
  <2> DEFINE c == [Blank EXCEPT !.pc = "deleteRead", !.id = id,
                                !.token = token]
  <2>1. c \in Call /\ WellFormed(c) /\ Anchored(c)
        /\ c.pc \notin {"updateRole", "deleteRemove"}
    BY DEF Blank, Call, Places, Statuses, AskedPasswords, Roles, WellFormed,
           Anchored, Holding
  <2> QED
    BY <1>4, <2>1, RequireRoleShape DEF DeleteUser, Unchecked
<1>5. ASSUME NEW token \in Tokens \union {NoToken},
             NEW name \in Names \union {EmptyName},
             NEW password \in AskedPasswords, NEW role \in Roles,
             CreateUser(w, token, name, password, role)
      PROVE  /\ ArrivalShape(w)
             /\ UNCHANGED <<users, lastId, sessions, issued, up>>
  <2> DEFINE c == IF name = EmptyName \/ TooShort(password)
                    THEN Answered("INVALID_ARGUMENT")
                    ELSE [Blank EXCEPT !.pc = "createLookup", !.name = name,
                                       !.password = password, !.role = role,
                                       !.token = token]
  <2>1. CASE name = EmptyName \/ TooShort(password)
    <3>1. c \in Call /\ WellFormed(c) /\ Anchored(c)
          /\ c.pc \notin {"updateRole", "deleteRemove"}
      BY <2>1, AnsweredShape DEF Statuses
    <3> QED
      BY <1>5, <3>1, RequireRoleShape DEF CreateUser, Unchecked
  <2>2. CASE ~(name = EmptyName \/ TooShort(password))
    <3>1. c \in Call /\ WellFormed(c) /\ Anchored(c)
          /\ c.pc \notin {"updateRole", "deleteRemove"}
      BY <2>2 DEF Blank, Call, Places, Statuses, AskedPasswords, Roles,
                  WellFormed, Anchored, Holding, TooShort
    <3> QED
      BY <1>5, <3>1, RequireRoleShape DEF CreateUser, Unchecked
  <2> QED
    BY <2>1, <2>2
<1>6. ASSUME NEW token \in Tokens \union {NoToken}, NEW id \in Ids,
             NEW password \in AskedPasswords, NEW role \in Roles,
             UpdateUser(w, token, id, password, role)
      PROVE  /\ ArrivalShape(w)
             /\ UNCHANGED <<users, lastId, sessions, issued, up>>
  <2> DEFINE c == [Blank EXCEPT !.pc = "updateRead", !.id = id,
                                !.password = password, !.role = role,
                                !.token = token]
  <2>1. c \in Call /\ WellFormed(c) /\ Anchored(c)
        /\ c.pc \notin {"updateRole", "deleteRemove"}
    BY DEF Blank, Call, Places, Statuses, AskedPasswords, Roles, WellFormed,
           Anchored, Holding
  <2> QED
    BY <1>6, <2>1, RequireRoleShape DEF UpdateUser, Unchecked
<1> QED
  BY <1>1, <1>2, <1>3, <1>4, <1>5, <1>6 DEF Arrive

\* So does the next section of a call, as far as the calls are concerned.
LEMMA ServeShape ==
  ASSUME NEW w \in Workers, Serve(w), TypeInv
  PROVE  WorkerShape(w)
<1> USE DEF TypeInv, TypeOK
<1>0. ASSUME NEW status \in Statuses, Answer(w, status)
      PROVE  WorkerShape(w)
  BY <1>0, AnsweredShape DEF Answer, Become, WorkerShape
<1>1. CASE CreateSession(w)
  BY <1>1, <1>0 DEF CreateSession, Statuses
<1>2. CASE CreateUserLookup(w)
  <2>1. CASE Goto(w, "createInsert")
    <3>1. [calls[w] EXCEPT !.pc = "createInsert"] \in Call
      BY DEF Call, Places
    <3>2. /\ WellFormed([calls[w] EXCEPT !.pc = "createInsert"])
          /\ Anchored([calls[w] EXCEPT !.pc = "createInsert"])
      BY <1>2 DEF CreateUserLookup, At, Call, WellFormed, Anchored, Holding
    <3> QED
      BY <2>1, <3>1, <3>2 DEF Goto, Become, WorkerShape
  <2> QED
    BY <1>2, <1>0, <2>1 DEF CreateUserLookup, Statuses
<1>3. CASE CreateUserInsert(w)
  BY <1>3, <1>0 DEF CreateUserInsert, Statuses
<1>4. CASE UpdateUserRead(w)
  <2>1. ASSUME NEW seen \in FindAll, NEW target \in seen,
               target.id = calls[w].id,
               calls[w].password = NoPassword \/ ~TooShort(calls[w].password),
               Become(w, [calls[w] EXCEPT !.pc = "updateRole",
                                          !.name = target.username])
        PROVE  WorkerShape(w)
    <3> DEFINE c == [calls[w] EXCEPT !.pc = "updateRole",
                                     !.name = target.username]
    <3>1. target \in users /\ target \in Row
      BY <2>1 DEF FindAll
    <3>2. c \in Call /\ c.pc = "updateRole" /\ c.id = target.id
          /\ c.name = target.username /\ c.password = calls[w].password
      BY <3>1, <2>1 DEF Call, Places, Row
    <3>3. WellFormed(c) /\ Anchored(c)
      BY <3>1, <3>2, <2>1 DEF WellFormed, Anchored, Holding, TooShort
    <3> QED
      BY <2>1, <3>2, <3>3 DEF Become, WorkerShape
  <2> QED
    BY <1>4, <1>0, <2>1 DEF UpdateUserRead, Statuses
<1>5. CASE UpdateUserRole(w)
  <2>1. CASE calls[w].password # NoPassword /\ Goto(w, "updatePassword")
    <3> DEFINE c == [calls[w] EXCEPT !.pc = "updatePassword"]
    <3>1. c \in Call
      BY DEF Call, Places
    <3>2. WellFormed(c) /\ Anchored(c)
      BY <1>5, <2>1 DEF UpdateUserRole, At, Call, WellFormed, Anchored, Holding
    <3> QED
      BY <2>1, <3>1, <3>2 DEF Goto, Become, WorkerShape
  <2> QED
    BY <1>5, <1>0, <2>1 DEF UpdateUserRole, Statuses
<1>6. CASE UpdateUserPassword(w)
  BY <1>6, <1>0 DEF UpdateUserPassword, Statuses
<1>7. CASE DeleteUserRead(w)
  <2>1. ASSUME NEW seen \in FindAll, NEW target \in seen,
               target.id = calls[w].id,
               Become(w, [calls[w] EXCEPT !.pc = "deleteRemove",
                                          !.name = target.username])
        PROVE  WorkerShape(w)
    <3> DEFINE c == [calls[w] EXCEPT !.pc = "deleteRemove",
                                     !.name = target.username]
    <3>1. target \in users /\ target \in Row
      BY <2>1 DEF FindAll
    <3>2. c \in Call /\ c.pc = "deleteRemove" /\ c.id = target.id
          /\ c.name = target.username
      BY <3>1, <2>1 DEF Call, Places, Row
    <3>3. WellFormed(c) /\ Anchored(c)
      BY <3>1, <3>2 DEF WellFormed, Anchored, Holding
    <3> QED
      BY <2>1, <3>2, <3>3 DEF Become, WorkerShape
  <2> QED
    BY <1>7, <1>0, <2>1 DEF DeleteUserRead, Statuses
<1>8. CASE DeleteUserRemove(w)
  BY <1>8, <1>0 DEF DeleteUserRemove, Statuses
<1>9. CASE ListUsersRead(w)
  BY <1>9, <1>0 DEF ListUsersRead, Statuses
<1> QED
  BY <1>1, <1>2, <1>3, <1>4, <1>5, <1>6, <1>7, <1>8, <1>9 DEF Serve

(***************************************************************************)
(* Types.                                                                  *)
(***************************************************************************)

LEMMA HashType == ASSUME NEW p \in Passwords PROVE Hash(p) \in Hashes
BY DEF Hashes

\* The statements keep the tables in their types.
LEMMA InsertType ==
  ASSUME TypeInv, NEW name \in Names, NEW password \in Passwords,
         NEW role \in Roles, Insert(name, password, role)
  PROVE  users' \subseteq Row /\ lastId' \in Ids \union {0}
BY HashType DEF TypeInv, TypeOK, Insert, CanInsert, Row

LEMMA SetRoleType ==
  ASSUME TypeInv, NEW id, NEW role \in Roles, SetRole(id, role)
  PROVE  users' \subseteq Row
BY DEF TypeInv, TypeOK, SetRole, Row

LEMMA SetPasswordType ==
  ASSUME TypeInv, NEW id, NEW password \in Passwords, SetPassword(id, password)
  PROVE  users' \subseteq Row
<1>1. Hash(password) \in Hashes
  BY HashType
<1>2. ASSUME NEW r \in users PROVE [r EXCEPT !.hash = Hash(password)] \in Row
  BY <1>1, <1>2 DEF TypeInv, TypeOK, Row
<1> QED
  BY <1>2 DEF TypeInv, TypeOK, SetPassword

LEMMA TypeInvInit == Init => TypeInv
BY BlankShape DEF Init, TypeInv, TypeOK, Ids

LEMMA TypeInvNext == TypeInv /\ [Next]_vars => TypeInv'
<1> SUFFICES ASSUME TypeInv, [Next]_vars PROVE TypeInv'
  OBVIOUS
<1>0. /\ users \subseteq Row /\ lastId \in Ids \union {0}
      /\ sessions \subseteq Session /\ issued \subseteq Tokens
      /\ calls \in [Workers -> Call] /\ up \in BOOLEAN
      /\ \A w \in Workers : WellFormed(calls[w])
  BY DEF TypeInv, TypeOK
<1>1. ASSUME NEW w \in Workers, WorkerShape(w)
      PROVE  /\ calls' \in [Workers -> Call]
             /\ \A v \in Workers : WellFormed(calls'[v])
  <2>1. PICK c \in Call : /\ calls' = [calls EXCEPT ![w] = c]
                          /\ WellFormed(c)
    BY <1>1 DEF WorkerShape
  <2> QED
    BY <1>0, <2>1
<1>2. CASE Boot
  <2>1. SeedName \in Names /\ SeedPassword \in Passwords /\ "Admin" \in Roles
    BY AccountsAssumption DEF Roles
  <2>2. users' \subseteq Row /\ lastId' \in Ids \union {0}
    BY <1>0, <1>2, <2>1, InsertType DEF Boot
  <2> QED
    BY <1>0, <1>2, <2>2 DEF Boot, TypeInv, TypeOK
<1>3. CASE Crash
  BY <1>0, <1>3, BlankShape DEF Crash, TypeInv, TypeOK
<1>4. ASSUME NEW w \in Workers, Arrive(w)
      PROVE  TypeInv'
  BY <1>0, <1>1, <1>4, ArriveShape DEF ArrivalShape, WorkerShape, TypeInv, TypeOK
<1>5. ASSUME NEW w \in Workers, Serve(w)
      PROVE  TypeInv'
  <2>1. /\ calls' \in [Workers -> Call]
        /\ \A v \in Workers : WellFormed(calls'[v])
    BY <1>1, <1>5, ServeShape
  <2>2. calls[w] \in Call /\ WellFormed(calls[w]) /\ calls[w].role \in Roles
    BY <1>0 DEF Call
  <2>3. CASE CreateSession(w)
    <3>1. PICK t \in FreshTokens :
            /\ sessions' = sessions \union
                 {[token |-> t, id |-> calls[w].id, username |-> calls[w].name,
                   role |-> calls[w].role]}
            /\ issued' = issued \union {t}
      BY <2>3 DEF CreateSession
    <3>2. t \in Tokens /\ calls[w].id \in Ids /\ calls[w].name \in Names
      BY <2>2, <2>3 DEF CreateSession, FreshTokens, At, WellFormed
    <3>3. sessions' \subseteq Session /\ issued' \subseteq Tokens
      BY <1>0, <2>2, <3>1, <3>2 DEF Session
    <3> QED
      BY <1>0, <2>1, <2>3, <3>3 DEF CreateSession, TypeInv, TypeOK
  <2>4. CASE CreateUserInsert(w)
    <3>1. calls[w].name \in Names /\ calls[w].password \in Passwords
      BY <2>2, <2>4 DEF CreateUserInsert, At, WellFormed
    <3>2. users' \subseteq Row /\ lastId' \in Ids \union {0}
      BY <1>0, <2>2, <2>4, <3>1, InsertType DEF CreateUserInsert
    <3> QED
      BY <1>0, <2>1, <2>4, <3>2 DEF CreateUserInsert, TypeInv, TypeOK
  <2>5. CASE UpdateUserRole(w)
    <3>1. users' \subseteq Row
      BY <1>0, <2>2, <2>5, SetRoleType DEF UpdateUserRole
    <3> QED
      BY <1>0, <2>1, <2>5, <3>1 DEF UpdateUserRole, TypeInv, TypeOK
  <2>6. CASE UpdateUserPassword(w)
    <3>1. calls[w].password \in Passwords
      BY <2>2, <2>6 DEF UpdateUserPassword, At, WellFormed
    <3>2. users' \subseteq Row
      BY <1>0, <2>6, <3>1, SetPasswordType DEF UpdateUserPassword
    <3> QED
      BY <1>0, <2>1, <2>6, <3>2 DEF UpdateUserPassword, TypeInv, TypeOK
  <2>7. CASE DeleteUserRemove(w)
    <3>1. users' \subseteq Row
      BY <1>0, <2>7 DEF DeleteUserRemove, Remove
    <3> QED
      BY <1>0, <2>1, <2>7, <3>1 DEF DeleteUserRemove, TypeInv, TypeOK
  <2>8. CASE \/ CreateUserLookup(w) \/ UpdateUserRead(w) \/ DeleteUserRead(w)
             \/ ListUsersRead(w)
    <3>1. UNCHANGED <<users, lastId, sessions, issued, up>>
      BY <2>8 DEF CreateUserLookup, UpdateUserRead, DeleteUserRead,
                  ListUsersRead, Unchecked
    <3> QED
      BY <1>0, <2>1, <3>1 DEF TypeInv, TypeOK
  <2> QED
    BY <1>5, <2>3, <2>4, <2>5, <2>6, <2>7, <2>8 DEF Serve
<1>6. CASE UNCHANGED vars
  BY <1>0, <1>6 DEF vars, TypeInv, TypeOK
<1> QED
  BY <1>2, <1>3, <1>4, <1>5, <1>6 DEF Next

(***************************************************************************)
(* The tables, the sessions and the calls always have the types the code   *)
(* gives them: no section is reached with a request its checks refuse.     *)
(***************************************************************************)
THEOREM TypeCorrect == Spec => []TypeOK
<1>1. TypeInv => TypeOK
  BY DEF TypeInv
<1> QED
  BY <1>1, TypeInvInit, TypeInvNext, PTL DEF Spec

(***************************************************************************)
(* Identities.  An id is never handed out twice, so what was read with an  *)
(* id stays true of every row that has it: IdInv adds to the two           *)
(* properties that every id in use is at most lastId.                      *)
(***************************************************************************)

IdsHandedOut ==
  /\ \A r \in users : r.id <= lastId
  /\ \A s \in sessions : s.id <= lastId
  /\ \A w \in Workers : calls[w].pc \in Holding => calls[w].id <= lastId

IdInv == IdsHandedOut /\ UsernamesUnique /\ IdentityStable

\* Statements other than INSERT give no row another id or username.
KeepsIdentity ==
  /\ \A q \in users' : \E r \in users : r.id = q.id /\ r.username = q.username
  /\ UsernamesUnique'

LEMMA RemoveKeeps ==
  ASSUME IdInv, NEW id, Remove(id)
  PROVE  KeepsIdentity
BY DEF IdInv, UsernamesUnique, KeepsIdentity, Remove

LEMMA SetRoleKeeps ==
  ASSUME TypeInv, IdInv, NEW id, NEW role, SetRole(id, role)
  PROVE  KeepsIdentity
<1> DEFINE f(r) == IF r.id = id THEN [r EXCEPT !.role = role] ELSE r
<1>1. \A r \in users : f(r).id = r.id /\ f(r).username = r.username
  BY DEF TypeInv, TypeOK, Row
<1>2. users' = {f(r) : r \in users}
  BY DEF SetRole
<1> HIDE DEF f
<1> QED
  BY <1>1, <1>2 DEF IdInv, UsernamesUnique, KeepsIdentity

LEMMA SetPasswordKeeps ==
  ASSUME TypeInv, IdInv, NEW id, NEW password, SetPassword(id, password)
  PROVE  KeepsIdentity
<1> DEFINE f(r) == IF r.id = id THEN [r EXCEPT !.hash = Hash(password)] ELSE r
<1>1. \A r \in users : f(r).id = r.id /\ f(r).username = r.username
  BY DEF TypeInv, TypeOK, Row
<1>2. users' = {f(r) : r \in users}
  BY DEF SetPassword
<1> HIDE DEF f
<1> QED
  BY <1>1, <1>2 DEF IdInv, UsernamesUnique, KeepsIdentity

\* A session is only added for what its worker read at login.
SessionsFrom(w) ==
  \A s \in sessions' :
    \/ s \in sessions
    \/ /\ calls[w].pc = "loginSession"
       /\ s.id = calls[w].id /\ s.username = calls[w].name

LEMMA IdInvKept ==
  ASSUME TypeInv, TypeInv', IdInv, NEW w \in Workers, WorkerShape(w),
         KeepsIdentity, lastId' = lastId, SessionsFrom(w)
  PROVE  IdInv'
<1>1. PICK c \in Call : calls' = [calls EXCEPT ![w] = c] /\ Anchored(c)
  BY DEF WorkerShape
<1>2. \A v \in Workers : calls'[v] = IF v = w THEN c ELSE calls[v]
  BY <1>1 DEF TypeInv, TypeOK
<1>3. \A v \in Workers : calls[v].pc = "loginSession" => calls[v].pc \in Holding
  BY DEF Holding
<1>4. IdsHandedOut'
  BY <1>1, <1>2, <1>3 DEF IdInv, IdsHandedOut, KeepsIdentity, Anchored,
                         SessionsFrom
<1>5. \A q \in users', s \in sessions' :
        s.id = q.id => s.username = q.username
  BY <1>3 DEF IdInv, IdentityStable, KeepsIdentity, SessionsFrom, Holding
<1>6. \A q \in users', v \in Workers :
        calls'[v].pc \in Holding /\ calls'[v].id = q.id =>
          calls'[v].name = q.username
  <2> SUFFICES ASSUME NEW q \in users', NEW v \in Workers,
                      calls'[v].pc \in Holding, calls'[v].id = q.id
               PROVE  calls'[v].name = q.username
    OBVIOUS
  <2>1. PICK r \in users : r.id = q.id /\ r.username = q.username
    BY DEF KeepsIdentity
  <2>2. CASE v = w
    <3>1. PICK p \in users : p.id = c.id /\ p.username = c.name
      BY <1>1, <1>2, <2>2 DEF Anchored
    <3> QED
      BY <1>2, <2>1, <2>2, <3>1 DEF IdInv, UsernamesUnique
  <2>3. CASE v # w
    BY <1>2, <2>1, <2>3 DEF IdInv, IdentityStable, Holding
  <2> QED
    BY <2>2, <2>3
<1> QED
  BY <1>4, <1>5, <1>6 DEF IdInv, IdentityStable, KeepsIdentity, Holding

\* A new row has an id nobody can hold and a username nobody has.
LEMMA IdInvInsert ==
  ASSUME TypeInv, TypeInv', IdInv, NEW name, NEW password, NEW role,
         Insert(name, password, role), sessions' = sessions,
         \A v \in Workers : calls'[v] = calls[v] \/ calls'[v].pc \notin Holding
  PROVE  IdInv'
<1> DEFINE row == [id |-> NextRowId, username |-> name,
                   hash |-> Hash(password), role |-> role]
<1>1. users' = users \union {row} /\ lastId' = NextRowId
  BY DEF Insert
<1>2. row.id = lastId + 1 /\ row.username = name /\ lastId \in Nat
  BY DEF NextRowId, TypeInv, TypeOK, Ids
<1>3. \A r \in users : r.id \in Nat /\ r.id <= lastId /\ r.username # name
  BY DEF TypeInv, TypeOK, Row, Ids, IdInv, IdsHandedOut, Insert, CanInsert,
         FindCredentials
<1>4. \A s \in sessions : s.id \in Nat /\ s.id <= lastId
  BY DEF TypeInv, TypeOK, Session, Ids, IdInv, IdsHandedOut
<1>5. \A v \in Workers : calls[v].id \in Nat
  BY DEF TypeInv, TypeOK, Call, Ids
<1> HIDE DEF row
<1>6. lastId' = lastId + 1
  BY <1>1 DEF NextRowId
<1>7. IdsHandedOut'
  BY <1>1, <1>2, <1>3, <1>4, <1>5, <1>6 DEF IdInv, IdsHandedOut
<1>8. UsernamesUnique'
  BY <1>1, <1>2, <1>3 DEF IdInv, UsernamesUnique
<1>9. IdentityStable'
  <2>1. \A s \in sessions' : s.id # row.id
    BY <1>2, <1>4
  <2>2. \A v \in Workers : calls'[v].pc \in Holding => calls'[v].id # row.id
    BY <1>2, <1>5 DEF IdInv, IdsHandedOut
  <2> QED
    BY <1>1, <2>1, <2>2 DEF IdInv, IdentityStable, Holding
<1> QED
  BY <1>7, <1>8, <1>9 DEF IdInv

LEMMA IdInvInit == Init => IdInv
BY DEF Init, Blank, IdInv, IdsHandedOut, UsernamesUnique, IdentityStable,
       Holding

LEMMA IdInvNext == TypeInv /\ IdInv /\ [Next]_vars => IdInv'
<1> SUFFICES ASSUME TypeInv, IdInv, [Next]_vars PROVE IdInv'
  OBVIOUS
<1>0. TypeInv'
  BY TypeInvNext
<1>1. users' = users => KeepsIdentity
  BY DEF IdInv, UsernamesUnique, KeepsIdentity
<1>2. CASE Boot
  <2>1. CASE users' = users /\ lastId' = lastId
    BY <1>2, <2>1 DEF Boot, IdInv, IdsHandedOut, UsernamesUnique, IdentityStable
  <2>2. CASE Insert(SeedName, SeedPassword, "Admin")
    BY <1>0, <1>2, <2>2, IdInvInsert DEF Boot
  <2> QED
    BY <1>2, <2>1, <2>2 DEF Boot
<1>3. CASE Crash
  <2>1. \A v \in Workers : calls'[v].pc \notin Holding
    BY <1>3 DEF Crash, Blank, Holding
  <2>2. users' = users /\ lastId' = lastId /\ sessions' = {}
    BY <1>3 DEF Crash
  <2> QED
    BY <2>1, <2>2 DEF IdInv, IdsHandedOut, UsernamesUnique, IdentityStable, Holding
<1>4. ASSUME NEW w \in Workers, Arrive(w)
      PROVE  IdInv'
  <2>1. WorkerShape(w) /\ UNCHANGED <<users, lastId, sessions>>
    BY <1>4, ArriveShape DEF ArrivalShape, WorkerShape
  <2> QED
    BY <1>0, <1>1, <2>1, IdInvKept DEF SessionsFrom
<1>5. ASSUME NEW w \in Workers, Serve(w)
      PROVE  IdInv'
  <2>1. WorkerShape(w)
    BY <1>5, ServeShape
  <2>2. CASE CreateSession(w)
    <3>1. SessionsFrom(w) /\ users' = users /\ lastId' = lastId
      BY <2>2 DEF CreateSession, At, SessionsFrom
    <3> QED
      BY <1>0, <1>1, <2>1, <3>1, IdInvKept
  <2>3. CASE CreateUserInsert(w)
    <3>1. CASE UNCHANGED <<users, lastId>>
      BY <1>0, <1>1, <2>1, <2>3, <3>1, IdInvKept DEF CreateUserInsert, SessionsFrom
    <3>2. CASE /\ Insert(calls[w].name, calls[w].password, calls[w].role)
               /\ Answer(w, "OK")
      <4>1. \A v \in Workers :
              calls'[v] = calls[v] \/ calls'[v].pc \notin Holding
        BY <3>2 DEF Answer, Become, Answered, Blank, Holding, TypeInv, TypeOK
      <4> QED
        BY <1>0, <2>3, <3>2, <4>1, IdInvInsert DEF CreateUserInsert
    <3> QED
      BY <2>3, <3>1, <3>2 DEF CreateUserInsert
  <2>4. CASE UpdateUserRole(w)
    <3>1. KeepsIdentity
      BY <1>1, <2>4, SetRoleKeeps DEF UpdateUserRole
    <3> QED
      BY <1>0, <2>1, <2>4, <3>1, IdInvKept DEF UpdateUserRole, SessionsFrom
  <2>5. CASE UpdateUserPassword(w)
    <3>1. KeepsIdentity
      BY <1>1, <2>5, SetPasswordKeeps DEF UpdateUserPassword
    <3> QED
      BY <1>0, <2>1, <2>5, <3>1, IdInvKept DEF UpdateUserPassword, SessionsFrom
  <2>6. CASE DeleteUserRemove(w)
    <3>1. KeepsIdentity
      BY <1>1, <2>6, RemoveKeeps DEF DeleteUserRemove
    <3> QED
      BY <1>0, <2>1, <2>6, <3>1, IdInvKept DEF DeleteUserRemove, SessionsFrom
  <2>7. CASE \/ CreateUserLookup(w) \/ UpdateUserRead(w) \/ DeleteUserRead(w)
             \/ ListUsersRead(w)
    <3>1. UNCHANGED <<users, lastId, sessions>>
      BY <2>7 DEF CreateUserLookup, UpdateUserRead, DeleteUserRead,
                  ListUsersRead, Unchecked
    <3> QED
      BY <1>0, <1>1, <2>1, <3>1, IdInvKept DEF SessionsFrom
  <2> QED
    BY <1>5, <2>2, <2>3, <2>4, <2>5, <2>6, <2>7 DEF Serve
<1>6. CASE UNCHANGED vars
  BY <1>6 DEF vars, IdInv, IdsHandedOut, UsernamesUnique, IdentityStable
<1> QED
  BY <1>2, <1>3, <1>4, <1>5, <1>6 DEF Next

LEMMA Invariants == Spec => [](TypeInv /\ IdInv)
<1>1. Init => TypeInv /\ IdInv
  BY TypeInvInit, IdInvInit
<1>2. TypeInv /\ IdInv /\ [Next]_vars => (TypeInv /\ IdInv)'
  BY TypeInvNext, IdInvNext
<1> QED
  BY <1>1, <1>2, PTL DEF Spec

(***************************************************************************)
(* Whatever createUser calls run at once, no two rows share an id or a     *)
(* username.                                                               *)
(***************************************************************************)
THEOREM UniqueUsernames == Spec => []UsernamesUnique
<1>1. IdInv => UsernamesUnique
  BY DEF IdInv
<1> QED
  BY <1>1, Invariants, PTL

(***************************************************************************)
(* Whatever happened since a session or a call read an id, the id means    *)
(* the same user or nobody.                                                *)
(***************************************************************************)
THEOREM StableIdentity == Spec => []IdentityStable
<1>1. IdInv => IdentityStable
  BY DEF IdInv
<1> QED
  BY <1>1, Invariants, PTL

(***************************************************************************)
(* The last administrator, when removals do not overlap.  A call that is   *)
(* about to take an administrator away saw another one, and nothing can    *)
(* take that one away before it acts.                                      *)
(***************************************************************************)

AnotherAdmin(id) == \E r \in users : r.role = "Admin" /\ r.id # id

\* Before the first administrator exists nobody can do anything.
Untouched ==
  users = {} /\ sessions = {} /\ \A w \in Workers : calls[w].pc = "idle"

SoloInv ==
  /\ HasAdmin \/ Untouched
  /\ SoloRemoval
  /\ \A w \in Workers : Removing(w) => AnotherAdmin(calls[w].id)

\* Distinct rows have distinct ids, and those are at most MaxId.
LEMMA UsersFinite ==
  ASSUME TypeInv, IdInv
  PROVE  IsFiniteSet(users)
<1> DEFINE idOf == [r \in users |-> r.id]
<1>1. IsFiniteSet(Ids)
  BY AccountsAssumption, FS_Interval DEF Ids
<1>2. idOf \in Injection(users, Ids)
  BY DEF Injection, IsInjective, TypeInv, TypeOK, Row, IdInv, UsernamesUnique
<1> QED
  BY <1>1, <1>2, FS_Injection

\* What the count in deleteUser and updateUser establishes.
LEMMA NotTheLast ==
  ASSUME IsFiniteSet(users), UsernamesUnique, NEW seen \in SUBSET users,
         NEW target \in seen, HasAdmin, ~IsLastAdmin(target, seen)
  PROVE  AnotherAdmin(target.id)
<1>1. CASE target.role # "Admin"
  BY <1>1 DEF HasAdmin, AnotherAdmin, UsernamesUnique
<1>2. CASE target.role = "Admin"
  <2> DEFINE admins == {r \in seen : r.role = "Admin"}
  <2>1. IsFiniteSet(admins) /\ target \in admins
    BY <1>2, FS_Subset
  <2>2. ~(Cardinality(admins) <= 1)
    BY <1>2 DEF IsLastAdmin
  <2>3. admins # {target}
    BY <2>2, FS_Singleton
  <2>4. PICK r \in admins : r # target
    BY <2>1, <2>3
  <2> QED
    BY <2>4 DEF AnotherAdmin, UsernamesUnique
<1> QED
  BY <1>1, <1>2

\* A read that lets a removal go on has seen another administrator.
LEMMA ReadSafe ==
  ASSUME TypeInv, IdInv, SoloInv, NEW w \in Workers,
         UpdateUserRead(w) \/ DeleteUserRead(w),
         Removing(w)'
  PROVE  AnotherAdmin(calls'[w].id)
<1>0. calls[w] \in Call /\ calls \in [Workers -> Call]
  BY DEF TypeInv, TypeOK
<1>1. HasAdmin
  BY DEF SoloInv, Untouched, UpdateUserRead, DeleteUserRead, At
<1>2. ~(\E status : Answer(w, status))
  BY <1>0 DEF Answer, Become, Answered, Blank, Removing
<1>3. PICK seen \in FindAll :
        \E target \in seen :
          /\ target.id = calls[w].id
          /\ \/ /\ ~(calls[w].role # "Admin" /\ IsLastAdmin(target, seen))
                /\ Become(w, [calls[w] EXCEPT !.pc = "updateRole",
                                              !.name = target.username])
             \/ /\ ~IsLastAdmin(target, seen)
                /\ Become(w, [calls[w] EXCEPT !.pc = "deleteRemove",
                                              !.name = target.username])
  BY <1>2 DEF UpdateUserRead, DeleteUserRead
<1>4. seen \in SUBSET users
  BY <1>3 DEF FindAll
<1>5. PICK target \in seen :
        /\ target.id = calls[w].id
        /\ \/ /\ ~(calls[w].role # "Admin" /\ IsLastAdmin(target, seen))
              /\ Become(w, [calls[w] EXCEPT !.pc = "updateRole",
                                            !.name = target.username])
           \/ /\ ~IsLastAdmin(target, seen)
              /\ Become(w, [calls[w] EXCEPT !.pc = "deleteRemove",
                                            !.name = target.username])
  BY <1>3
<1>6. calls'[w].id = target.id /\ ~IsLastAdmin(target, seen)
  <2>1. CASE Become(w, [calls[w] EXCEPT !.pc = "updateRole",
                                        !.name = target.username])
    <3>1. calls'[w] = [calls[w] EXCEPT !.pc = "updateRole",
                                       !.name = target.username]
      BY <1>0, <2>1 DEF Become
    <3>2. calls'[w].id = calls[w].id /\ calls'[w].pc = "updateRole"
          /\ calls'[w].role = calls[w].role
      BY ONLY <1>0, <3>1 DEF Call
    <3>3. calls[w].role # "Admin"
      BY <3>2 DEF Removing
    <3>4. ~(calls[w].role # "Admin" /\ IsLastAdmin(target, seen))
      <4>1. CASE Become(w, [calls[w] EXCEPT !.pc = "deleteRemove",
                                            !.name = target.username])
        <5>1. calls'[w] = [calls[w] EXCEPT !.pc = "deleteRemove",
                                           !.name = target.username]
          BY <1>0, <4>1 DEF Become
        <5>2. calls'[w].pc = "deleteRemove"
          BY ONLY <1>0, <5>1 DEF Call
        <5> QED
          BY <3>2, <5>2
      <4> QED
        BY <1>5, <4>1
    <3> QED
      BY <1>4, <1>5, <3>2, <3>3, <3>4
  <2>2. CASE /\ ~IsLastAdmin(target, seen)
             /\ Become(w, [calls[w] EXCEPT !.pc = "deleteRemove",
                                           !.name = target.username])
    <3>1. calls'[w] = [calls[w] EXCEPT !.pc = "deleteRemove",
                                       !.name = target.username]
      BY <1>0, <2>2 DEF Become
    <3>2. calls'[w].id = calls[w].id
      BY ONLY <1>0, <3>1 DEF Call
    <3> QED
      BY <1>4, <1>5, <2>2, <3>2
  <2> QED
    BY <1>5, <2>1, <2>2
<1> QED
  BY <1>1, <1>4, <1>6, NotTheLast, UsersFinite DEF IdInv

\* While there is no session and no row, an arriving call is turned away.
LEMMA ArriveUntouched ==
  ASSUME TypeInv, Untouched, NEW w \in Workers, Arrive(w)
  PROVE  Untouched'
<1>1. \A token : SessionsOf(token) = {}
  BY DEF Untouched, SessionsOf
<1>2. \A name : FindCredentials(name) = {}
  BY DEF Untouched, FindCredentials
<1>3. \E status : Answer(w, status)
  BY <1>1, <1>2 DEF Arrive, Login, ValidateToken, ListUsers, DeleteUser,
                    CreateUser, UpdateUser, RequireRole
<1>4. users' = users /\ sessions' = sessions
  BY ArriveShape
<1> QED
  BY <1>3, <1>4 DEF Answer, Become, Answered, Blank, Untouched, TypeInv, TypeOK

\* Nobody else's call is a removal while one is about to act.
LEMMA OtherAdminsStay ==
  ASSUME SoloInv, NEW w \in Workers,
         \A v \in Workers : v # w => calls'[v] = calls[v],
         ~Removing(w)',
         \A r \in users : r.role = "Admin" =>
           \E q \in users' : q.role = "Admin" /\ q.id = r.id
  PROVE  \A v \in Workers : Removing(v)' => AnotherAdmin(calls[v].id)'
BY DEF SoloInv, Removing, AnotherAdmin

\* The statement of a removal leaves the other administrator it saw.
LEMMA RemovalLeavesOne ==
  ASSUME SoloInv, NEW w \in Workers, Removing(w),
         \A v \in Workers : v # w => calls'[v] = calls[v],
         ~Removing(w)',
         \A r \in users : r.id # calls[w].id => r \in users'
  PROVE  HasAdmin' /\ \A v \in Workers : ~Removing(v)'
<1>1. PICK r \in users : r.role = "Admin" /\ r.id # calls[w].id
  BY DEF SoloInv, AnotherAdmin
<1>2. HasAdmin'
  BY <1>1 DEF HasAdmin
<1>3. \A v \in Workers : ~Removing(v)'
  BY DEF SoloInv, SoloRemoval, Removing
<1> QED
  BY <1>2, <1>3

LEMMA SoloServe ==
  ASSUME TypeInv, IdInv, SoloInv, NEW w \in Workers, Serve(w)
  PROVE  /\ HasAdmin'
         /\ \A v \in Workers : Removing(v)' => AnotherAdmin(calls[v].id)'
<1>0. calls \in [Workers -> Call] /\ calls[w] \in Call
  BY DEF TypeInv, TypeOK
<1>1. HasAdmin
  BY DEF SoloInv, Untouched, Serve, CreateSession, CreateUserLookup,
         CreateUserInsert, UpdateUserRead, UpdateUserRole, UpdateUserPassword,
         DeleteUserRead, DeleteUserRemove, ListUsersRead, At
<1>2. \A v \in Workers : v # w => calls'[v] = calls[v]
  BY <1>0, ServeShape DEF WorkerShape
<1>3. ASSUME NEW status, Answer(w, status)
      PROVE  ~Removing(w)'
  BY <1>0, <1>3 DEF Answer, Become, Answered, Blank, Removing
<1>4. ASSUME NEW place \in {"createInsert", "updatePassword"}, Goto(w, place)
      PROVE  ~Removing(w)'
  BY <1>0, <1>4 DEF Goto, Become, Removing, Call
<1>5. ASSUME ~Removing(w)', users \subseteq users'
      PROVE  /\ HasAdmin'
             /\ \A v \in Workers : Removing(v)' => AnotherAdmin(calls[v].id)'
  BY <1>1, <1>2, <1>5, OtherAdminsStay DEF HasAdmin
<1>6. CASE CreateSession(w) \/ CreateUserLookup(w) \/ ListUsersRead(w)
  BY <1>3, <1>4, <1>5, <1>6
     DEF CreateSession, CreateUserLookup, ListUsersRead, Unchecked
<1>7. CASE CreateUserInsert(w)
  BY <1>3, <1>5, <1>7 DEF CreateUserInsert, Insert
<1>8. CASE UpdateUserRead(w) \/ DeleteUserRead(w)
  <2>1. users' = users
    BY <1>8 DEF UpdateUserRead, DeleteUserRead, Unchecked
  <2>2. CASE ~Removing(w)'
    BY <1>5, <2>1, <2>2
  <2>3. CASE Removing(w)'
    <3>1. AnotherAdmin(calls[w].id)'
      BY <1>8, <2>1, <2>3, ReadSafe DEF AnotherAdmin
    <3>2. \A v \in Workers : v # w /\ Removing(v)' => AnotherAdmin(calls[v].id)'
      BY <1>2, <2>1 DEF SoloInv, Removing, AnotherAdmin
    <3> QED
      BY <1>1, <2>1, <3>1, <3>2 DEF HasAdmin
  <2> QED
    BY <2>2, <2>3
<1>9. CASE UpdateUserRole(w)
  <2>1. ~Removing(w)'
    BY <1>3, <1>4, <1>9 DEF UpdateUserRole
  <2>2. CASE users' = users
    BY <1>5, <2>1, <2>2
  <2>3. CASE SetRole(calls[w].id, calls[w].role) /\ calls[w].role = "Admin"
    <3>1. ASSUME NEW r \in users, r.role = "Admin"
          PROVE  \E q \in users' : q.role = "Admin" /\ q.id = r.id
      <4>1. r \in Row /\ [r EXCEPT !.role = calls[w].role] = r
        BY <2>3, <3>1 DEF TypeInv, TypeOK, Row
      <4>2. r \in users'
        BY <2>3, <4>1 DEF SetRole
      <4> QED
        BY <3>1, <4>2
    <3>2. HasAdmin'
      BY <1>1, <3>1 DEF HasAdmin
    <3> QED
      BY <1>2, <2>1, <3>1, <3>2, OtherAdminsStay
  <2>4. CASE SetRole(calls[w].id, calls[w].role) /\ calls[w].role # "Admin"
    <3>1. Removing(w)
      BY <1>9, <2>4 DEF UpdateUserRole, At, Removing
    <3>2. \A r \in users : r.id # calls[w].id => r \in users'
      BY <2>4 DEF SetRole
    <3> QED
      BY <1>2, <2>1, <3>1, <3>2, RemovalLeavesOne
  <2> QED
    BY <1>9, <2>2, <2>3, <2>4 DEF UpdateUserRole
<1>10. CASE UpdateUserPassword(w)
  <2>1. ~Removing(w)'
    BY <1>3, <1>10 DEF UpdateUserPassword
  <2>2. CASE users' = users
    BY <1>5, <2>1, <2>2
  <2>3. CASE SetPassword(calls[w].id, calls[w].password)
    <3>1. ASSUME NEW r \in users, r.role = "Admin"
          PROVE  \E q \in users' : q.role = "Admin" /\ q.id = r.id
      <4> DEFINE q == [r EXCEPT !.hash = Hash(calls[w].password)]
      <4>1. q.role = "Admin" /\ q.id = r.id
        BY <3>1 DEF TypeInv, TypeOK, Row
      <4>2. r \in users' \/ q \in users'
        BY <2>3 DEF SetPassword
      <4> QED
        BY <3>1, <4>1, <4>2
    <3>2. HasAdmin'
      BY <1>1, <3>1 DEF HasAdmin
    <3> QED
      BY <1>2, <2>1, <3>1, <3>2, OtherAdminsStay
  <2> QED
    BY <1>10, <2>2, <2>3 DEF UpdateUserPassword
<1>11. CASE DeleteUserRemove(w)
  <2>1. ~Removing(w)' /\ Removing(w)
    BY <1>3, <1>11 DEF DeleteUserRemove, At, Removing
  <2>2. CASE users' = users
    BY <1>5, <2>1, <2>2
  <2>3. CASE Remove(calls[w].id)
    <3>1. \A r \in users : r.id # calls[w].id => r \in users'
      BY <2>3 DEF Remove
    <3> QED
      BY <1>2, <2>1, <3>1, RemovalLeavesOne
  <2> QED
    BY <1>11, <2>2, <2>3 DEF DeleteUserRemove
<1> QED
  BY <1>6, <1>7, <1>8, <1>9, <1>10, <1>11 DEF Serve

LEMMA SoloInvNext ==
  ASSUME TypeInv, IdInv, SoloInv, [Next /\ SoloRemoval']_vars
  PROVE  SoloInv' /\ (HasAdmin => HasAdmin')
<1>0. calls \in [Workers -> Call]
  BY DEF TypeInv, TypeOK
<1>1. CASE UNCHANGED vars
  BY <1>1 DEF vars, SoloInv, HasAdmin, Untouched, SoloRemoval, Removing,
              AnotherAdmin
<1>2. CASE Boot /\ SoloRemoval'
  <2>1. calls' = calls /\ sessions' = sessions /\ users \subseteq users'
    BY <1>2 DEF Boot, Insert
  <2>2. HasAdmin => HasAdmin'
    BY <2>1 DEF HasAdmin
  <2>3. \A v \in Workers : Removing(v)' => AnotherAdmin(calls[v].id)'
    BY <2>1 DEF SoloInv, Removing, AnotherAdmin
  <2>4. CASE Insert(SeedName, SeedPassword, "Admin")
    <3>1. HasAdmin'
      <4> DEFINE row == [id |-> NextRowId, username |-> SeedName,
                         hash |-> Hash(SeedPassword), role |-> "Admin"]
      <4>1. row \in users' /\ row.role = "Admin"
        BY <2>4 DEF Insert
      <4> QED
        BY <4>1 DEF HasAdmin
    <3> QED
      BY <1>2, <2>3, <3>1 DEF SoloInv
  <2>5. CASE users' = users
    BY <1>2, <2>1, <2>2, <2>3, <2>5 DEF SoloInv, Untouched
  <2> QED
    BY <1>2, <2>4, <2>5 DEF Boot
<1>3. CASE Crash /\ SoloRemoval'
  BY <1>3 DEF Crash, Blank, SoloInv, HasAdmin, Untouched, Removing
<1>4. ASSUME NEW w \in Workers, Arrive(w), SoloRemoval'
      PROVE  SoloInv' /\ (HasAdmin => HasAdmin')
  <2>1. PICK c \in Call : /\ calls' = [calls EXCEPT ![w] = c]
                          /\ c.pc \notin {"updateRole", "deleteRemove"}
    BY <1>4, ArriveShape DEF ArrivalShape
  <2>2. users' = users
    BY <1>4, ArriveShape
  <2>3. HasAdmin' <=> HasAdmin
    BY <2>2 DEF HasAdmin
  <2>4. \A v \in Workers : Removing(v)' => AnotherAdmin(calls[v].id)'
    <3>1. ~Removing(w)' /\ \A v \in Workers : v # w => calls'[v] = calls[v]
      BY <1>0, <2>1 DEF Removing
    <3> QED
      BY <2>2, <3>1, OtherAdminsStay
  <2>5. HasAdmin' \/ Untouched'
    BY <1>4, <2>3, ArriveUntouched DEF SoloInv
  <2> QED
    BY <1>4, <2>3, <2>4, <2>5 DEF SoloInv
<1>5. ASSUME NEW w \in Workers, Serve(w), SoloRemoval'
      PROVE  SoloInv' /\ (HasAdmin => HasAdmin')
  BY <1>5, SoloServe DEF SoloInv
<1> QED
  BY <1>1, <1>2, <1>3, <1>4, <1>5 DEF Next

LEMMA SoloInvInit == Init => SoloInv
BY DEF Init, Blank, SoloInv, Untouched, SoloRemoval, Removing

(***************************************************************************)
(* As long as at most one call stands between its last-admin check and its *)
(* statement, the last administrator is never deleted nor demoted, whatever *)
(* else runs, fails or restarts in between.                                *)
(***************************************************************************)
THEOREM LastAdminSafe == SoloSpec => LastAdminKept
<1> DEFINE I == TypeInv /\ IdInv /\ SoloInv
<1>1. Init => I
  BY TypeInvInit, IdInvInit, SoloInvInit
<1>2. I /\ [Next /\ SoloRemoval']_vars => I'
  BY TypeInvNext, IdInvNext, SoloInvNext
<1>3. I /\ [Next /\ SoloRemoval']_vars => [HasAdmin => HasAdmin']_vars
  BY SoloInvNext
<1> QED
  BY <1>1, <1>2, <1>3, PTL DEF SoloSpec, LastAdminKept

(***************************************************************************)
(* Seeding.  Until the first administrator exists no id has been used, so  *)
(* the seed finds its name and an id free.                                 *)
(***************************************************************************)

SeedInv == (HasAdmin \/ lastId = 0) /\ ServesAdmin

LEMMA SeedInvNext ==
  ASSUME ~Faults, TypeInv, IdInv, SoloInv, SeedInv, [Next /\ SoloRemoval']_vars
  PROVE  SeedInv'
<1>1. CASE HasAdmin
  BY <1>1, SoloInvNext DEF SeedInv, ServesAdmin
<1>2. CASE ~HasAdmin
  <2>1. users = {} /\ lastId = 0 /\ ~up
    BY <1>2 DEF SoloInv, Untouched, SeedInv, ServesAdmin
  <2>2. CASE UNCHANGED vars
    BY <2>2 DEF vars, SeedInv, ServesAdmin, HasAdmin
  <2>3. CASE Boot
    <3>1. CanInsert(SeedName)
      BY <2>1, AccountsAssumption
         DEF CanInsert, NextRowId, Ids, FindCredentials
    <3>2. Insert(SeedName, SeedPassword, "Admin")
      BY <2>1, <2>3, <3>1 DEF Boot, FindAll
    <3> DEFINE row == [id |-> NextRowId, username |-> SeedName,
                       hash |-> Hash(SeedPassword), role |-> "Admin"]
    <3>3. row \in users' /\ row.role = "Admin"
      BY <3>2 DEF Insert
    <3> QED
      BY <3>3 DEF SeedInv, ServesAdmin, HasAdmin
  <2>4. ~Crash /\ \A w \in Workers : ~Arrive(w) /\ ~Serve(w)
    BY <2>1, ZenonT(30)
    DEF Crash, At, Arrive, Login, ValidateToken, ListUsers, DeleteUser,
                CreateUser, UpdateUser, Serve, CreateSession, CreateUserLookup,
                CreateUserInsert, UpdateUserRead, UpdateUserRole,
                UpdateUserPassword, DeleteUserRead, DeleteUserRemove,
                ListUsersRead
  <2> QED
    BY <2>2, <2>3, <2>4 DEF Next
<1> QED
  BY <1>1, <1>2

(***************************************************************************)
(* When no statement fails and removals do not overlap, a running server   *)
(* always has an administrator: start-up seeding and the last-admin checks *)
(* of deleteUser and updateUser leave no way to lose every one of them.    *)
(***************************************************************************)
THEOREM AlwaysAnAdmin == ASSUME ~Faults PROVE SoloSpec => []ServesAdmin
<1> DEFINE I == TypeInv /\ IdInv /\ SoloInv /\ SeedInv
<1>1. Init => I
  BY TypeInvInit, IdInvInit, SoloInvInit DEF Init, SeedInv, ServesAdmin
<1>2. I /\ [Next /\ SoloRemoval']_vars => I'
  BY TypeInvNext, IdInvNext, SoloInvNext, SeedInvNext
<1>3. I => ServesAdmin
  BY DEF SeedInv
<1> QED
  BY <1>1, <1>2, <1>3, PTL DEF SoloSpec

(***************************************************************************)
(* Sessions.  Only createSession adds one, with a token never used before, *)
(* and only the end of the process takes any away.                         *)
(***************************************************************************)
LEMMA SessionsStep ==
  ASSUME [Next]_vars
  PROVE  \/ UNCHANGED <<sessions, issued>>
         \/ sessions' = {} /\ issued' = issued
         \/ \E w \in Workers : CreateSession(w)
<1>1. CASE Boot
  BY <1>1 DEF Boot
<1>2. CASE Crash
  BY <1>2 DEF Crash
<1>3. ASSUME NEW w \in Workers, Arrive(w)
      PROVE  UNCHANGED <<sessions, issued>>
  <2>1. ASSUME NEW name, NEW password, Login(w, name, password)
        PROVE  UNCHANGED <<sessions, issued>>
    BY <2>1 DEF Login
  <2>2. ASSUME NEW token, ValidateToken(w, token)
        PROVE  UNCHANGED <<sessions, issued>>
    BY <2>2 DEF ValidateToken
  <2>3. ASSUME NEW token, ListUsers(w, token)
        PROVE  UNCHANGED <<sessions, issued>>
    BY <2>3 DEF ListUsers, Unchecked
  <2>4. ASSUME NEW token, NEW id, DeleteUser(w, token, id)
        PROVE  UNCHANGED <<sessions, issued>>
    BY <2>4 DEF DeleteUser, Unchecked
  <2>5. ASSUME NEW token, NEW name, NEW password, NEW role, CreateUser(w, token, name, password, role)
        PROVE  UNCHANGED <<sessions, issued>>
    BY <2>5 DEF CreateUser, Unchecked
  <2>6. ASSUME NEW token, NEW id, NEW password, NEW role, UpdateUser(w, token, id, password, role)
        PROVE  UNCHANGED <<sessions, issued>>
    BY <2>6 DEF UpdateUser, Unchecked
  <2> QED
    BY <1>3, <2>1, <2>2, <2>3, <2>4, <2>5, <2>6 DEF Arrive
<1>4. ASSUME NEW w \in Workers, Serve(w), ~CreateSession(w)
      PROVE  UNCHANGED <<sessions, issued>>
  <2>1. CASE CreateUserLookup(w)
    BY <2>1 DEF CreateUserLookup, Unchecked
  <2>2. CASE CreateUserInsert(w)
    BY <2>2 DEF CreateUserInsert
  <2>3. CASE UpdateUserRead(w)
    BY <2>3 DEF UpdateUserRead, Unchecked
  <2>4. CASE UpdateUserRole(w)
    BY <2>4 DEF UpdateUserRole
  <2>5. CASE UpdateUserPassword(w)
    BY <2>5 DEF UpdateUserPassword
  <2>6. CASE DeleteUserRead(w)
    BY <2>6 DEF DeleteUserRead, Unchecked
  <2>7. CASE DeleteUserRemove(w)
    BY <2>7 DEF DeleteUserRemove
  <2>8. CASE ListUsersRead(w)
    BY <2>8 DEF ListUsersRead, Unchecked
  <2> QED
    BY <1>4, <2>1, <2>2, <2>3, <2>4, <2>5, <2>6, <2>7, <2>8 DEF Serve
<1>5. CASE UNCHANGED vars
  BY <1>5 DEF vars
<1> QED
  BY <1>1, <1>2, <1>3, <1>4, <1>5 DEF Next

\* What the one step that adds a session does to the tokens.
LEMMA CreateSessionStep ==
  ASSUME NEW w \in Workers, CreateSession(w)
  PROVE  \E t \in Tokens \ issued :
           /\ \E s : s.token = t /\ sessions' = sessions \union {s}
           /\ issued' = issued \union {t}
BY DEF CreateSession, FreshTokens

(***************************************************************************)
(* A token that was ever issued keeps its meaning or loses it: no session  *)
(* is ever added under a token that was used before, by this process or by *)
(* an earlier one.                                                         *)
(***************************************************************************)
THEOREM TokensKeepMeaning == Spec => TokenMeaning
<1>1. [Next]_vars => \A t \in issued : SessionsOf(t)' \subseteq SessionsOf(t)
  <2> SUFFICES ASSUME [Next]_vars, NEW t \in issued
               PROVE  SessionsOf(t)' \subseteq SessionsOf(t)
    OBVIOUS
  <2>1. CASE sessions' = sessions \/ sessions' = {}
    BY <2>1 DEF SessionsOf
  <2>2. ASSUME NEW w \in Workers, CreateSession(w)
        PROVE  SessionsOf(t)' \subseteq SessionsOf(t)
    BY <2>2, CreateSessionStep DEF SessionsOf
  <2> QED
    BY <2>1, <2>2, SessionsStep
<1> QED
  BY <1>1, PTL DEF Spec, TokenMeaning

(***************************************************************************)
(* The server implements TokenServer, which is all that ClientSession      *)
(* knows of it: any number of clients, calls, failures and restarts.       *)
(***************************************************************************)
THEOREM IsTokenServer == Spec => ImplementsTokenServer
<1>1. Init => Guard!Init
  BY DEF Init, Guard!Init, Accepted
<1>2. [Next]_vars => [Guard!Next]_Guard!vars
  <2> SUFFICES ASSUME [Next]_vars
               PROVE  Guard!Next \/ UNCHANGED Guard!vars
    OBVIOUS
  <2>1. CASE UNCHANGED <<sessions, issued>>
    BY <2>1 DEF Guard!vars, Accepted
  <2>2. CASE sessions' = {} /\ issued' = issued
    <3>1. Accepted' = {}
      BY <2>2 DEF Accepted
    <3> QED
      BY <2>2, <3>1 DEF Guard!Next, Guard!Restart, Guard!vars
  <2>3. ASSUME NEW w \in Workers, CreateSession(w)
        PROVE  Guard!Next
    <3>1. PICK t \in Tokens \ issued :
            /\ \E s : s.token = t /\ sessions' = sessions \union {s}
            /\ issued' = issued \union {t}
      BY <2>3, CreateSessionStep
    <3>2. Accepted' = Accepted \union {t}
      <4>1. PICK s : s.token = t /\ sessions' = sessions \union {s}
        BY <3>1
      <4> QED
        BY <4>1 DEF Accepted
    <3> QED
      BY <3>1, <3>2 DEF Guard!Next, Guard!Issue
  <2> QED
    BY <2>1, <2>2, <2>3, SessionsStep
<1> QED
  BY <1>1, <1>2, PTL DEF Spec, ImplementsTokenServer, Guard!Spec

(***************************************************************************)
(* Answers.  Scheduled is the fairness of LiveSpec with what enables a     *)
(* thread spelled out: one that stays inside a call runs its next section. *)
(* At most three sections are to come, whatever the others do in between.  *)
(***************************************************************************)
Scheduled(w) == []<>(calls[w].pc = "idle") \/ []<><<Serve(w)>>_vars

Idle(w) == calls[w].pc = "idle"
Last(w) == calls[w].pc \in {"createInsert", "updatePassword", "deleteRemove",
                            "listRead", "loginSession"}
LastButOne(w) == calls[w].pc \in {"createLookup", "updateRole", "deleteRead"}
LastButTwo(w) == calls[w].pc = "updateRead"

LEMMA AnswerUnguarded ==
  ASSUME NEW w \in Workers, NEW status, Answer(w, status)
  PROVE  calls' = [calls EXCEPT ![w] = Answered(status)]
         /\ Answered(status).pc = "idle"
  BY DEF Answer, Become, Answered, Blank

\* A section is followed by a later one or by the answer.
LEMMA SectionShape ==
  ASSUME TypeInv, NEW w \in Workers, Serve(w)
  PROVE  /\ Last(w) \/ LastButOne(w) \/ LastButTwo(w)
         /\ Last(w) => Idle(w)'
         /\ LastButOne(w) => Last(w)' \/ Idle(w)'
         /\ LastButTwo(w) => LastButOne(w)' \/ Idle(w)'
<1> USE DEF TypeInv, TypeOK, At
<1>0. ASSUME NEW status, Answer(w, status)
      PROVE  Idle(w)'
  BY <1>0, AnswerUnguarded DEF Idle
<1>1. CASE CreateUserLookup(w)
  BY <1>0, <1>1 DEF CreateUserLookup, Goto, Become, Call, Last, LastButOne,
                    LastButTwo
<1>2. CASE UpdateUserRole(w)
  BY <1>0, <1>2 DEF UpdateUserRole, Goto, Become, Call, Last, LastButOne,
                    LastButTwo
<1>3. CASE UpdateUserRead(w)
  <2>1. LastButTwo(w) /\ ~LastButOne(w) /\ ~Last(w)
    BY <1>3 DEF UpdateUserRead, Last, LastButOne, LastButTwo
  <2>2. ASSUME NEW name,
               Become(w, [calls[w] EXCEPT !.pc = "updateRole", !.name = name])
        PROVE  LastButOne(w)'
    <3> DEFINE c == [calls[w] EXCEPT !.pc = "updateRole", !.name = name]
    <3>1. c.pc = "updateRole" /\ calls' = [calls EXCEPT ![w] = c]
      BY <2>2 DEF Become, Call
    <3> HIDE DEF c
    <3> QED
      BY <3>1 DEF LastButOne
  <2> QED
    BY <1>0, <1>3, <2>1, <2>2 DEF UpdateUserRead
<1>4. CASE DeleteUserRead(w)
  <2>1. LastButOne(w) /\ ~LastButTwo(w) /\ ~Last(w)
    BY <1>4 DEF DeleteUserRead, Last, LastButOne, LastButTwo
  <2>2. ASSUME NEW name,
               Become(w, [calls[w] EXCEPT !.pc = "deleteRemove", !.name = name])
        PROVE  Last(w)'
    <3> DEFINE c == [calls[w] EXCEPT !.pc = "deleteRemove", !.name = name]
    <3>1. c.pc = "deleteRemove" /\ calls' = [calls EXCEPT ![w] = c]
      BY <2>2 DEF Become, Call
    <3> HIDE DEF c
    <3> QED
      BY <3>1 DEF Last
  <2> QED
    BY <1>0, <1>4, <2>1, <2>2 DEF DeleteUserRead
<1>5. CASE \/ CreateSession(w) \/ CreateUserInsert(w) \/ UpdateUserPassword(w)
           \/ DeleteUserRemove(w) \/ ListUsersRead(w)
  <2>1. Idle(w)'
    BY <1>0, <1>5 DEF CreateSession, CreateUserInsert, UpdateUserPassword,
                      DeleteUserRemove, ListUsersRead
  <2> QED
    BY <1>5, <2>1 DEF CreateSession, CreateUserInsert, UpdateUserPassword,
                      DeleteUserRemove, ListUsersRead, Last, LastButOne,
                      LastButTwo
<1> QED
  BY <1>1, <1>2, <1>3, <1>4, <1>5 DEF Serve

\* Nobody but its thread, or the end of the process, moves a call.
LEMMA CallMoves ==
  ASSUME TypeInv, NEW w \in Workers, [Next]_vars, ~Idle(w)
  PROVE  calls'[w] = calls[w] \/ Idle(w)' \/ Serve(w)
<1> USE DEF TypeInv, TypeOK
<1>1. CASE Crash
  BY <1>1 DEF Crash, Blank, Idle
<1>2. CASE Boot \/ UNCHANGED vars
  BY <1>2 DEF Boot, vars
<1>3. ASSUME NEW v \in Workers, Arrive(v)
      PROVE  v # w /\ calls'[w] = calls[w]
  <2>1. Idle(v)
    BY <1>3 DEF Arrive, Login, ValidateToken, ListUsers, DeleteUser, CreateUser,
                UpdateUser, At, Idle
  <2>2. ArrivalShape(v)
    BY <1>3, ArriveShape
  <2> QED
    BY <2>1, <2>2 DEF ArrivalShape
<1>4. ASSUME NEW v \in Workers, v # w, Serve(v)
      PROVE  calls'[w] = calls[w]
  BY <1>4, ServeShape DEF WorkerShape
<1> QED
  BY <1>1, <1>2, <1>3, <1>4 DEF Next

(***************************************************************************)
(* Every call is answered, whatever the other calls do and whatever fails, *)
(* if its thread is scheduled; the end of the process ends it, too.        *)
(***************************************************************************)
THEOREM ScheduledCallsAnswered ==
  Spec /\ (\A w \in Workers : Scheduled(w)) => CallsAnswered
<1> SUFFICES ASSUME NEW w \in Workers
             PROVE  Spec /\ Scheduled(w)
                      => (calls[w].pc # "idle" ~> calls[w].pc = "idle")
  BY DEF CallsAnswered
<1>1. TypeInv => Idle(w) \/ Last(w) \/ LastButOne(w) \/ LastButTwo(w)
  BY DEF TypeInv, TypeOK, Call, Places, Idle, Last, LastButOne, LastButTwo
<1>2. TypeInv /\ [Next]_vars /\ Last(w) => (Last(w) \/ Idle(w))'
  BY SectionShape, CallMoves DEF Last, Idle
<1>3. TypeInv /\ [Next]_vars /\ LastButOne(w)
        => (LastButOne(w) \/ Last(w) \/ Idle(w))'
  BY SectionShape, CallMoves DEF LastButOne, Idle
<1>4. TypeInv /\ [Next]_vars /\ LastButTwo(w)
        => (LastButTwo(w) \/ LastButOne(w) \/ Last(w) \/ Idle(w))'
  BY SectionShape, CallMoves DEF LastButTwo, Idle
<1>5. TypeInv /\ Last(w) /\ <<Serve(w)>>_vars => Idle(w)'
  BY SectionShape
<1>6. TypeInv /\ LastButOne(w) /\ <<Serve(w)>>_vars => (Last(w) \/ Idle(w))'
  BY SectionShape
<1>7. TypeInv /\ LastButTwo(w) /\ <<Serve(w)>>_vars
        => (LastButOne(w) \/ Idle(w))'
  BY SectionShape
<1>8. Spec => []TypeInv
  <2>1. TypeInv /\ IdInv => TypeInv
    OBVIOUS
  <2> QED
    BY <2>1, Invariants, PTL
<1>9. Idle(w) <=> calls[w].pc = "idle"
  BY DEF Idle
<1> QED
  BY <1>1, <1>2, <1>3, <1>4, <1>5, <1>6, <1>7, <1>8, <1>9, PTL
     DEF Spec, Scheduled

(***************************************************************************)
(* Guards.  A call behind the guard of UserServiceImpl carries the token   *)
(* of an administrator's session, which is there as long as the call is:   *)
(* the end of the process takes both.                                      *)
(***************************************************************************)
Guarded == Places \ {"idle", "loginSession"}

Cleared(call) == call.pc \in Guarded => OfAdmin(call.token)

GuardInv == \A w \in Workers : Cleared(calls[w])

\* A call put behind the guard passed it.
GuardedArrival(w) ==
  \E c : /\ calls' = [calls EXCEPT ![w] = c]
         /\ Cleared(c)

LEMMA RequireRoleGuards ==
  ASSUME NEW w \in Workers, NEW token, NEW call,
         call.pc \in Guarded => call.token = token,
         RequireRole(w, token, "Admin", call)
  PROVE  GuardedArrival(w)
<1>1. CASE \E status : Answer(w, status)
  BY <1>1, AnswerUnguarded DEF GuardedArrival, Cleared, Guarded
<1>2. CASE \E s \in SessionsOf(token) : s.role = "Admin" /\ Become(w, call)
  BY <1>2 DEF Become, GuardedArrival, Cleared, OfAdmin
<1> QED
  BY <1>1, <1>2 DEF RequireRole

LEMMA ArriveGuarded ==
  ASSUME NEW w \in Workers, Arrive(w)
  PROVE  GuardedArrival(w)
<1>1. ASSUME NEW name, NEW password, Login(w, name, password)
      PROVE  GuardedArrival(w)
  <2>1. CASE \E status : Answer(w, status)
    BY <2>1, AnswerUnguarded DEF GuardedArrival, Cleared, Guarded
  <2>2. ASSUME NEW r,
               Become(w, [Blank EXCEPT !.pc = "loginSession", !.id = r.id,
                                       !.name = name, !.role = r.role])
        PROVE  GuardedArrival(w)
    <3> DEFINE c == [Blank EXCEPT !.pc = "loginSession", !.id = r.id,
                                  !.name = name, !.role = r.role]
    <3>1. c.pc = "loginSession" /\ calls' = [calls EXCEPT ![w] = c]
      BY <2>2 DEF Become, Blank
    <3> HIDE DEF c
    <3> QED
      BY <3>1 DEF GuardedArrival, Cleared, Guarded
  <2> QED
    BY <1>1, <2>1, <2>2 DEF Login
<1>2. ASSUME NEW token, ValidateToken(w, token)
      PROVE  GuardedArrival(w)
  BY <1>2, AnswerUnguarded DEF ValidateToken, GuardedArrival, Cleared, Guarded
<1>3. ASSUME NEW token, ListUsers(w, token)
      PROVE  GuardedArrival(w)
  <2> DEFINE c == [Blank EXCEPT !.pc = "listRead", !.token = token]
  <2>1. c.token = token
    BY DEF Blank
  <2> QED
    BY <1>3, <2>1, RequireRoleGuards DEF ListUsers
<1>4. ASSUME NEW token, NEW id, DeleteUser(w, token, id)
      PROVE  GuardedArrival(w)
  <2> DEFINE c == [Blank EXCEPT !.pc = "deleteRead", !.id = id,
                                !.token = token]
  <2>1. c.token = token
    BY DEF Blank
  <2> QED
    BY <1>4, <2>1, RequireRoleGuards DEF DeleteUser
<1>5. ASSUME NEW token, NEW name, NEW password, NEW role,
             CreateUser(w, token, name, password, role)
      PROVE  GuardedArrival(w)
  <2> DEFINE c == IF name = EmptyName \/ TooShort(password)
                    THEN Answered("INVALID_ARGUMENT")
                    ELSE [Blank EXCEPT !.pc = "createLookup", !.name = name,
                                       !.password = password, !.role = role,
                                       !.token = token]
  <2>1. c.pc \in Guarded => c.token = token
    BY DEF Answered, Blank, Guarded
  <2> QED
    BY <1>5, <2>1, RequireRoleGuards DEF CreateUser
<1>6. ASSUME NEW token, NEW id, NEW password, NEW role,
             UpdateUser(w, token, id, password, role)
      PROVE  GuardedArrival(w)
  <2> DEFINE c == [Blank EXCEPT !.pc = "updateRead", !.id = id,
                                !.password = password, !.role = role,
                                !.token = token]
  <2>1. c.token = token
    BY DEF Blank
  <2> QED
    BY <1>6, <2>1, RequireRoleGuards DEF UpdateUser
<1> QED
  BY <1>1, <1>2, <1>3, <1>4, <1>5, <1>6 DEF Arrive

\* Between the guard and the answer a call keeps its token.
LEMMA ServeGuarded ==
  ASSUME NEW w \in Workers, Serve(w), TypeInv
  PROVE  /\ \E c : /\ calls' = [calls EXCEPT ![w] = c]
                   /\ c.pc \in Guarded => /\ calls[w].pc \in Guarded
                                          /\ c.token = calls[w].token
         /\ users' # users => calls[w].pc \in Guarded
         /\ calls'[w] # calls[w]
<1> USE DEF TypeInv, TypeOK
<1> DEFINE Kept(c) == /\ calls' = [calls EXCEPT ![w] = c]
                      /\ c.pc \in Guarded => /\ calls[w].pc \in Guarded
                                             /\ c.token = calls[w].token
<1>1. calls'[w] # calls[w]
  BY SectionShape DEF Last, LastButOne, LastButTwo, Idle
<1>2. calls[w].pc \in Guarded \/ CreateSession(w)
  BY DEF Serve, CreateUserLookup, CreateUserInsert, UpdateUserRead,
         UpdateUserRole, UpdateUserPassword, DeleteUserRead,
         DeleteUserRemove, ListUsersRead, At, Guarded, Places
<1>0. users' # users => calls[w].pc \in Guarded
  BY <1>2 DEF CreateSession
<1>3. CASE \E status : Answer(w, status)
  BY <1>1, <1>2, <1>3, AnswerUnguarded DEF CreateSession, Guarded
<1>4. CASE \E place, name : Become(w, [calls[w] EXCEPT !.pc = place,
                                                     !.name = name])
  <2>1. PICK place, name : Become(w, [calls[w] EXCEPT !.pc = place,
                                                      !.name = name])
    BY <1>4
  <2> DEFINE d == [calls[w] EXCEPT !.pc = place, !.name = name]
  <2>2. calls' = [calls EXCEPT ![w] = d] /\ d.token = calls[w].token
    BY <2>1 DEF Become, Call
  <2>3. calls[w].pc \in Guarded \/ d.pc \notin Guarded
    BY <1>2, <2>2, AnswerUnguarded DEF CreateSession, Guarded
  <2> HIDE DEF d
  <2>4. Kept(d)
    BY <2>2, <2>3
  <2> HIDE DEF Kept
  <2>5. \E c : Kept(c)
    BY <2>4
  <2> QED
    BY <1>0, <1>1, <2>5 DEF Kept
<1>5. CASE \E place : Goto(w, place)
  <2>1. PICK place : Goto(w, place)
    BY <1>5
  <2> DEFINE d == [calls[w] EXCEPT !.pc = place]
  <2>2. calls' = [calls EXCEPT ![w] = d] /\ d.token = calls[w].token
    BY <2>1 DEF Goto, Become, Call
  <2>3. calls[w].pc \in Guarded \/ d.pc \notin Guarded
    BY <1>2, <2>2, AnswerUnguarded DEF CreateSession, Guarded
  <2> HIDE DEF d
  <2>4. Kept(d)
    BY <2>2, <2>3
  <2> HIDE DEF Kept
  <2>5. \E c : Kept(c)
    BY <2>4
  <2> QED
    BY <1>0, <1>1, <2>5 DEF Kept
<1>6. \/ \E status : Answer(w, status)
      \/ \E place, name : Become(w, [calls[w] EXCEPT !.pc = place,
                                                    !.name = name])
      \/ \E place : Goto(w, place)
  BY DEF Serve, CreateSession, CreateUserLookup, CreateUserInsert,
         UpdateUserRead, UpdateUserRole, UpdateUserPassword, DeleteUserRead,
         DeleteUserRemove, ListUsersRead
<1> QED
  BY <1>3, <1>4, <1>5, <1>6

LEMMA GuardInvNext == TypeInv /\ GuardInv /\ [Next]_vars => GuardInv'
<1> SUFFICES ASSUME TypeInv, GuardInv, [Next]_vars PROVE GuardInv'
  OBVIOUS
<1> USE DEF TypeInv, TypeOK
<1>1. CASE Crash
  BY <1>1 DEF Crash, Blank, GuardInv, Cleared, Guarded
<1>2. CASE calls' = calls /\ sessions' = sessions
  BY <1>2 DEF GuardInv, Cleared, OfAdmin, SessionsOf
<1>3. ASSUME NEW w \in Workers, Arrive(w)
      PROVE  GuardInv'
  <2>1. sessions' = sessions
    BY <1>3, ArriveShape
  <2>2. PICK c : calls' = [calls EXCEPT ![w] = c] /\ Cleared(c)
    BY <1>3, ArriveGuarded DEF GuardedArrival
  <2> QED
    BY <2>1, <2>2 DEF GuardInv, Cleared, OfAdmin, SessionsOf
<1>4. ASSUME NEW w \in Workers, Serve(w)
      PROVE  GuardInv'
  <2>1. sessions \subseteq sessions'
    BY <1>4 DEF Serve, CreateSession, CreateUserLookup, CreateUserInsert,
                UpdateUserRead, UpdateUserRole, UpdateUserPassword,
                DeleteUserRead, DeleteUserRemove, ListUsersRead, Unchecked
  <2>2. PICK c : /\ calls' = [calls EXCEPT ![w] = c]
                 /\ c.pc \in Guarded => /\ calls[w].pc \in Guarded
                                        /\ c.token = calls[w].token
    BY <1>4, ServeGuarded
  <2> QED
    BY <2>1, <2>2 DEF GuardInv, Cleared, OfAdmin, SessionsOf
<1> QED
  BY <1>1, <1>2, <1>3, <1>4 DEF Next, Boot, vars

(***************************************************************************)
(* While the process runs, nothing changes the accounts but a call that    *)
(* carries the token of an administrator, for any number of threads, users *)
(* and tokens, and wherever it is restarted.                               *)
(***************************************************************************)
THEOREM GuardHolds == Spec => OnlyAdminsWrite
<1> DEFINE Written ==
             \E w \in Workers : calls'[w] # calls[w] /\ OfAdmin(calls[w].token)
<1>1. Init => GuardInv
  BY DEF Init, Blank, GuardInv, Cleared, Guarded
<1>2. TypeInv /\ GuardInv /\ [Next]_vars
        => (up /\ users' # users => Written)
  <2> SUFFICES ASSUME TypeInv, GuardInv, [Next]_vars, up, users' # users
               PROVE  Written
    OBVIOUS
  <2>1. ~Boot /\ ~Crash /\ ~UNCHANGED vars
    BY DEF Boot, Crash, vars
  <2>2. PICK w \in Workers : Serve(w)
    BY <2>1, ArriveShape DEF Next
  <2> QED
    BY <2>2, ServeGuarded DEF GuardInv, Cleared
<1>3. TypeInv /\ IdInv => TypeInv
  OBVIOUS
<1> QED
  BY <1>1, <1>2, <1>3, GuardInvNext, Invariants, PTL DEF Spec, OnlyAdminsWrite
=============================================================================
