------------------------- MODULE AccountStoreProofs -------------------------
(***************************************************************************)
(* Accounts implements AccountStore, for every value of the constants.     *)
(*                                                                         *)
(* Each place of a call is a stage of a request (RequestAt), each          *)
(* statement that writes is a change of the directory from usernames to    *)
(* accounts (InsertAdds, SetRoleUpdates, RemoveDeletes), and each section  *)
(* of a call is one abstract action or changes nothing abstract.           *)
(***************************************************************************)
EXTENDS AccountsProofs

\* While the process is down there is no call.
DownInv == ~up => \A w \in Workers : calls[w] = Blank

StoreInv == TypeInv /\ IdInv /\ DownInv

LEMMA DownInit == Init => DownInv
BY DEF Init, DownInv

LEMMA DownNext == DownInv /\ [Next]_vars => DownInv'
<1> SUFFICES ASSUME DownInv, [Next]_vars PROVE DownInv'
  OBVIOUS
<1>1. CASE Boot
  BY <1>1 DEF Boot, DownInv
<1>2. CASE Crash
  BY <1>2 DEF Crash, DownInv
<1>3. ASSUME NEW w \in Workers, Arrive(w) PROVE DownInv'
  <2>1. up /\ up' = up
    BY <1>3 DEF Arrive, Login, ValidateToken, ListUsers, DeleteUser, CreateUser,
                UpdateUser, Unchecked, At
  <2> QED
    BY <2>1 DEF DownInv
<1>4. ASSUME NEW w \in Workers, Serve(w) PROVE DownInv'
  <2>1. up /\ up' = up
    BY <1>4 DEF Serve, CreateSession, CreateUserLookup, CreateUserInsert,
                UpdateUserRead, UpdateUserRole, UpdateUserPassword,
                DeleteUserRead, DeleteUserRemove, ListUsersRead, Unchecked, At
  <2> QED
    BY <2>1 DEF DownInv
<1>5. CASE UNCHANGED vars
  BY <1>5 DEF vars, DownInv
<1> QED
  BY <1>1, <1>2, <1>3, <1>4, <1>5 DEF Next

LEMMA StoreAlways == Spec => []StoreInv
<1>1. Init => DownInv
  BY DownInit
<1>2. DownInv /\ [Next]_vars => DownInv'
  BY DownNext
<1>3. TypeInv /\ IdInv /\ DownInv <=> StoreInv
  BY DEF StoreInv
<1> QED
  BY <1>1, <1>2, <1>3, Invariants, PTL DEF Spec

-----------------------------------------------------------------------------
(* The directory.                                                           *)

\* AccountsByName, of any rows.
Directory(rows) ==
  [n \in {r.username : r \in rows} |->
     LET row == CHOOSE r \in rows : r.username = n
     IN  [id |-> row.id, role |-> row.role]]

OneRowEach(rows) == \A r, s \in rows : r.username = s.username => r = s

LEMMA DirectoryIs ==
  ASSUME NEW rows, OneRowEach(rows)
  PROVE  /\ DOMAIN Directory(rows) = {r.username : r \in rows}
         /\ \A r \in rows :
              Directory(rows)[r.username] = [id |-> r.id, role |-> r.role]
<1>1. \A r \in rows : (CHOOSE s \in rows : s.username = r.username) = r
  BY DEF OneRowEach
<1> QED
  BY <1>1 DEF Directory

\* A function with the same entries is the directory.
LEMMA DirectoryOf ==
  ASSUME NEW rows, OneRowEach(rows), NEW D, D = {r.username : r \in rows},
         NEW f, f = [n \in D |-> f[n]],
         \A r \in rows : f[r.username] = [id |-> r.id, role |-> r.role]
  PROVE  Directory(rows) = f
<1>1. Directory(rows) = [n \in D |-> Directory(rows)[n]]
  BY DEF Directory
<1>2. ASSUME NEW n \in D PROVE Directory(rows)[n] = f[n]
  <2>1. PICK r \in rows : r.username = n
    OBVIOUS
  <2> QED
    BY <2>1, DirectoryIs
<1> QED
  BY <1>1, <1>2

LEMMA AccountsAre ==
  ASSUME IdInv
  PROVE  /\ AccountsByName = Directory(users) /\ OneRowEach(users)
         /\ AccountsByName' = Directory(users')
<1>1. OneRowEach(users)
  BY DEF IdInv, UsernamesUnique, OneRowEach
<1>2. AccountsByName = Directory(users)
  BY DEF AccountsByName, Directory
<1>3. AccountsByName' = Directory(users')
  BY DEF AccountsByName, Directory
<1> QED
  BY <1>1, <1>2, <1>3

\* A row is held by one name, its own.
LEMMA HoldersAre ==
  ASSUME TypeInv, IdInv, NEW r \in users
  PROVE  /\ Store!Holders(r.id) = {r.username}
         /\ AccountsByName[r.username] = [id |-> r.id, role |-> r.role]
<1>1. /\ DOMAIN AccountsByName = {s.username : s \in users}
      /\ \A s \in users :
           AccountsByName[s.username] = [id |-> s.id, role |-> s.role]
  BY AccountsAre, DirectoryIs, ZenonT(30)
<1> DEFINE N == DOMAIN AccountsByName
           a(n) == AccountsByName[n].id
<1>2. ASSUME NEW s \in users PROVE s.username \in N /\ a(s.username) = s.id
  <2>1. AccountsByName[s.username] = [id |-> s.id, role |-> s.role]
    BY <1>1
  <2>2. s.username \in {t.username : t \in users}
    OBVIOUS
  <2>3. s.username \in N
    BY <1>1, <2>2
  <2> QED
    BY <2>1, <2>3
<1>3. \A n \in N : \E s \in users : s.username = n
  <2>1. N = {s.username : s \in users}
    BY <1>1
  <2> HIDE DEF N
  <2> QED
    BY <2>1
<1>4. \A s \in users : s.id = r.id => s = r
  BY DEF IdInv, UsernamesUnique
<1>5. \A n : n \in Store!Holders(r.id) <=>
           n \in N /\ a(n) = r.id
  BY DEF Store!Holders
<1> HIDE DEF N, a
<1>6. ASSUME NEW n \in Store!Holders(r.id) PROVE n = r.username
  <2>1. PICK s \in users : s.username = n
    BY <1>3, <1>5
  <2> QED
    BY <1>2, <1>4, <1>5, <2>1
<1>7. r.username \in Store!Holders(r.id)
  BY <1>2, <1>5
<1> QED
  BY <1>1, <1>6, <1>7

\* A stored row is an account added under an id that was not used.
LEMMA InsertAdds ==
  ASSUME StoreInv, IdInv', NEW name, NEW password, NEW role,
         Insert(name, password, role)
  PROVE  Store!Add(name, role)
<1> DEFINE row == [id |-> lastId + 1, username |-> name,
                   hash |-> Hash(password), role |-> role]
           D == DOMAIN AccountsByName
           entry == [id |-> lastId + 1, role |-> role]
           f == [n \in D \union {name} |->
                   IF n = name THEN entry ELSE AccountsByName[n]]
<1>1. /\ lastId' = lastId + 1 /\ lastId + 1 \in Ids
      /\ users' = users \union {row}
      /\ \A r \in users : r.username # name
  BY DEF Insert, CanInsert, NextRowId, FindCredentials
<1>2. row.username = name /\ row.id = lastId + 1 /\ row.role = role
  OBVIOUS
<1>3. /\ OneRowEach(users')
      /\ D = {r.username : r \in users}
      /\ \A r \in users :
           AccountsByName[r.username] = [id |-> r.id, role |-> r.role]
  <2>1. OneRowEach(users')
    BY DEF IdInv, UsernamesUnique, OneRowEach
  <2> QED
    BY <2>1, AccountsAre, DirectoryIs DEF StoreInv
<1> HIDE DEF row, D
<1>4. D \union {name} = {r.username : r \in users'}
  BY <1>1, <1>2, <1>3
<1>5. ASSUME NEW r \in users' PROVE f[r.username] = [id |-> r.id, role |-> r.role]
  <2>1. CASE r = row
    BY <1>2, <2>1
  <2>2. CASE r \in users
    <3>1. r.username # name /\ r.username \in D
      BY <1>1, <1>3, <2>2
    <3> QED
      BY <1>3, <2>2, <3>1
  <2> QED
    BY <1>1, <2>1, <2>2
<1>6. AccountsByName' = f
  <2> DEFINE E == D \union {name}
  <2>1. f = [n \in E |-> f[n]]
    OBVIOUS
  <2>2. OneRowEach(users') /\ E = {r.username : r \in users'}
    BY <1>3, <1>4
  <2> HIDE DEF f, E
  <2>3. Directory(users') = f
    BY <1>5, <2>1, <2>2, DirectoryOf
  <2> QED
    BY <2>3, AccountsAre DEF StoreInv
<1>7. name \notin D
  BY <1>1, <1>3
<1>8. lastId + 1 \notin 1 .. lastId /\ 1 .. lastId' = 1 .. lastId \union {lastId + 1}
  <2>1. lastId \in Nat
    BY AccountsAssumption DEF StoreInv, TypeInv, TypeOK, Ids
  <2> QED
    BY <1>1, <2>1
<1> QED
  BY <1>1, <1>6, <1>7, <1>8 DEF Store!Add, D

\* A role that is stored is the change of one account.
LEMMA SetRoleUpdates ==
  ASSUME StoreInv, IdInv', NEW r \in users, NEW role, SetRole(r.id, role)
  PROVE  AccountsByName' = [AccountsByName EXCEPT ![r.username].role = role]
<1> DEFINE D == DOMAIN AccountsByName
           f == [AccountsByName EXCEPT ![r.username].role = role]
           new(s) == IF s.id = r.id THEN [s EXCEPT !.role = role] ELSE s
<1>1. /\ OneRowEach(users')
      /\ D = {s.username : s \in users}
      /\ AccountsByName = Directory(users)
      /\ \A s \in users :
           AccountsByName[s.username] = [id |-> s.id, role |-> s.role]
  <2>1. OneRowEach(users')
    BY DEF IdInv, UsernamesUnique, OneRowEach
  <2> QED
    BY <2>1, AccountsAre, DirectoryIs, ZenonT(30) DEF StoreInv
<1>2. users' = {new(s) : s \in users}
  BY DEF SetRole
<1>3. ASSUME NEW s \in users
      PROVE  /\ new(s).username = s.username /\ new(s).id = s.id
             /\ s = r => new(s).role = role
             /\ s # r => new(s) = s /\ s.username # r.username
  BY DEF StoreInv, TypeInv, TypeOK, IdInv, UsernamesUnique, Row
<1> HIDE DEF new
<1>4. D = {s.username : s \in users'}
  <2>1. \A s \in users' : \E t \in users : s.username = t.username
    BY <1>2, <1>3
  <2>2. \A t \in users : \E s \in users' : s.username = t.username
    BY <1>2, <1>3
  <2> QED
    BY <1>1, <2>1, <2>2
<1>5. AccountsByName = [n \in D |-> AccountsByName[n]]
  BY <1>1 DEF Directory
<1>6. f = [n \in D |-> IF n = r.username
                         THEN [AccountsByName[n] EXCEPT !.role = role]
                         ELSE AccountsByName[n]]
  BY <1>5
<1>7. ASSUME NEW q \in users' PROVE f[q.username] = [id |-> q.id, role |-> q.role]
  <2>1. PICK s \in users : q = new(s)
    BY <1>2
  <2>2. q.username = s.username /\ s.username \in D
    BY <1>1, <1>3, <2>1
  <2>3. CASE s = r
    <3>1. f[q.username] = [[id |-> r.id, role |-> r.role] EXCEPT !.role = role]
      BY <1>1, <1>6, <2>2, <2>3
    <3>2. q.id = r.id /\ q.role = role
      BY <1>3, <2>1, <2>3
    <3> QED
      BY <3>1, <3>2
  <2>4. CASE s # r
    <3>1. f[q.username] = AccountsByName[s.username]
      BY <1>3, <1>6, <2>2, <2>4
    <3>2. q = s
      BY <1>3, <2>1, <2>4
    <3> QED
      BY <1>1, <3>1, <3>2
  <2> QED
    BY <2>3, <2>4
<1>8. f = [n \in D |-> f[n]]
  BY <1>6
<1> HIDE DEF f, D
<1>9. OneRowEach(users')
  BY <1>1
<1>10. Directory(users') = f
  BY <1>4, <1>7, <1>8, <1>9, DirectoryOf
<1> QED
  BY <1>10, AccountsAre DEF f, StoreInv

\* A new password is no change.
LEMMA SetPasswordIsSilent ==
  ASSUME StoreInv, IdInv', NEW id, NEW password, SetPassword(id, password)
  PROVE  AccountsByName' = AccountsByName
<1> DEFINE D == DOMAIN AccountsByName
           new(s) == IF s.id = id THEN [s EXCEPT !.hash = Hash(password)] ELSE s
<1>1. /\ OneRowEach(users')
      /\ D = {s.username : s \in users}
      /\ AccountsByName = Directory(users)
      /\ \A s \in users :
           AccountsByName[s.username] = [id |-> s.id, role |-> s.role]
  <2>1. OneRowEach(users')
    BY DEF IdInv, UsernamesUnique, OneRowEach
  <2> QED
    BY <2>1, AccountsAre, DirectoryIs, ZenonT(30) DEF StoreInv
<1>2. users' = {new(s) : s \in users}
  BY DEF SetPassword
<1>3. ASSUME NEW s \in users
      PROVE  /\ new(s).username = s.username /\ new(s).id = s.id
             /\ new(s).role = s.role
  BY DEF StoreInv, TypeInv, TypeOK, Row
<1> HIDE DEF new
<1>4. D = {s.username : s \in users'}
  <2>1. \A s \in users' : \E t \in users : s.username = t.username
    BY <1>2, <1>3
  <2>2. \A t \in users : \E s \in users' : s.username = t.username
    BY <1>2, <1>3
  <2> QED
    BY <1>1, <2>1, <2>2
<1>5. AccountsByName = [n \in D |-> AccountsByName[n]]
  BY <1>1 DEF Directory
<1>6. ASSUME NEW q \in users'
      PROVE  AccountsByName[q.username] = [id |-> q.id, role |-> q.role]
  <2>1. PICK s \in users : q = new(s)
    BY <1>2
  <2>2. q.username = s.username /\ q.id = s.id /\ q.role = s.role
    BY <1>3, <2>1
  <2> QED
    BY <1>1, <2>2
<1> HIDE DEF D
<1>7. Directory(users') = AccountsByName
  BY <1>1, <1>4, <1>5, <1>6, DirectoryOf
<1> QED
  BY <1>7, AccountsAre DEF StoreInv

\* A row that is removed is the account of its one holder.
LEMMA RemoveDeletes ==
  ASSUME StoreInv, IdInv', NEW r \in users, Remove(r.id)
  PROVE  AccountsByName' =
           [n \in DOMAIN AccountsByName \ {r.username} |-> AccountsByName[n]]
<1> DEFINE D == DOMAIN AccountsByName \ {r.username}
           f == [n \in D |-> AccountsByName[n]]
<1>1. /\ OneRowEach(users')
      /\ DOMAIN AccountsByName = {s.username : s \in users}
      /\ \A s \in users :
           AccountsByName[s.username] = [id |-> s.id, role |-> s.role]
  <2>1. OneRowEach(users')
    BY DEF IdInv, UsernamesUnique, OneRowEach
  <2> QED
    BY <2>1, AccountsAre, DirectoryIs, ZenonT(30) DEF StoreInv
<1>2. \A s \in users : s \in users' <=> s.username # r.username
  BY DEF StoreInv, IdInv, UsernamesUnique, Remove
<1>3. users' \subseteq users
  BY DEF Remove
<1>4. D = {s.username : s \in users'}
  BY <1>1, <1>2, <1>3
<1>5. ASSUME NEW s \in users' PROVE f[s.username] = [id |-> s.id, role |-> s.role]
  <2>1. s \in users /\ s.username \in D
    BY <1>3, <1>4
  <2> QED
    BY <1>1, <2>1
<1>6. f = [n \in D |-> f[n]]
  OBVIOUS
<1> HIDE DEF f, D
<1>7. Directory(users') = f
  BY <1>1, <1>4, <1>5, <1>6, DirectoryOf
<1> QED
  BY <1>7, AccountsAre DEF f, D, StoreInv
-----------------------------------------------------------------------------
(* The requests.                                                            *)

Requested == [w \in Workers |-> RequestOf(calls[w])]

Stage(kind, id, name, role, done, reply) ==
  [kind |-> kind, id |-> id, name |-> name, role |-> role, done |-> done,
   reply |-> reply]

LEMMA StageReply ==
  ASSUME NEW kind, NEW id, NEW name, NEW role, NEW done, NEW reply, NEW new
  PROVE  [Stage(kind, id, name, role, done, reply) EXCEPT !.reply = new] =
           Stage(kind, id, name, role, done, new)
BY DEF Stage

\* Each place of a call is a stage of a request.
LEMMA RequestAt ==
  ASSUME NEW c
  PROVE  /\ c.pc = "idle" =>
              RequestOf(c) = Stage("none", 0, EmptyName, "User", FALSE, c.reply)
         /\ c.pc \in {"createLookup", "createInsert"} =>
              RequestOf(c) = Stage("create", 0, c.name, c.role, FALSE, c.reply)
         /\ c.pc \in {"updateRead", "updateRole"} =>
              RequestOf(c) = Stage("update", c.id, EmptyName, c.role, FALSE, c.reply)
         /\ c.pc = "updatePassword" =>
              RequestOf(c) = Stage("update", c.id, EmptyName, c.role, TRUE, c.reply)
         /\ c.pc \in {"deleteRead", "deleteRemove"} =>
              RequestOf(c) = Stage("delete", c.id, EmptyName, "User", FALSE, c.reply)
         /\ c.pc \in {"listRead", "loginSession"} =>
              RequestOf(c) = Stage("other", 0, EmptyName, "User", FALSE, c.reply)
<1>1. c.pc = "idle" => KindOf(c) = "none"
  BY DEF KindOf
<1>2. c.pc \in {"createLookup", "createInsert"} => KindOf(c) = "create"
  BY DEF KindOf
<1>3. c.pc \in {"updateRead", "updateRole", "updatePassword"} => KindOf(c) = "update"
  BY DEF KindOf
<1>4. c.pc \in {"deleteRead", "deleteRemove"} => KindOf(c) = "delete"
  BY DEF KindOf
<1>5. c.pc \in {"listRead", "loginSession"} => KindOf(c) = "other"
  BY DEF KindOf
<1> QED
  BY <1>1, <1>2, <1>3, <1>4, <1>5 DEF RequestOf, Stage

LEMMA RequestIs ==
  ASSUME NEW w \in Workers
  PROVE  Requested[w] = RequestOf(calls[w])
BY DEF Requested

\* A call that is replaced is a request that is replaced.
LEMMA BecomeRequest ==
  ASSUME TypeInv, NEW w \in Workers, NEW c, Become(w, c)
  PROVE  /\ Requested' = [Requested EXCEPT ![w] = RequestOf(c)]
         /\ Requested'[w] = RequestOf(c)
<1>1. calls' = [calls EXCEPT ![w] = c] /\ DOMAIN calls = Workers
  BY DEF Become, TypeInv, TypeOK
<1> QED
  BY <1>1 DEF Requested

LEMMA SameRequest ==
  ASSUME TypeInv, NEW w \in Workers, NEW c, Become(w, c),
         RequestOf(c) = RequestOf(calls[w]), UNCHANGED <<users, lastId>>
  PROVE  UNCHANGED Store!vars
<1>1. calls' = [calls EXCEPT ![w] = c] /\ DOMAIN calls = Workers
  BY DEF Become, TypeInv, TypeOK
<1>2. Requested' = Requested
  BY <1>1 DEF Requested
<1>3. AccountsByName' = AccountsByName
  BY DEF AccountsByName
<1> QED
  BY <1>2, <1>3 DEF Requested, Store!vars

LEMMA NoRequestIs ==
  /\ RequestOf(Blank) = Store!NoRequest
  /\ \A status : RequestOf(Answered(status)) =
                   [Store!NoRequest EXCEPT !.reply = status]
<1>1. Blank.pc = "idle" /\ Blank.reply = "none"
  BY DEF Blank
<1>2. ASSUME NEW status
      PROVE  Answered(status).pc = "idle" /\ Answered(status).reply = status
  BY DEF Answered, Blank
<1>3. RequestOf(Blank) = Stage("none", 0, EmptyName, "User", FALSE, "none")
  BY <1>1, RequestAt
<1>4. ASSUME NEW status
      PROVE  RequestOf(Answered(status)) =
               Stage("none", 0, EmptyName, "User", FALSE, status)
  BY <1>2, RequestAt
<1>5. Stage("none", 0, EmptyName, "User", FALSE, "none") = Store!NoRequest
  BY DEF Stage, Store!NoRequest
<1>6. ASSUME NEW status
      PROVE  [Store!NoRequest EXCEPT !.reply = status] =
               Stage("none", 0, EmptyName, "User", FALSE, status)
  <2>1. [Stage("none", 0, EmptyName, "User", FALSE, "none") EXCEPT !.reply = status] =
          Stage("none", 0, EmptyName, "User", FALSE, status)
    <3> DEFINE no == FALSE
    <3> HIDE DEF no
    <3>1. [Stage("none", 0, EmptyName, "User", no, "none") EXCEPT !.reply = status] =
            Stage("none", 0, EmptyName, "User", no, status)
      BY StageReply
    <3> QED
      BY <3>1, Zenon DEF no
  <2> QED
    BY <1>5, <2>1, Zenon
<1> QED
  BY <1>3, <1>4, <1>5, <1>6

LEMMA AnswerRequest ==
  ASSUME TypeInv, NEW w \in Workers, NEW status, Answer(w, status)
  PROVE  Store!Replied(w, status)
<1>1. Requested' = [Requested EXCEPT ![w] = RequestOf(Answered(status))]
  BY BecomeRequest DEF Answer
<1> QED
  BY <1>1, NoRequestIs DEF Store!Replied, Requested

-----------------------------------------------------------------------------
(* The steps.                                                               *)

\* A call that arrives is answered at once or asked.
LEMMA ArrivesAsRequest ==
  ASSUME TypeInv, NEW w \in Workers, At(w, "idle"), NEW call \in Call,
         call.reply = "none", call.pc \notin {"idle", "updatePassword"},
         \/ Become(w, call)
         \/ \E status \in Store!Refusals \union {"OK"} : Answer(w, status),
         UNCHANGED <<users, lastId>>
  PROVE  Store!Ask(w) \/ Store!Read(w)
<1>1. /\ UNCHANGED <<AccountsByName, 1 .. lastId>>
      /\ Requested[w].kind = "none"
  <2>1. calls[w].pc = "idle"
    BY DEF At
  <2>2. Requested[w].kind = "none"
    BY <2>1, RequestIs, RequestAt DEF Stage
  <2> QED
    BY <2>2 DEF AccountsByName
<1>2. CASE \E status \in Store!Refusals \union {"OK"} : Answer(w, status)
  BY <1>1, <1>2, AnswerRequest DEF Store!Read, Requested
<1>3. CASE Become(w, call)
  <2> DEFINE Pending ==
               [kind : Store!Kinds, id : Ids \union {0},
                name : Names \union {EmptyName}, role : Store!Roles,
                done : {FALSE}, reply : {"none"}]
  <2>1. RequestOf(call) \in Pending
    <3>1. /\ call.pc \in Places /\ call.id \in Ids \union {0}
          /\ call.name \in Names \union {EmptyName} /\ call.role \in Roles
      BY DEF Call
    <3>0. {"create", "update"} \subseteq Store!Kinds
      BY DEF Store!Kinds
    <3>2. ASSUME NEW kind \in Store!Kinds, NEW id \in Ids \union {0},
                 NEW name \in Names \union {EmptyName}, NEW role \in Roles
          PROVE  Stage(kind, id, name, role, FALSE, "none") \in Pending
      BY DEF Stage, Roles, Store!Roles
    <3> HIDE DEF Pending
    <3>3. CASE call.pc \in {"createLookup", "createInsert"}
      <4>1. RequestOf(call) = Stage("create", 0, call.name, call.role, FALSE, "none")
        BY <3>3, RequestAt
      <4> QED
        <5>1. Stage("create", 0, call.name, call.role, FALSE, "none") \in Pending
          BY <3>1, <3>2, <3>0
        <5> QED
          BY <4>1, <5>1
    <3>4. CASE call.pc \in {"updateRead", "updateRole"}
      <4>1. RequestOf(call) =
              Stage("update", call.id, EmptyName, call.role, FALSE, "none")
        BY <3>4, RequestAt
      <4> QED
        <5>1. Stage("update", call.id, EmptyName, call.role, FALSE, "none") \in Pending
          BY <3>1, <3>2, <3>0
        <5> QED
          BY <4>1, <5>1
    <3>5. CASE call.pc \in {"deleteRead", "deleteRemove"}
      <4>1. RequestOf(call) =
              Stage("delete", call.id, EmptyName, "User", FALSE, "none")
        BY <3>5, RequestAt
      <4> QED
        BY <3>1, <3>2, <4>1 DEF Store!Kinds, Roles
    <3>6. CASE call.pc \in {"listRead", "loginSession"}
      <4>1. RequestOf(call) = Stage("other", 0, EmptyName, "User", FALSE, "none")
        BY <3>6, RequestAt
      <4> QED
        BY <3>2, <4>1 DEF Store!Kinds, Roles
    <3> QED
      BY <3>1, <3>3, <3>4, <3>5, <3>6 DEF Places
  <2>2. /\ Requested' = [Requested EXCEPT ![w] = Requested'[w]]
        /\ Requested'[w] \in Pending
    BY <1>3, <2>1, BecomeRequest
  <2> QED
    BY <1>1, <2>2 DEF Store!Ask, Requested
<1> QED
  BY <1>2, <1>3

LEMMA ArriveRefines ==
  ASSUME TypeInv, NEW w \in Workers, Arrive(w)
  PROVE  Store!Ask(w) \/ Store!Read(w)
<1>0. /\ UNCHANGED <<users, lastId>> /\ At(w, "idle")
  BY ArriveShape DEF Arrive, Login, ValidateToken, ListUsers, DeleteUser,
                     CreateUser, UpdateUser
<1> DEFINE Step(call) ==
             \/ Become(w, call)
             \/ \E status \in Store!Refusals \union {"OK"} : Answer(w, status)
           Fit(call) == /\ call \in Call /\ call.reply = "none"
                        /\ call.pc \notin {"idle", "updatePassword"}
           list(t) == [Blank EXCEPT !.pc = "listRead", !.token = t]
<1>1. ASSUME NEW t \in Tokens \union {NoToken} PROVE Fit(list(t))
  BY DEF Blank, Call, Places, Statuses, AskedPasswords, Roles
<1>2. ASSUME NEW token, NEW minimum, NEW call, RequireRole(w, token, minimum, call)
      PROVE  Step(call)
  BY <1>2 DEF RequireRole, Store!Refusals
<1>3. ASSUME NEW call, Fit(call), Step(call)
      PROVE  Store!Ask(w) \/ Store!Read(w)
  BY <1>0, <1>3, ArrivesAsRequest
<1>4. ASSUME NEW status \in Store!Refusals \union {"OK"}, Answer(w, status)
      PROVE  Store!Ask(w) \/ Store!Read(w)
  <2>1. Step(list(NoToken))
    BY <1>4
  <2> HIDE DEF Step, Fit, list
  <2> QED
    BY <1>1, <1>3, <2>1
<1>5. ASSUME NEW name \in Names, NEW password \in AskedPasswords,
             Login(w, name, password)
      PROVE  Store!Ask(w) \/ Store!Read(w)
  <2>1. CASE Answer(w, "UNAUTHENTICATED")
    BY <1>4, <2>1 DEF Store!Refusals
  <2>2. ASSUME NEW r \in FindCredentials(name),
               Become(w, [Blank EXCEPT !.pc = "loginSession", !.id = r.id,
                                       !.name = name, !.role = r.role])
        PROVE  Store!Ask(w) \/ Store!Read(w)
    <3> DEFINE c == [Blank EXCEPT !.pc = "loginSession", !.id = r.id,
                                  !.name = name, !.role = r.role]
    <3>1. r.id \in Ids /\ r.role \in Roles
      BY DEF FindCredentials, TypeInv, TypeOK, Row
    <3>2. Fit(c)
      BY <3>1 DEF Blank, Call, Places, Statuses, AskedPasswords, Roles
    <3>3. Step(c)
      BY <2>2
    <3> HIDE DEF c, Step, Fit
    <3> QED
      BY <1>3, <3>2, <3>3
  <2> QED
    BY <1>5, <2>1, <2>2 DEF Login
<1>6. ASSUME NEW token, ValidateToken(w, token)
      PROVE  Store!Ask(w) \/ Store!Read(w)
  <2>1. \E status \in Store!Refusals \union {"OK"} : Answer(w, status)
    BY <1>6 DEF ValidateToken, Store!Refusals
  <2> QED
    BY <1>4, <2>1
<1>7. ASSUME NEW token \in Tokens \union {NoToken}, ListUsers(w, token)
      PROVE  Store!Ask(w) \/ Store!Read(w)
  <2>1. Step(list(token))
    BY <1>2, <1>7 DEF ListUsers
  <2> HIDE DEF Step, Fit, list
  <2> QED
    BY <1>1, <1>3, <2>1
<1>8. ASSUME NEW token \in Tokens \union {NoToken}, NEW id \in Ids,
             DeleteUser(w, token, id)
      PROVE  Store!Ask(w) \/ Store!Read(w)
  <2> DEFINE c == [Blank EXCEPT !.pc = "deleteRead", !.id = id, !.token = token]
  <2>1. Fit(c)
    BY DEF Blank, Call, Places, Statuses, AskedPasswords, Roles
  <2>2. Step(c)
    BY <1>2, <1>8 DEF DeleteUser
  <2> HIDE DEF c, Step, Fit
  <2> QED
    BY <1>3, <2>1, <2>2
<1>9. ASSUME NEW token \in Tokens \union {NoToken},
             NEW name \in Names \union {EmptyName},
             NEW password \in AskedPasswords, NEW role \in Roles,
             CreateUser(w, token, name, password, role)
      PROVE  Store!Ask(w) \/ Store!Read(w)
  <2> DEFINE c == [Blank EXCEPT !.pc = "createLookup", !.name = name,
                                !.password = password, !.role = role,
                                !.token = token]
             refused == name = EmptyName \/ TooShort(password)
  <2>1. Step(IF refused THEN Answered("INVALID_ARGUMENT") ELSE c)
    BY <1>2, <1>9 DEF CreateUser
  <2>2. CASE refused
    <3>1. \E status \in Store!Refusals \union {"OK"} : Answer(w, status)
      BY <2>1, <2>2 DEF Answer, Store!Refusals
    <3> QED
      BY <1>4, <3>1
  <2>3. CASE ~refused
    <3>1. Fit(c)
      BY DEF Blank, Call, Places, Statuses, AskedPasswords, Roles
    <3>2. Step(c)
      BY <2>1, <2>3
    <3> HIDE DEF c, Step, Fit
    <3> QED
      BY <1>3, <3>1, <3>2
  <2> QED
    BY <2>2, <2>3
<1>10. ASSUME NEW token \in Tokens \union {NoToken}, NEW id \in Ids,
              NEW password \in AskedPasswords,
              NEW role \in Roles, UpdateUser(w, token, id, password, role)
       PROVE  Store!Ask(w) \/ Store!Read(w)
  <2> DEFINE c == [Blank EXCEPT !.pc = "updateRead", !.id = id,
                                !.password = password, !.role = role,
                                !.token = token]
  <2>1. Fit(c)
    BY DEF Blank, Call, Places, Statuses, AskedPasswords, Roles
  <2>2. Step(c)
    BY <1>2, <1>10 DEF UpdateUser
  <2> HIDE DEF c, Step, Fit
  <2> QED
    BY <1>3, <2>1, <2>2
<1> QED
  BY <1>5, <1>6, <1>7, <1>8, <1>9, <1>10 DEF Arrive

LEMMA ServeRefines ==
  ASSUME StoreInv, IdInv', NEW w \in Workers, Serve(w)
  PROVE  Store!Next \/ UNCHANGED Store!vars
<1> DEFINE c == calls[w]
<1>1. /\ TypeInv /\ calls[w] \in Call /\ Requested[w] = RequestOf(c)
  BY RequestIs DEF StoreInv, TypeInv, TypeOK
<1>2. ASSUME NEW status, Answer(w, status) PROVE Store!Replied(w, status)
  BY <1>1, <1>2, AnswerRequest
<1>3. UNCHANGED users => UNCHANGED AccountsByName
  BY DEF AccountsByName
\* The ways a section refuses, answers a reading or only moves on.
<1>4. ASSUME c.pc \in {"createLookup", "createInsert", "updateRead", "updateRole",
                       "deleteRead", "deleteRemove"},
             NEW status \in Store!Refusals, Answer(w, status),
             UNCHANGED <<users, lastId>>
      PROVE  Store!Refuse(w)
  <2>1. Requested[w].kind \in Store!Kinds /\ ~Requested[w].done
    BY <1>1, <1>4, RequestAt DEF Stage, Store!Kinds
  <2>2. Store!Replied(w, status)
    BY <1>2, <1>4
  <2>3. UNCHANGED <<AccountsByName, 1 .. lastId>>
    BY <1>3, <1>4
  <2> QED
    BY <2>1, <2>2, <2>3 DEF Store!Refuse, Requested
<1>5. ASSUME c.pc \in {"loginSession", "listRead"}, Answer(w, "OK"),
             UNCHANGED <<users, lastId>>
      PROVE  Store!Read(w)
  <2>1. Requested[w].kind = "other"
    BY <1>1, <1>5, RequestAt DEF Stage
  <2>2. UNCHANGED <<AccountsByName, 1 .. lastId>>
    BY <1>3, <1>5
  <2> QED
    BY <1>2, <1>5, <2>1, <2>2 DEF Store!Read, Requested
<1>6. ASSUME NEW d, Become(w, d), RequestOf(d) = RequestOf(c),
             UNCHANGED <<users, lastId>>
      PROVE  UNCHANGED Store!vars
  BY <1>1, <1>6, SameRequest
<1>7. {"UNAUTHENTICATED", "INVALID_ARGUMENT", "NOT_FOUND", "UNKNOWN"}
        \subseteq Store!Refusals
  BY DEF Store!Refusals
<1>8. CASE CreateSession(w) \/ ListUsersRead(w)
  <2>1. c.pc \in {"loginSession", "listRead"} /\ Answer(w, "OK")
        /\ UNCHANGED <<users, lastId>>
    BY <1>8 DEF CreateSession, ListUsersRead, Unchecked, At
  <2> QED
    BY <1>5, <2>1 DEF Store!Next
<1>9. CASE CreateUserLookup(w)
  <2>1. c.pc = "createLookup" /\ UNCHANGED <<users, lastId>>
    BY <1>9 DEF CreateUserLookup, Unchecked, At
  <2>2. CASE Answer(w, "INVALID_ARGUMENT") \/ Answer(w, "UNKNOWN")
    BY <1>4, <1>7, <2>1, <2>2 DEF Store!Next
  <2>3. CASE Goto(w, "createInsert")
    <3> DEFINE d == [calls[w] EXCEPT !.pc = "createInsert"]
    <3>1. d.pc = "createInsert" /\ d.name = c.name /\ d.role = c.role
          /\ d.reply = c.reply
      BY <1>1 DEF Call
    <3>2. Become(w, d)
      BY <2>3 DEF Goto
    <3> HIDE DEF d
    <3>3. RequestOf(d) = RequestOf(c)
      BY <2>1, <3>1, RequestAt
    <3> QED
      BY <1>6, <2>1, <3>2, <3>3
  <2> QED
    BY <1>9, <2>2, <2>3 DEF CreateUserLookup
<1>10. CASE CreateUserInsert(w)
  <2>1. c.pc = "createInsert"
    BY <1>10 DEF CreateUserInsert, At
  <2>2. CASE Insert(c.name, c.password, c.role) /\ Answer(w, "OK")
    <3>1. RequestOf(c) = Stage("create", 0, c.name, c.role, FALSE, c.reply)
      BY <2>1, RequestAt
    <3>2. /\ Requested[w].kind = "create" /\ Requested[w].name = c.name
          /\ Requested[w].role = c.role
      BY <1>1, <3>1 DEF Stage
    <3>3. Store!Add(c.name, c.role)
      BY <2>2, InsertAdds
    <3>4. Store!Create(w)
      BY <1>2, <2>2, <3>2, <3>3 DEF Store!Create, Requested
    <3> QED
      BY <3>4 DEF Store!Next
  <2>3. CASE Answer(w, "INVALID_ARGUMENT") /\ UNCHANGED <<users, lastId>>
    BY <1>4, <1>7, <2>1, <2>3 DEF Store!Next
  <2> QED
    BY <1>10, <2>2, <2>3 DEF CreateUserInsert
<1>11. CASE UpdateUserRead(w)
  <2>1. c.pc = "updateRead" /\ UNCHANGED <<users, lastId>>
    BY <1>11 DEF UpdateUserRead, Unchecked, At
  <2>2. CASE Answer(w, "INVALID_ARGUMENT")
    BY <1>4, <1>7, <2>1, <2>2 DEF Store!Next
  <2>3. ASSUME NEW name, Become(w, [calls[w] EXCEPT !.pc = "updateRole",
                                                    !.name = name])
        PROVE  UNCHANGED Store!vars
    <3> DEFINE d == [calls[w] EXCEPT !.pc = "updateRole", !.name = name]
    <3>1. d.pc = "updateRole" /\ d.id = c.id /\ d.role = c.role
          /\ d.reply = c.reply
      BY <1>1 DEF Call
    <3>2. Become(w, d)
      BY <2>3
    <3> HIDE DEF d
    <3>3. RequestOf(d) = RequestOf(c)
      BY <2>1, <3>1, RequestAt
    <3> QED
      BY <1>6, <2>1, <3>2, <3>3
  <2> QED
    BY <1>11, <2>2, <2>3 DEF UpdateUserRead
<1>12. CASE UpdateUserRole(w)
  <2>1. c.pc = "updateRole" /\ UNCHANGED lastId
    BY <1>12 DEF UpdateUserRole, At
  <2>2. RequestOf(c) = Stage("update", c.id, EmptyName, c.role, FALSE, c.reply)
    BY <2>1, RequestAt
  <2>3. CASE Answer(w, "INVALID_ARGUMENT") /\ UNCHANGED users
    BY <1>4, <1>7, <2>1, <2>3 DEF Store!Next
  <2>4. CASE /\ Has(c.id) /\ SetRole(c.id, c.role)
             /\ \/ Answer(w, "OK") \/ Answer(w, "UNKNOWN")
                \/ Goto(w, "updatePassword")
    <3>1. PICK r \in users : r.id = c.id
      BY <2>4 DEF Has
    <3>2. AccountsByName' = [AccountsByName EXCEPT ![r.username].role = c.role]
      BY <2>4, <3>1, SetRoleUpdates
    <3>3. r.username \in Store!Holders(c.id)
      BY <1>1, <3>1, HoldersAre DEF StoreInv
    <3>4. \/ \E reply \in {"OK", "UNKNOWN"} : Store!Replied(w, reply)
          \/ Requested' = [Requested EXCEPT ![w].done = TRUE]
      <4>1. CASE Answer(w, "OK") \/ Answer(w, "UNKNOWN")
        BY <1>2, <4>1
      <4>2. CASE Goto(w, "updatePassword")
        <5> DEFINE d == [calls[w] EXCEPT !.pc = "updatePassword"]
        <5>1. d.pc = "updatePassword" /\ d.id = c.id /\ d.role = c.role
              /\ d.reply = c.reply
          BY <1>1 DEF Call
        <5>2. Become(w, d)
          BY <4>2 DEF Goto
        <5> HIDE DEF d
        <5>3. RequestOf(d) = [Requested[w] EXCEPT !.done = TRUE]
          <6>1. RequestOf(d) =
                  Stage("update", c.id, EmptyName, c.role, TRUE, c.reply)
            BY <5>1, RequestAt
          <6> QED
            <7>1. Requested[w] =
                    Stage("update", c.id, EmptyName, c.role, FALSE, c.reply)
              BY <1>1, <2>2
            <7>2. ASSUME NEW yes \in BOOLEAN
                  PROVE  [Requested[w] EXCEPT !.done = yes] =
                           Stage("update", c.id, EmptyName, c.role, yes, c.reply)
              BY <7>1 DEF Stage
            <7>3. TRUE \in BOOLEAN
              OBVIOUS
            <7> QED
              BY <6>1, <7>2, <7>3, Zenon
        <5>4. Requested' = [Requested EXCEPT ![w] = RequestOf(d)]
          BY <1>1, <5>2, BecomeRequest
        <5> QED
          BY <5>3, <5>4
      <4> QED
        BY <2>4, <4>1, <4>2
    <3>5. /\ Requested[w].kind = "update" /\ ~Requested[w].done
          /\ Requested[w].id = c.id /\ Requested[w].role = c.role
      BY <1>1, <2>2 DEF Stage
    <3>6. Store!Update(w)
      BY <2>1, <3>2, <3>3, <3>4, <3>5 DEF Store!Update, Requested
    <3> QED
      BY <3>6 DEF Store!Next
  <2> QED
    BY <1>12, <2>3, <2>4 DEF UpdateUserRole
<1>13. CASE UpdateUserPassword(w)
  <2>1. c.pc = "updatePassword" /\ UNCHANGED lastId
    BY <1>13 DEF UpdateUserPassword, At
  <2>2. AccountsByName' = AccountsByName
    BY <1>3, <1>13, SetPasswordIsSilent DEF UpdateUserPassword
  <2>3. Answer(w, "OK") \/ Answer(w, "INVALID_ARGUMENT")
    BY <1>13 DEF UpdateUserPassword
  <2>4. RequestOf(c) = Stage("update", c.id, EmptyName, c.role, TRUE, c.reply)
    BY <2>1, RequestAt
  <2>5. Requested[w].kind = "update" /\ Requested[w].done
    BY <1>1, <2>4 DEF Stage
  <2>6. Store!FinishUpdate(w)
    BY <1>2, <2>1, <2>2, <2>3, <2>5 DEF Store!FinishUpdate, Requested
  <2> QED
    BY <2>6 DEF Store!Next
<1>14. CASE DeleteUserRead(w)
  <2>1. c.pc = "deleteRead" /\ UNCHANGED <<users, lastId>>
    BY <1>14 DEF DeleteUserRead, Unchecked, At
  <2>2. CASE Answer(w, "NOT_FOUND")
    BY <1>4, <1>7, <2>1, <2>2 DEF Store!Next
  <2>3. ASSUME NEW name, Become(w, [calls[w] EXCEPT !.pc = "deleteRemove",
                                                    !.name = name])
        PROVE  UNCHANGED Store!vars
    <3> DEFINE d == [calls[w] EXCEPT !.pc = "deleteRemove", !.name = name]
    <3>1. d.pc = "deleteRemove" /\ d.id = c.id /\ d.reply = c.reply
      BY <1>1 DEF Call
    <3>2. Become(w, d)
      BY <2>3
    <3> HIDE DEF d
    <3>3. RequestOf(d) = RequestOf(c)
      BY <2>1, <3>1, RequestAt
    <3> QED
      BY <1>6, <2>1, <3>2, <3>3
  <2> QED
    BY <1>14, <2>2, <2>3 DEF DeleteUserRead
<1>15. CASE DeleteUserRemove(w)
  <2>1. c.pc = "deleteRemove" /\ UNCHANGED lastId
    BY <1>15 DEF DeleteUserRemove, At
  <2>2. CASE Answer(w, "NOT_FOUND") /\ UNCHANGED users
    BY <1>4, <1>7, <2>1, <2>2 DEF Store!Next
  <2>3. CASE Has(c.id) /\ Remove(c.id) /\ Answer(w, "OK")
    <3>1. PICK r \in users : r.id = c.id
      BY <2>3 DEF Has
    <3>2. AccountsByName' =
            [n \in DOMAIN AccountsByName \ {r.username} |-> AccountsByName[n]]
      BY <2>3, <3>1, RemoveDeletes
    <3>3. Store!Holders(c.id) = {r.username}
      BY <1>1, <3>1, HoldersAre DEF StoreInv
    <3>4. RequestOf(c) = Stage("delete", c.id, EmptyName, "User", FALSE, c.reply)
      BY <2>1, RequestAt
    <3>5. Requested[w].kind = "delete" /\ Requested[w].id = c.id
      BY <1>1, <3>4 DEF Stage
    <3>6. Store!Delete(w)
      BY <1>2, <2>1, <2>3, <3>2, <3>3, <3>5 DEF Store!Delete, Requested
    <3> QED
      BY <3>6 DEF Store!Next
  <2> QED
    BY <1>15, <2>2, <2>3 DEF DeleteUserRemove
<1> QED
  BY <1>8, <1>9, <1>10, <1>11, <1>12, <1>13, <1>14, <1>15 DEF Serve

\* main() seeds an account while nothing is served, or leaves the table alone.
LEMMA BootRefines ==
  ASSUME StoreInv, IdInv', Boot
  PROVE  Store!Next \/ UNCHANGED Store!vars
<1>1. /\ \A w \in Workers : calls[w] = Blank
      /\ UNCHANGED calls
  BY DEF Boot, StoreInv, DownInv
<1>2. UNCHANGED Requested
  BY <1>1 DEF Requested
<1>3. CASE UNCHANGED <<users, lastId>>
  <2>1. UNCHANGED AccountsByName
    BY <1>3 DEF AccountsByName
  <2> QED
    BY <1>2, <1>3, <2>1 DEF Store!vars, Requested
<1>4. CASE Insert(SeedName, SeedPassword, "Admin")
  <2>1. Store!Add(SeedName, "Admin")
    BY <1>4, InsertAdds
  <2>2. \A w \in Workers : Requested[w] = Store!NoRequest
    BY <1>1, NoRequestIs, RequestIs
  <2>3. SeedName \in Names
    BY AccountsAssumption
  <2>4. Store!Seed
    BY <1>2, <2>1, <2>2, <2>3 DEF Store!Seed, Requested
  <2> QED
    BY <2>4 DEF Store!Next
<1> QED
  BY <1>3, <1>4 DEF Boot

\* Whatever calls overlap, whatever fails and wherever the process stops, the
\* handlers keep the promises of the abstract directory: a request takes effect
\* at most once, on the account it asked for, and is answered OK only if it did.
THEOREM IsAccountStore == Spec => ImplementsStore
<1>1. Init => Store!Init
  <2> SUFFICES ASSUME Init PROVE Store!Init
    OBVIOUS
  <2>1. users = {} /\ 1 .. lastId = {} /\ calls = [w \in Workers |-> Blank]
    BY DEF Init
  <2>2. Requested = [w \in Workers |-> Store!NoRequest]
    BY <2>1, NoRequestIs DEF Requested
  <2>3. AccountsByName = [n \in {} |-> 0]
    BY <2>1 DEF AccountsByName
  <2> QED
    BY <2>1, <2>2, <2>3 DEF Store!Init, Requested
<1>2. StoreInv /\ StoreInv' /\ [Next]_vars => [Store!Next]_Store!vars
  <2> SUFFICES ASSUME StoreInv, StoreInv', [Next]_vars
               PROVE  Store!Next \/ UNCHANGED Store!vars
    OBVIOUS
  <2>0. TypeInv /\ IdInv'
    BY DEF StoreInv
  <2>1. CASE UNCHANGED vars
    <3>1. UNCHANGED <<users, lastId, calls>>
      BY <2>1 DEF vars
    <3> QED
      BY <3>1 DEF Store!vars, AccountsByName
  <2>2. CASE Boot
    BY <2>0, <2>2, BootRefines
  <2>3. CASE Crash
    <3>1. UNCHANGED <<users, lastId>> /\ calls' = [w \in Workers |-> Blank]
      BY <2>3 DEF Crash
    <3>2. Requested' = [w \in Workers |-> Store!NoRequest]
      BY <3>1, NoRequestIs DEF Requested
    <3>3. UNCHANGED <<AccountsByName, 1 .. lastId>>
      BY <3>1 DEF AccountsByName
    <3> QED
      BY <3>2, <3>3 DEF Store!Next, Store!Halt, Requested
  <2>4. ASSUME NEW w \in Workers, Arrive(w) PROVE Store!Next
    BY <2>0, <2>4, ArriveRefines DEF Store!Next
  <2>5. ASSUME NEW w \in Workers, Serve(w)
        PROVE  Store!Next \/ UNCHANGED Store!vars
    BY <2>0, <2>5, ServeRefines
  <2> QED
    BY <2>1, <2>2, <2>3, <2>4, <2>5 DEF Next
<1> QED
  BY <1>1, <1>2, StoreAlways, PTL DEF Spec, ImplementsStore, Store!Spec
=============================================================================
