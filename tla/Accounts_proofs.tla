--------------------------- MODULE Accounts_proofs ---------------------------
(***************************************************************************)
(* What holds of the accounts for any addresses, processes and shops: the  *)
(* types, and that the one administrator a shop ever gets stays in office. *)
(*                                                                         *)
(* The invariant is that an account becomes administrator only when its    *)
(* row is inserted: a request that rewrites a row was loaded from one with *)
(* the same admin column, and never bans an administrator.                 *)
(***************************************************************************)
EXTENDS Accounts, FiniteSetTheorems, TLAPS

Rewrites == Saves \cup {"verifyLink", "resetLink"}

\* A row that an account may have.
Sound(row) ==
  /\ row.exists
  /\ row.admin => ~row.banned
  /\ row.password = "none" => row.sso

\* What a handler may make of a row it has loaded.
Derived(row, to) ==
  /\ Sound(to)
  /\ to.admin = row.admin
  /\ to.password \in {row.password, "set"}
  /\ to.sso \in {row.sso, TRUE}

\* A request in progress: idle, about to insert, or about to rewrite an account
\* that exists and is administrator exactly if the loaded row says so.
Pending(users, r) ==
  \/ r.op = None
  \/ /\ r.op \in Ops /\ r.who \in Emails /\ Sound(r.to)
     /\ r.op \in Rewrites => /\ users[r.who].exists
                             /\ r.row.admin = users[r.who].admin
                             /\ Derived(r.row, r.to)

Types ==
  /\ site \in Sites
  /\ user \in [Emails -> Row]
  /\ needs \in [Procs -> BOOLEAN]
  /\ req \in [Procs -> [op : Ops \cup {None}, who : Emails \cup {None}, row : Row, to : Row]]
  /\ links \in Tokens
  /\ sent \in [Emails -> Tokens]
  /\ used \subseteq Tokens

UsersSound  == \A u \in Emails : IF user[u].exists THEN Sound(user[u]) ELSE user[u] = NoUser
AdminUnique == \A u, v \in Emails : user[u].admin /\ user[v].admin => u = v
AllPending  == \A p \in Procs : Pending(user, req[p])

IInv == Types /\ UsersSound /\ AdminUnique /\ AllPending /\ FlagHonest

-----------------------------------------------------------------------------
(* Rows *)

\* The rows handlers start from.
LEMMA RowsMade ==
  /\ NoUser \in Row /\ NewUser \in Row
  /\ Sound(NewUser) /\ ~NewUser.admin /\ ~NoUser.admin /\ ~NoUser.exists
  /\ 0 \in Tokens
<1>1. 0 \in Tokens
  BY AccountsAssumption DEF Tokens
<1>2. NoUser \in Row
  BY <1>1 DEF NoUser, Row
<1>3. NewUser \in Row
  BY <1>2 DEF NewUser, Row
<1>4. Sound(NewUser)
  BY DEF NewUser, NoUser, Sound
<1>5. ~NewUser.admin /\ ~NoUser.admin /\ ~NoUser.exists
  BY DEF NewUser, NoUser
<1> QED
  BY <1>1, <1>2, <1>3, <1>4, <1>5

\* What mark_user_verified makes of a row.
LEMMA VerifiedRow ==
  ASSUME NEW row \in Row
  PROVE  /\ Verified(row) \in Row
         /\ Sound(row) => Derived(row, Verified(row))
BY RowsMade DEF Verified, Row, Sound, Derived

\* What an UPDATE leaves in a row is a row, still sound, and as much an
\* administrator's as it was.
LEMMA MergedRow ==
  ASSUME user \in [Emails -> Row], NEW u \in Emails, NEW row \in Row, NEW to \in Row,
         Sound(user[u]), Derived(row, to), row.admin = user[u].admin
  PROVE  /\ Merged(u, row, to) \in Row
         /\ Sound(Merged(u, row, to))
         /\ Merged(u, row, to).admin = user[u].admin
<1>1. CASE backend = "d1"
  BY <1>1 DEF Merged, Derived
<1>2. CASE backend # "d1"
  <2> DEFINE m == Merged(u, row, to)
  <2>1. m = [column \in DOMAIN to |-> IF to[column] # row[column] THEN to[column]
                                      ELSE user[u][column]]
    BY <1>2 DEF Merged
  <2>2. user[u] \in Row
    OBVIOUS
  <2>3. m \in Row
    BY <2>1, <2>2 DEF Row
  <2>4. /\ m.exists = IF to.exists # row.exists THEN to.exists ELSE user[u].exists
        /\ m.admin = IF to.admin # row.admin THEN to.admin ELSE user[u].admin
        /\ m.banned = IF to.banned # row.banned THEN to.banned ELSE user[u].banned
        /\ m.password = IF to.password # row.password THEN to.password ELSE user[u].password
        /\ m.sso = IF to.sso # row.sso THEN to.sso ELSE user[u].sso
    BY <2>1, <2>2 DEF Row
  <2> QED
    BY <2>2, <2>3, <2>4 DEF Sound, Derived, Row
<1> QED
  BY <1>1, <1>2

-----------------------------------------------------------------------------
(* Steps *)

\* People have addresses.
LEMMA PeopleHaveEmails ==
  ASSUME Types
  PROVE  people \subseteq Emails /\ site.mails \in 0 .. MaxLinks
BY AccountsAssumption DEF Types, people

\* A request that loads a row it may change.
LEMMA LoadKeeps ==
  ASSUME IInv, NEW p \in Procs, NEW operation \in Ops, NEW u \in Emails, NEW to \in Row,
         Load(p, operation, u, to), Sound(to),
         operation \in Rewrites => user[u].exists /\ Derived(user[u], to)
  PROVE  IInv'
<1> DEFINE r == [op |-> operation, who |-> u, row |-> user[u], to |-> to]
<1>1. /\ req' = [req EXCEPT ![p] = r]
      /\ UNCHANGED <<site, user, needs, links, sent, used>>
  BY DEF Load
<1>2. r \in [op : Ops \cup {None}, who : Emails \cup {None}, row : Row, to : Row]
  BY DEF IInv, Types
<1>3. Types'
  BY <1>1, <1>2 DEF IInv, Types
<1>4. Pending(user, r)
  BY DEF Pending, IInv, Types
<1>5. AllPending'
  BY <1>1, <1>4 DEF IInv, Types, AllPending, Pending
<1>6. UsersSound' /\ AdminUnique' /\ FlagHonest'
  BY <1>1 DEF IInv, UsersSound, AdminUnique, FlagHonest, HasAdmin, Admins
<1> QED
  BY <1>3, <1>5, <1>6 DEF IInv

\* A row of an account is replaced by a sound one, administrator or not as before.
LEMMA RewriteKeeps ==
  ASSUME IInv, NEW u \in Emails, user[u].exists, NEW row \in Row, Sound(row),
         row.admin = user[u].admin, user' = [user EXCEPT ![u] = row]
  PROVE  /\ UsersSound' /\ AdminUnique'
         /\ HasAdmin => HasAdmin'
         /\ \A r : Pending(user, r) => Pending(user', r)
         /\ \A v \in Admins : user'[v].admin /\ ~user'[v].banned
<1> USE DEF IInv, Types
<1>1. \A v \in Emails : user'[v] = IF v = u THEN row ELSE user[v]
  OBVIOUS
<1>2. UsersSound'
  BY <1>1 DEF UsersSound, Sound
<1>3. AdminUnique'
  BY <1>1 DEF AdminUnique
<1>4. HasAdmin => HasAdmin'
  BY <1>1 DEF HasAdmin, Admins, Sound
<1>5. ASSUME NEW r, Pending(user, r) PROVE Pending(user', r)
  BY <1>1, <1>5 DEF Pending, Sound
<1>6. \A v \in Admins : user'[v].admin /\ ~user'[v].banned
  BY <1>1 DEF Admins, UsersSound, Sound, NoUser
<1> QED
  BY <1>2, <1>3, <1>4, <1>5, <1>6

\* The administrator, if there is one, is still there.
Stays == \A u \in Admins : user'[u].admin /\ ~user'[u].banned

\* Requests that load a row: nothing is written.
LEMMA LoadsKeep ==
  ASSUME IInv, NEW p \in Procs, NEW u \in people,
         \/ Register(p, u) \/ Setup(p, u) \/ Profile(p, u) \/ Resend(p, u) \/ Forgot(p, u)
         \/ Verify(p, u) \/ Reset(p, u)
         \/ \E admin \in BOOLEAN : AdminCreate(p, u, admin)
         \/ \E verifiedEmail \in BOOLEAN : SsoCallback(p, u, verifiedEmail)
         \/ \E me \in people : AdminUpdate(p, me, u)
  PROVE  IInv' /\ UNCHANGED user
<1> USE RowsMade
<1>a. u \in Emails /\ user[u] \in Row /\ people \subseteq Emails
  BY PeopleHaveEmails DEF IInv, Types
<1>b. user[u].exists => Sound(user[u]) /\ Derived(user[u], user[u])
  BY <1>a DEF IInv, UsersSound, Derived, Sound
<1>c. {"register", "insert"} \subseteq Ops \ Rewrites /\ Rewrites \subseteq Ops
      /\ {"save", "verify", "reset", "verifyLink", "resetLink"} \subseteq Rewrites
  BY DEF Ops, Rewrites, Saves
<1>1. CASE Register(p, u)
  <2>1. Load(p, "register", u, NewUser)
    BY <1>1 DEF Register
  <2> QED
    BY <2>1, <1>a, <1>c, LoadKeeps DEF Load
<1>2. CASE Setup(p, u)
  <2> DEFINE row == [NewUser EXCEPT !.admin = TRUE, !.verified = TRUE]
  <2>1. Load(p, "insert", u, row)
    BY <1>2 DEF Setup
  <2>2. row \in Row
    BY DEF Row
  <2>3. Sound(row)
    BY DEF Sound, NewUser, NoUser
  <2> HIDE DEF row
  <2> QED
    BY <2>1, <2>2, <2>3, <1>a, <1>c, LoadKeeps DEF Load
<1>3. CASE Profile(p, u)
  <2>1. PICK password \in {user[u].password, "set"} :
          Load(p, "save", u, [user[u] EXCEPT !.password = password])
    BY <1>3 DEF Profile, Change
  <2> DEFINE row == [user[u] EXCEPT !.password = password]
  <2>2. row \in Row
    BY <1>a DEF Row
  <2>3. user[u].exists
    BY <1>3 DEF Profile, CanAct
  <2>4. Derived(user[u], row)
    BY <1>a, <1>b, <2>3 DEF Derived, Sound, Row
  <2>5. Sound(row)
    BY <2>4 DEF Derived
  <2>6. Load(p, "save", u, row)
    BY <2>1
  <2> HIDE DEF row
  <2> QED
    BY <2>2, <2>3, <2>4, <2>5, <2>6, <1>a, <1>c, LoadKeeps DEF Load
<1>4. CASE Resend(p, u)
  <2>1. Load(p, "verifyLink", u, user[u]) /\ user[u].exists
    BY <1>4 DEF Resend, CanAct
  <2> QED
    BY <2>1, <1>a, <1>b, <1>c, LoadKeeps DEF Load
<1>5. CASE Forgot(p, u)
  <2>1. Load(p, "resetLink", u, user[u]) /\ user[u].exists
    BY <1>5 DEF Forgot, CanAct
  <2> QED
    BY <2>1, <1>a, <1>b, <1>c, LoadKeeps DEF Load
<1>6. CASE Verify(p, u)
  <2>1. Load(p, "verify", u, Verified(user[u]))
    BY <1>6 DEF Verify
  <2>2. user[u].exists
    BY <1>6, <1>a DEF Verify, IInv, UsersSound, NoUser
  <2>3. Verified(user[u]) \in Row /\ Derived(user[u], Verified(user[u]))
    BY <1>a, <1>b, <2>2, VerifiedRow
  <2>4. Sound(Verified(user[u]))
    BY <2>3 DEF Derived
  <2> QED
    BY <2>1, <2>2, <2>3, <2>4, <1>a, <1>c, LoadKeeps DEF Load
<1>7. CASE Reset(p, u)
  <2>1. Load(p, "reset", u, ResetRow(user[u]))
    BY <1>7 DEF Reset
  <2>2. user[u].exists
    BY <1>7, <1>a DEF Reset, IInv, UsersSound, NoUser
  <2>3. ResetRow(user[u]) \in Row
    BY <1>a DEF ResetRow, Row
  <2>4. Derived(user[u], ResetRow(user[u]))
    BY <1>a, <1>b, <2>2 DEF ResetRow, Row, Derived, Sound
  <2>5. Sound(ResetRow(user[u]))
    BY <2>4 DEF Derived
  <2> QED
    BY <2>1, <2>2, <2>3, <2>4, <2>5, <1>a, <1>c, LoadKeeps DEF Load
<1>8. ASSUME NEW admin \in BOOLEAN, AdminCreate(p, u, admin) PROVE IInv' /\ UNCHANGED user
  <2>1. PICK banned, verified \in BOOLEAN :
          Load(p, "insert", u, [NewUser EXCEPT !.admin = admin, !.banned = banned,
                                               !.verified = verified])
    BY <1>8 DEF AdminCreate
  <2> DEFINE row == [NewUser EXCEPT !.admin = admin, !.banned = banned, !.verified = verified]
  <2>2. PICK me \in people : CanAdmin(me)
    BY <1>8 DEF AdminCreate
  <2>3. ~user[u].exists /\ ~user[u].admin
    BY <1>8, <1>a DEF AdminCreate, IInv, UsersSound, NoUser
  <2>4. ~admin
    BY <1>8, <1>a, <2>2, <2>3 DEF AdminCreate, SlotFree, Admins, CanAdmin
  <2>5. row \in Row
    BY DEF Row
  <2>6. Sound(row)
    BY <2>4 DEF Sound, NewUser, NoUser
  <2>7. Load(p, "insert", u, row)
    BY <2>1
  <2> HIDE DEF row
  <2> QED
    BY <2>5, <2>6, <2>7, <1>a, <1>c, LoadKeeps DEF Load
<1>9. ASSUME NEW verifiedEmail \in BOOLEAN, SsoCallback(p, u, verifiedEmail)
      PROVE  IInv' /\ UNCHANGED user
  <2>1. CASE user[u].exists
    <3> DEFINE linked == [user[u] EXCEPT !.sso = TRUE]
               found  == IF verifiedEmail THEN Verified(linked) ELSE linked
    <3>1. Load(p, "save", u, found)
      BY <1>9, <2>1 DEF SsoCallback
    <3>2. linked \in Row
      BY <1>a DEF Row
    <3>3. Derived(user[u], linked)
      BY <1>a, <1>b, <2>1 DEF Row, Derived, Sound
    <3>4. found \in Row /\ Derived(user[u], found)
      <4>1. linked.admin = user[u].admin /\ linked.sso = TRUE /\ linked.password = user[u].password
        BY <1>a DEF Row
      <4> HIDE DEF linked
      <4>2. Verified(linked) \in Row /\ Derived(linked, Verified(linked))
        BY <3>2, <3>3, VerifiedRow DEF Derived
      <4> QED
        BY <3>2, <3>3, <4>1, <4>2 DEF Derived
    <3>5. Sound(found)
      BY <3>4 DEF Derived
    <3> HIDE DEF found
    <3> QED
      BY <3>1, <3>4, <3>5, <2>1, <1>a, <1>c, LoadKeeps DEF Load
  <2>2. CASE ~user[u].exists
    <3> DEFINE row == [NewUser EXCEPT !.password = "none", !.sso = TRUE, !.verified = verifiedEmail]
    <3>1. Load(p, "insert", u, row)
      BY <1>9, <2>2 DEF SsoCallback
    <3>2. row \in Row
      BY DEF Row
    <3>3. Sound(row)
      BY DEF Sound, NewUser, NoUser
    <3> HIDE DEF row
    <3> QED
      BY <3>1, <3>2, <3>3, <1>a, <1>c, LoadKeeps DEF Load
  <2> QED
    BY <2>1, <2>2
<1>10. ASSUME NEW me \in people, AdminUpdate(p, me, u) PROVE IInv' /\ UNCHANGED user
  <2>1. PICK admin, banned, verified \in BOOLEAN, password \in {user[u].password, "set"} :
          /\ LockoutFree(me, u, admin, banned)
          /\ admin /\ ~user[u].admin => SlotFree(u)
          /\ Load(p, "save", u, Edited(user[u], admin, banned, verified, password))
    BY <1>10 DEF AdminUpdate, Change
  <2> DEFINE typed == [user[u] EXCEPT !.admin = admin, !.banned = banned, !.password = password]
             row   == Edited(user[u], admin, banned, verified, password)
  <2>2. me \in Admins /\ me \in Emails /\ user[u].exists
    BY <1>10, <1>a DEF AdminUpdate, CanAdmin, Admins
  <2>3. admin = user[u].admin /\ (admin => ~banned)
    <3>1. user[u].admin \in BOOLEAN
      BY <1>a DEF Row
    <3>2. user[u].admin => me = u
      BY <2>2, <1>a DEF Admins, IInv, AdminUnique
    <3>3. user[u].admin => admin /\ ~banned
      BY <3>2, <2>1 DEF LockoutFree
    <3>4. admin => user[u].admin
      BY <2>1, <2>2, <1>a DEF SlotFree, Admins
    <3> QED
      BY <3>1, <3>3, <3>4
  <2>4. typed \in Row
    BY <1>a DEF Row
  <2>5. typed.admin = user[u].admin /\ typed.sso = user[u].sso /\ typed.password = password
        /\ typed.exists = user[u].exists /\ typed.banned = banned
    BY <2>3, <1>a DEF Row
  <2>6. Derived(user[u], typed)
    BY <2>2, <2>3, <2>5, <1>a, <1>b DEF Row, Derived, Sound
  <2>7. row = IF verified THEN Verified(typed) ELSE [typed EXCEPT !.verified = FALSE]
    BY DEF Edited
  <2> HIDE DEF typed
  <2>8. row \in Row /\ Derived(user[u], row)
    <3>1. CASE verified
      <4>1. row \in Row /\ Derived(typed, row)
        BY <2>4, <2>6, <2>7, <3>1, VerifiedRow DEF Derived
      <4> QED
        BY <4>1, <2>5, <2>6 DEF Derived
    <3>2. CASE ~verified
      BY <2>4, <2>6, <2>7, <3>2 DEF Derived, Sound, Row
    <3> QED
      BY <3>1, <3>2
  <2>9. Sound(row)
    BY <2>8 DEF Derived
  <2> HIDE DEF row
  <2> QED
    BY <2>1, <2>2, <2>8, <2>9, <1>a, <1>c, LoadKeeps DEF Load, row
<1> QED
  BY <1>1, <1>2, <1>3, <1>4, <1>5, <1>6, <1>7, <1>8, <1>9, <1>10

\* A request ends, or none changes: what is pending stays pending.
LEMMA IdlePending ==
  ASSUME IInv, NEW p \in Procs, NEW r, Pending(user', r),
         \A x : Pending(user, x) => Pending(user', x),
         req' = [req EXCEPT ![p] = r]
  PROVE  AllPending'
<1> SUFFICES ASSUME NEW q \in Procs PROVE Pending(user', req'[q])
  BY DEF AllPending
<1>1. req'[q] = IF q = p THEN r ELSE req[q]
  BY DEF IInv, Types
<1>2. Pending(user, req[q])
  BY DEF IInv, AllPending
<1> QED
  BY <1>1, <1>2

\* Nothing is written to any account, and no process drops its flag wrongly.
LEMMA QuietKeeps ==
  ASSUME IInv, UNCHANGED user
  PROVE  /\ UsersSound' /\ AdminUnique' /\ HasAdmin' = HasAdmin /\ Stays
         /\ \A r : Pending(user, r) => Pending(user', r)
<1>1. UsersSound' /\ AdminUnique' /\ HasAdmin' = HasAdmin
  BY DEF IInv, UsersSound, AdminUnique, HasAdmin, Admins
<1>2. Stays
  BY DEF IInv, Types, UsersSound, Stays, Admins, Sound, NoUser
<1>3. \A r : Pending(user, r) => Pending(user', r)
  BY DEF Pending
<1> QED
  BY <1>1, <1>2, <1>3

LEMMA IdlePends == Idle \in [op : Ops \cup {None}, who : Emails \cup {None}, row : Row, to : Row]
                   /\ Pending(user', Idle)
BY RowsMade DEF Idle, Pending

\* The end of a request that wrote nothing, and what processes learn of the setup.
LEMMA OthersKeep ==
  ASSUME IInv, NEW p \in Procs, Fail(p) \/ NoticeAdmin(p) \/ Restart(p)
  PROVE  IInv' /\ UNCHANGED user
<1>1. UNCHANGED <<site, user, links, sent, used>>
      /\ (req' = [req EXCEPT ![p] = Idle] \/ req' = req)
  BY DEF Fail, NoticeAdmin, Restart
<1>2. needs' \in [Procs -> BOOLEAN] /\ \A q \in Procs : ~needs'[q] => ~needs[q] \/ HasAdmin
  BY DEF Fail, NoticeAdmin, Restart, BootNeedsSetup, IInv, Types
<1>3. Types'
  BY <1>1, <1>2, IdlePends DEF IInv, Types
<1>4. AllPending'
  <2>1. \A r : Pending(user, r) => Pending(user', r)
    BY <1>1, QuietKeeps
  <2>2. CASE req' = [req EXCEPT ![p] = Idle]
    BY <2>1, <2>2, IdlePends, IdlePending
  <2>3. CASE req' = req
    BY <2>1, <2>3 DEF IInv, AllPending, Pending
  <2> QED
    BY <1>1, <2>2, <2>3
<1>5. UsersSound' /\ AdminUnique' /\ FlagHonest'
  BY <1>1, <1>2, QuietKeeps DEF IInv, FlagHonest
<1> QED
  BY <1>1, <1>3, <1>4, <1>5 DEF IInv

\* A new account takes the administrator's place only when it is free.
LEMMA NewRowKeeps ==
  ASSUME IInv, NEW u \in Emails, NEW row \in Row, Sound(row), Insertable(u, row),
         user' = [user EXCEPT ![u] = row]
  PROVE  /\ UsersSound' /\ AdminUnique' /\ Stays
         /\ HasAdmin \/ row.admin => HasAdmin'
         /\ \A r : Pending(user, r) => Pending(user', r)
<1> USE DEF IInv, Types
<1>1. \A v \in Emails : user'[v] = IF v = u THEN row ELSE user[v]
  OBVIOUS
<1>2. ~user[u].exists /\ (row.admin => Admins = {}) /\ ~user[u].admin
  BY RowsMade DEF Insertable, UsersSound
<1>3. UsersSound'
  BY <1>1 DEF UsersSound, Sound
<1>4. AdminUnique'
  BY <1>1, <1>2 DEF AdminUnique, Admins
<1>5. Stays
  BY <1>1, <1>2, RowsMade DEF Stays, Admins, UsersSound, Sound
<1>6. HasAdmin \/ row.admin => HasAdmin'
  BY <1>1, <1>2 DEF HasAdmin, Admins, Sound
<1>7. ASSUME NEW r, Pending(user, r) PROVE Pending(user', r)
  BY <1>1, <1>2, <1>7 DEF Pending
<1> QED
  BY <1>3, <1>4, <1>5, <1>6, <1>7

\* A request that is about to write has an account, a sound row and, if that
\* account exists, the row it loaded.
LEMMA WriterPends ==
  ASSUME IInv, NEW p \in Procs, req[p].op \in Ops
  PROVE  /\ req[p].who \in Emails /\ req[p].row \in Row /\ req[p].to \in Row
         /\ Sound(req[p].to)
         /\ req[p].op \in Rewrites => /\ user[req[p].who].exists
                                      /\ req[p].row.admin = user[req[p].who].admin
                                      /\ Derived(req[p].row, req[p].to)
<1>1. req[p] \in [op : Ops \cup {None}, who : Emails \cup {None}, row : Row, to : Row]
      /\ Pending(user, req[p])
  BY DEF IInv, Types, AllPending
<1> QED
  BY <1>1, NoneAssumption DEF Pending

LEMMA InsertsKeep ==
  ASSUME IInv, NEW p \in Procs, Insert(p) \/ InsertRegistered(p)
  PROVE  IInv' /\ Stays
<1> DEFINE u == req[p].who
<1> USE RowsMade
<1>1. CASE Insert(p)
  <2> DEFINE row == req[p].to
  <2>1. u \in Emails /\ row \in Row /\ Sound(row)
    BY <1>1, WriterPends DEF Insert, Ops
  <2>2. /\ UsersSound' /\ AdminUnique' /\ Stays
        /\ HasAdmin \/ row.admin => HasAdmin'
        /\ \A r : Pending(user, r) => Pending(user', r)
    BY <1>1, <2>1, NewRowKeeps DEF Insert
  <2>3. AllPending'
    BY <1>1, <2>2, IdlePends, IdlePending DEF Insert
  <2>4. Types'
    BY <1>1, <2>1, IdlePends DEF Insert, IInv, Types, Row
  <2>5. FlagHonest'
    BY <1>1, <2>1, <2>2 DEF Insert, IInv, Types, FlagHonest, Row
  <2> QED
    BY <2>2, <2>3, <2>4, <2>5 DEF IInv
<1>2. CASE InsertRegistered(p)
  <2> DEFINE mails == RequireVerification /\ backend = "sqlite"
             row   == IF mails THEN [NewUser EXCEPT !.verifyToken = links + 1] ELSE NewUser
             r     == IF RequireVerification /\ backend = "d1"
                      THEN [op |-> "verifyLink", who |-> u, row |-> NewUser, to |-> NewUser]
                      ELSE Idle
  <2>1. /\ Insertable(u, NewUser)
        /\ user' = [user EXCEPT ![u] = row]
        /\ req' = [req EXCEPT ![p] = r]
        /\ links' = IF mails THEN links + 1 ELSE links
        /\ mails => links < site.mails
        /\ UNCHANGED <<site, needs, sent, used>>
    BY <1>2 DEF InsertRegistered
  <2>2. u \in Emails
    BY <1>2, WriterPends DEF InsertRegistered, Ops
  <2>3. links' \in Tokens
    BY <2>1, AccountsAssumption, PeopleHaveEmails DEF IInv, Types, Tokens
  <2>4. row \in Row
    BY <2>1, <2>3 DEF Row
  <2>5. Sound(row) /\ ~row.admin
    BY DEF Sound, NewUser, NoUser
  <2>6. Insertable(u, row)
    BY <2>1, <2>5 DEF Insertable
  <2>7. r \in [op : Ops \cup {None}, who : Emails \cup {None}, row : Row, to : Row]
    BY <2>2, IdlePends DEF Ops
  <2>8. user'[u] = row /\ row.exists
    BY <2>1, <2>2, <2>5 DEF IInv, Types, Sound
  <2>9. Pending(user', r)
    <3>1. Derived(NewUser, NewUser)
      BY DEF Derived
    <3> QED
      BY <2>2, <2>5, <2>8, <3>1, IdlePends DEF Pending, Ops
  <2> HIDE DEF row, r, mails
  <2>10. /\ UsersSound' /\ AdminUnique' /\ Stays
         /\ HasAdmin => HasAdmin'
         /\ \A x : Pending(user, x) => Pending(user', x)
    BY <2>1, <2>2, <2>4, <2>5, <2>6, NewRowKeeps
  <2>11. AllPending'
    BY <2>1, <2>9, <2>10, IdlePending
  <2>12. Types'
    BY <2>1, <2>2, <2>3, <2>4, <2>7 DEF IInv, Types
  <2>13. FlagHonest'
    BY <2>1, <2>10 DEF IInv, FlagHonest
  <2> QED
    BY <2>10, <2>11, <2>12, <2>13 DEF IInv
<1> QED
  BY <1>1, <1>2

\* A request writes what it has made of the row it loaded, with a new link or not.
LEMMA WriteKeeps ==
  ASSUME IInv, NEW p \in Procs, req[p].op \in Rewrites,
         NEW to \in Row, Derived(req[p].row, to),
         user' = [user EXCEPT ![req[p].who] = Merged(req[p].who, req[p].row, to)],
         req' = [req EXCEPT ![p] = Idle], UNCHANGED <<site, needs>>,
         links' \in Tokens, sent' \in [Emails -> Tokens], used' \subseteq Tokens
  PROVE  IInv' /\ Stays
<1> DEFINE u == req[p].who
           m == Merged(u, req[p].row, to)
<1>1. /\ u \in Emails /\ req[p].row \in Row /\ user[u].exists
      /\ req[p].row.admin = user[u].admin
  BY WriterPends DEF Ops, Rewrites
<1>2. user \in [Emails -> Row] /\ Sound(user[u])
  BY <1>1 DEF IInv, Types, UsersSound
<1>3. m \in Row /\ Sound(m) /\ m.admin = user[u].admin
  BY <1>1, <1>2, MergedRow
<1>4. user' = [user EXCEPT ![u] = m]
  OBVIOUS
<1> HIDE DEF m
<1>5. /\ UsersSound' /\ AdminUnique'
      /\ HasAdmin => HasAdmin'
      /\ \A r : Pending(user, r) => Pending(user', r)
      /\ \A v \in Admins : user'[v].admin /\ ~user'[v].banned
  BY <1>1, <1>3, <1>4, RewriteKeeps
<1>6. AllPending'
  BY <1>5, IdlePends, IdlePending
<1>7. Types'
  <2>1. user' \in [Emails -> Row]
    BY <1>1, <1>2, <1>3, <1>4
  <2>2. req' \in [Procs -> [op : Ops \cup {None}, who : Emails \cup {None}, row : Row, to : Row]]
    BY IdlePends DEF IInv, Types
  <2> QED
    BY <2>1, <2>2 DEF IInv, Types
<1>8. FlagHonest'
  BY <1>5 DEF IInv, FlagHonest
<1> QED
  BY <1>5, <1>6, <1>7, <1>8 DEF IInv, Stays

LEMMA SavesKeep ==
  ASSUME IInv, NEW p \in Procs, Save(p) \/ SendVerifyLink(p) \/ SendResetLink(p)
  PROVE  IInv' /\ Stays
<1> DEFINE row == req[p].row
           to  == req[p].to
<1>a. req[p].op \in Rewrites
  BY DEF Save, SendVerifyLink, SendResetLink, Rewrites
<1>b. req[p].who \in Emails /\ row \in Row /\ to \in Row /\ Derived(row, to)
  BY <1>a, WriterPends DEF Ops, Rewrites
<1>c. links \in Tokens /\ sent \in [Emails -> Tokens] /\ used \subseteq Tokens
  BY DEF IInv, Types
<1>d. links < site.mails => links + 1 \in Tokens
  <2>1. links \in Nat /\ MaxLinks \in Nat /\ site.mails \in 0 .. MaxLinks
    BY <1>c, AccountsAssumption, PeopleHaveEmails DEF IInv, Tokens
  <2> QED
    BY <2>1 DEF Tokens
<1>1. CASE Save(p)
  <2>1. used' \subseteq Tokens
    BY <1>1, <1>b, <1>c DEF Save, Row
  <2>2. /\ user' = [user EXCEPT ![req[p].who] = Merged(req[p].who, row, to)]
        /\ req' = [req EXCEPT ![p] = Idle]
        /\ UNCHANGED <<site, needs, links, sent>>
    BY <1>1 DEF Save
  <2> QED
    BY <2>1, <2>2, <1>a, <1>b, <1>c, WriteKeeps
<1>2. CASE SendVerifyLink(p)
  <2> DEFINE new == [to EXCEPT !.verifyToken = links + 1]
  <2>1. /\ user' = [user EXCEPT ![req[p].who] = Merged(req[p].who, row, new)]
        /\ req' = [req EXCEPT ![p] = Idle]
        /\ links < site.mails /\ links' = links + 1
        /\ UNCHANGED <<site, needs, sent, used>>
    BY <1>2 DEF SendVerifyLink
  <2>2. new \in Row
    BY <2>1, <1>b, <1>d DEF Row
  <2>3. Derived(row, new)
    BY <1>b DEF Derived, Sound, Row
  <2> HIDE DEF new
  <2> QED
    BY <2>1, <2>2, <2>3, <1>a, <1>c, <1>d, WriteKeeps
<1>3. CASE SendResetLink(p)
  <2> DEFINE new == [to EXCEPT !.resetToken = links + 1]
  <2>1. /\ user' = [user EXCEPT ![req[p].who] = Merged(req[p].who, row, new)]
        /\ req' = [req EXCEPT ![p] = Idle]
        /\ links < site.mails /\ links' = links + 1
        /\ sent' = [sent EXCEPT ![req[p].who] = links + 1]
        /\ UNCHANGED <<site, needs, used>>
    BY <1>3 DEF SendResetLink
  <2>2. new \in Row
    BY <2>1, <1>b, <1>d DEF Row
  <2>3. Derived(row, new)
    BY <1>b DEF Derived, Sound, Row
  <2>4. sent' \in [Emails -> Tokens]
    BY <2>1, <1>b, <1>c, <1>d
  <2> HIDE DEF new
  <2> QED
    BY <2>1, <2>2, <2>3, <2>4, <1>a, <1>c, <1>d, WriteKeeps
<1> QED
  BY <1>1, <1>2, <1>3

-----------------------------------------------------------------------------
(* The theorems *)

LEMMA IInvInit == Init => IInv
<1> SUFFICES ASSUME Init PROVE IInv
  OBVIOUS
<1> USE RowsMade DEF Init
<1>1. Types
  BY AccountsAssumption, RowsMade DEF Types, Idle
<1>2. UsersSound /\ AdminUnique
  BY DEF UsersSound, AdminUnique
<1>3. AllPending
  BY DEF AllPending, Pending, Idle
<1>4. FlagHonest
  BY DEF FlagHonest
<1> QED
  BY <1>1, <1>2, <1>3, <1>4 DEF IInv

LEMMA IInvStep ==
  ASSUME IInv, [Next]_vars
  PROVE  IInv' /\ Stays
<1>1. CASE UNCHANGED vars
  <2>1. IInv'
    BY <1>1 DEF vars, IInv, Types, UsersSound, AdminUnique, AllPending, FlagHonest, HasAdmin, Admins
  <2> QED
    BY <1>1, <2>1, QuietKeeps DEF vars
<1>2. ASSUME NEW p \in Procs, Step(p) PROVE IInv' /\ Stays
  <2>1. CASE Insert(p) \/ InsertRegistered(p)
    BY <2>1, InsertsKeep
  <2>2. CASE Save(p) \/ SendVerifyLink(p) \/ SendResetLink(p)
    BY <2>2, SavesKeep
  <2>3. CASE Fail(p) \/ NoticeAdmin(p) \/ Restart(p)
    BY <2>3, OthersKeep, QuietKeeps
  <2>4. ASSUME NEW u \in people,
               \/ Register(p, u) \/ Setup(p, u) \/ Profile(p, u) \/ Resend(p, u) \/ Forgot(p, u)
               \/ Verify(p, u) \/ Reset(p, u)
               \/ \E admin \in BOOLEAN : AdminCreate(p, u, admin)
               \/ \E verifiedEmail \in BOOLEAN : SsoCallback(p, u, verifiedEmail)
               \/ \E me \in people : AdminUpdate(p, me, u)
        PROVE  IInv' /\ Stays
    BY <2>4, LoadsKeep, QuietKeeps
  <2> QED
    BY <1>2, <2>1, <2>2, <2>3, <2>4 DEF Step
<1> QED
  BY <1>1, <1>2 DEF Next

LEMMA IInvAlways == Spec => []IInv
<1>1. IInv /\ [Next]_vars => IInv'
  BY IInvStep
<1> QED
  BY <1>1, IInvInit, PTL DEF Spec

\* An address without an account has no data, an account without a password
\* signs in at a provider, and the variables have their types.
THEOREM AccountsTyped == Spec => []TypeOK
<1>1. IInv => TypeOK
  BY DEF IInv, Types, UsersSound, Sound, TypeOK
<1> QED
  BY <1>1, IInvAlways, PTL

\* However many processes set the shop up, register and edit accounts at once,
\* on either backend, there is at most one administrator.
THEOREM AtMostOneAdmin == Spec => []OneAdmin
<1>1. IInv => OneAdmin
  <2> SUFFICES ASSUME IInv PROVE Cardinality(Admins) <= 1
    BY DEF OneAdmin
  <2>1. CASE Admins = {}
    BY <2>1, FS_EmptySet
  <2>2. ASSUME NEW u \in Admins PROVE Cardinality(Admins) <= 1
    <3>1. Admins = {u}
      BY <2>2 DEF IInv, AdminUnique, Admins
    <3>2. Cardinality({u}) = 1
      BY FS_Singleton
    <3> QED
      BY <3>1, <3>2
  <2> QED
    BY <2>1, <2>2
<1> QED
  BY <1>1, IInvAlways, PTL

\* Once there is an administrator it stays so and is never banned.
THEOREM AdministratorStays == Spec => AdminStays
<1>1. IInv /\ [Next]_vars => [\A u \in Admins : user'[u].admin /\ ~user'[u].banned]_vars
  BY IInvStep DEF Stays
<1> QED
  BY <1>1, IInvAlways, PTL DEF Spec, AdminStays

\* A process that does not ask for the setup any more serves a shop that has an
\* administrator who may sign in.
THEOREM SetupFlagHonest == Spec => []FlagHonest
<1>1. IInv => FlagHonest
  BY DEF IInv
<1> QED
  BY <1>1, IInvAlways, PTL
-----------------------------------------------------------------------------
(* Links on SQLite *)

\* A token that exists when n links have been mailed.
Mailed(t, n) == t \in Nat /\ t <= n

\* A link stands in one column of one account.
Distinct ==
  \A u, v \in Emails :
    /\ user[u].resetToken # 0 => user[u].resetToken # user[v].verifyToken
    /\ u # v => /\ user[u].resetToken # 0 => user[u].resetToken # user[v].resetToken
                /\ user[u].verifyToken # 0 => user[u].verifyToken # user[v].verifyToken

\* Token t is in no other column than the verification or the reset link of u.
OnlyVerifies(users, u, t) ==
  \A v \in Emails : users[v].resetToken # t /\ (v # u => users[v].verifyToken # t)

OnlyResets(users, u, t) ==
  \A v \in Emails : users[v].verifyToken # t /\ (v # u => users[v].resetToken # t)

\* What a request knows of links: a new account has none, a change keeps or
\* clears those it has loaded, and one that uses a link clears it.
Carries(users, r) ==
  /\ r.op \in {"register", "insert"} => r.to.verifyToken = 0 /\ r.to.resetToken = 0
  /\ r.op \in Rewrites => /\ r.to.verifyToken \in {r.row.verifyToken, 0}
                          /\ r.to.resetToken \in {r.row.resetToken, 0}
  /\ r.op = "verify" => /\ r.row.verifyToken # 0 /\ r.to.verifyToken = 0
                        /\ OnlyVerifies(users, r.who, r.row.verifyToken)
  /\ r.op = "reset" => /\ r.row.resetToken # 0 /\ r.to.resetToken = 0
                       /\ OnlyResets(users, r.who, r.row.resetToken)

RowsMailed == \A u \in Emails : Mailed(user[u].verifyToken, links) /\ Mailed(user[u].resetToken, links)

\* It is idle, or the links of the row it has loaded were mailed.
Honest(users, n, r) ==
  /\ Carries(users, r)
  /\ r.op \in Rewrites => Mailed(r.row.verifyToken, n) /\ Mailed(r.row.resetToken, n)

AllHonest == \A p \in Procs : Honest(user, links, req[p])

UsedMailed == \A t \in used : Mailed(t, links) /\ t # 0

TokenInv ==
  backend = "sqlite" =>
    /\ RowsMailed /\ UsedMailed /\ Distinct /\ AllHonest /\ LinksSound

\* One row is replaced by one with its own links, cleared or not, or with a link
\* no one has seen.
LEMMA LinksWritten ==
  ASSUME Types, RowsMailed, Distinct, NEW u \in Emails, NEW row \in Row,
         user' = [user EXCEPT ![u] = row],
         row.verifyToken \in {user[u].verifyToken, 0, links + 1},
         row.resetToken \in {user[u].resetToken, 0, links + 1},
         row.verifyToken = links + 1 => row.resetToken # links + 1,
         links' \in {links, links + 1},
         row.verifyToken = links + 1 \/ row.resetToken = links + 1 => links' = links + 1
  PROVE  /\ RowsMailed' /\ Distinct'
         /\ \A r : Honest(user, links, r) => Carries(user', r)
<1> DEFINE n == links + 1
<1>1. links \in Nat
  BY DEF Types, Tokens
<1>2. \A v \in Emails : user'[v] = IF v = u THEN row ELSE user[v]
  BY DEF Types
<1>3. \A v \in Emails : /\ user[v].verifyToken \in Nat /\ user[v].verifyToken < n
                        /\ user[v].resetToken \in Nat /\ user[v].resetToken < n
  BY <1>1 DEF RowsMailed, Mailed
<1>4. RowsMailed'
  <2> SUFFICES ASSUME NEW v \in Emails
               PROVE  /\ user'[v].verifyToken \in Nat /\ user'[v].verifyToken <= links'
                      /\ user'[v].resetToken \in Nat /\ user'[v].resetToken <= links'
    BY DEF RowsMailed, Mailed
  <2>1. CASE v = u
    BY <2>1, <1>1, <1>2, <1>3
  <2>2. CASE v # u
    BY <2>2, <1>1, <1>2, <1>3
  <2> QED
    BY <2>1, <2>2
<1>5. Distinct'
  <2> SUFFICES ASSUME NEW v \in Emails, NEW w \in Emails
               PROVE  /\ user'[v].resetToken # 0 => user'[v].resetToken # user'[w].verifyToken
                      /\ v # w => /\ user'[v].resetToken # 0 =>
                                       user'[v].resetToken # user'[w].resetToken
                                  /\ user'[v].verifyToken # 0 =>
                                       user'[v].verifyToken # user'[w].verifyToken
    BY DEF Distinct
  <2>1. /\ user[v].resetToken # 0 => user[v].resetToken # user[w].verifyToken
        /\ v # w => /\ user[v].resetToken # 0 => user[v].resetToken # user[w].resetToken
                    /\ user[v].verifyToken # 0 => user[v].verifyToken # user[w].verifyToken
    BY DEF Distinct
  <2>2. CASE v # u /\ w # u
    BY <2>1, <2>2, <1>2
  <2>3. CASE v = u /\ w # u
    BY <2>1, <2>3, <1>1, <1>2, <1>3
  <2>4. CASE v # u /\ w = u
    BY <2>1, <2>4, <1>1, <1>2, <1>3
  <2>5. CASE v = u /\ w = u
    BY <2>1, <2>5, <1>1, <1>2, <1>3
  <2> QED
    BY <2>2, <2>3, <2>4, <2>5
<1>6. ASSUME NEW r, Honest(user, links, r) PROVE Carries(user', r)
  <2>1. CASE r.op = "verify"
    <3>1. r.row.verifyToken \in Nat /\ r.row.verifyToken < n /\ r.row.verifyToken # 0
      BY <1>1, <1>6, <2>1 DEF Honest, Carries, Mailed, Rewrites, Saves
    <3>2. OnlyVerifies(user, r.who, r.row.verifyToken)
      BY <1>6, <2>1 DEF Honest, Carries
    <3>3. OnlyVerifies(user', r.who, r.row.verifyToken)
      BY <1>1, <1>2, <3>1, <3>2 DEF OnlyVerifies
    <3> QED
      BY <1>6, <2>1, <3>3 DEF Honest, Carries
  <2>2. CASE r.op = "reset"
    <3>1. r.row.resetToken \in Nat /\ r.row.resetToken < n /\ r.row.resetToken # 0
      BY <1>1, <1>6, <2>2 DEF Honest, Carries, Mailed, Rewrites, Saves
    <3>2. OnlyResets(user, r.who, r.row.resetToken)
      BY <1>6, <2>2 DEF Honest, Carries
    <3>3. OnlyResets(user', r.who, r.row.resetToken)
      BY <1>1, <1>2, <3>1, <3>2 DEF OnlyResets
    <3> QED
      BY <1>6, <2>2, <3>3 DEF Honest, Carries
  <2>3. CASE r.op \notin {"verify", "reset"}
    BY <1>6, <2>3 DEF Honest, Carries
  <2> QED
    BY <2>1, <2>2, <2>3
<1> QED
  BY <1>4, <1>5, <1>6

\* The parts of TokenInv from those of a step that ends the request of p or lets
\* it hold r.
LEMMA LinksHeld ==
  ASSUME Types, AllHonest, NEW p \in Procs, NEW r, req' = [req EXCEPT ![p] = r],
         links' \in Nat, links <= links',
         \A x : Honest(user, links, x) => Carries(user', x), Honest(user', links', r)
  PROVE  AllHonest'
<1> SUFFICES ASSUME NEW q \in Procs PROVE Honest(user', links', req'[q])
  BY DEF AllHonest
<1>1. req'[q] = IF q = p THEN r ELSE req[q]
  BY DEF Types
<1>2. links \in Nat
  BY DEF Types, Tokens
<1>3. Honest(user, links, req[q])
  BY DEF AllHonest
<1>4. Honest(user', links', req[q])
  BY <1>2, <1>3 DEF Honest, Mailed
<1> QED
  BY <1>1, <1>4

\* A request loads a row: it knows the links it has read.
LEMMA LinksLoad ==
  ASSUME Types, TokenInv, backend = "sqlite", NEW p \in Procs, NEW operation \in Ops,
         NEW u \in Emails, NEW to, Load(p, operation, u, to),
         operation \in {"register", "insert"} => to.verifyToken = 0 /\ to.resetToken = 0,
         operation \in Rewrites => /\ to.verifyToken \in {user[u].verifyToken, 0}
                                   /\ to.resetToken \in {user[u].resetToken, 0},
         operation = "verify" => user[u].verifyToken # 0 /\ to.verifyToken = 0,
         operation = "reset" => user[u].resetToken # 0 /\ to.resetToken = 0
  PROVE  TokenInv'
<1> DEFINE r == [op |-> operation, who |-> u, row |-> user[u], to |-> to]
<1>1. /\ req' = [req EXCEPT ![p] = r]
      /\ UNCHANGED <<site, user, needs, links, sent, used>>
  BY DEF Load
<1>2. Carries(user, r)
  <2>1. operation = "verify" => OnlyVerifies(user, u, user[u].verifyToken)
    BY DEF TokenInv, Distinct, OnlyVerifies
  <2>2. operation = "reset" => OnlyResets(user, u, user[u].resetToken)
    BY DEF TokenInv, Distinct, OnlyResets
  <2> QED
    BY <2>1, <2>2 DEF Carries
<1>3. Honest(user, links, r)
  BY <1>2 DEF Honest, TokenInv, RowsMailed
<1> HIDE DEF r
<1>4. AllHonest'
  <2>1. links \in Nat /\ links' \in Nat /\ links <= links'
    BY <1>1 DEF Types, Tokens
  <2>2. \A x : Honest(user, links, x) => Carries(user', x)
    BY <1>1 DEF Honest
  <2>3. Honest(user', links', r)
    BY <1>1, <1>3
  <2> QED
    BY <1>1, <2>1, <2>2, <2>3, LinksHeld DEF TokenInv
<1>5. RowsMailed' /\ UsedMailed' /\ Distinct' /\ LinksSound'
  BY <1>1 DEF TokenInv, RowsMailed, UsedMailed, Distinct, LinksSound, backend
<1> QED
  BY <1>1, <1>4, <1>5 DEF TokenInv

LEMMA LoadsLink ==
  ASSUME IInv, TokenInv, backend = "sqlite", NEW p \in Procs, NEW u \in people,
         \/ Register(p, u) \/ Setup(p, u) \/ Profile(p, u) \/ Resend(p, u) \/ Forgot(p, u)
         \/ Verify(p, u) \/ Reset(p, u)
         \/ \E admin \in BOOLEAN : AdminCreate(p, u, admin)
         \/ \E verifiedEmail \in BOOLEAN : SsoCallback(p, u, verifiedEmail)
         \/ \E me \in people : AdminUpdate(p, me, u)
  PROVE  TokenInv'
<1>a. u \in Emails /\ user[u] \in Row /\ Types
  BY PeopleHaveEmails DEF IInv, Types
<1>b. {"register", "insert"} \cap (Rewrites \cup {"verify", "reset"}) = {}
      /\ {"register", "insert"} \cup Rewrites \subseteq Ops
      /\ {"save", "verify", "reset", "verifyLink", "resetLink"} \subseteq Rewrites
  BY DEF Ops, Rewrites, Saves
<1>c. NewUser.verifyToken = 0 /\ NewUser.resetToken = 0 /\ NewUser \in Row
  BY RowsMade DEF NewUser, NoUser
\* An account that is inserted has no links.
<1>1. ASSUME NEW operation \in {"register", "insert"}, NEW to, Load(p, operation, u, to),
             to.verifyToken = 0 /\ to.resetToken = 0
      PROVE  TokenInv'
  BY <1>1, <1>a, <1>b, LinksLoad
\* A form keeps or clears them.
<1>2. ASSUME NEW operation \in {"save", "verifyLink", "resetLink"}, NEW to,
             Load(p, operation, u, to),
             to.verifyToken \in {user[u].verifyToken, 0} /\ to.resetToken \in {user[u].resetToken, 0}
      PROVE  TokenInv'
  BY <1>2, <1>a, <1>b, LinksLoad
<1>v. ASSUME NEW row \in Row
      PROVE  Verified(row).verifyToken = 0 /\ Verified(row).resetToken = row.resetToken
  BY DEF Verified, Row
<1>3. CASE Register(p, u)
  BY <1>1, <1>3, <1>c DEF Register
<1>4. CASE Setup(p, u)
  <2> DEFINE row == [NewUser EXCEPT !.admin = TRUE, !.verified = TRUE]
  <2>1. Load(p, "insert", u, row)
    BY <1>4 DEF Setup
  <2>2. row.verifyToken = 0 /\ row.resetToken = 0
    BY <1>c DEF Row
  <2> HIDE DEF row
  <2> QED
    BY <1>1, <2>1, <2>2
<1>5. CASE Profile(p, u)
  <2>1. PICK password \in {user[u].password, "set"} :
          Load(p, "save", u, [user[u] EXCEPT !.password = password])
    BY <1>5 DEF Profile, Change
  <2> DEFINE row == [user[u] EXCEPT !.password = password]
  <2>2. row.verifyToken = user[u].verifyToken /\ row.resetToken = user[u].resetToken
    BY <1>a DEF Row
  <2>3. Load(p, "save", u, row)
    BY <2>1
  <2> HIDE DEF row
  <2> QED
    BY <1>2, <2>2, <2>3
<1>6. CASE Resend(p, u)
  BY <1>2, <1>6 DEF Resend
<1>7. CASE Forgot(p, u)
  BY <1>2, <1>7 DEF Forgot
<1>8. CASE Verify(p, u)
  <2>1. Load(p, "verify", u, Verified(user[u])) /\ user[u].verifyToken # 0
    BY <1>8 DEF Verify
  <2>2. /\ Verified(user[u]).verifyToken = 0
        /\ Verified(user[u]).resetToken = user[u].resetToken
    BY <1>a, <1>v
  <2> QED
    BY <2>1, <2>2, <1>a, <1>b, LinksLoad
<1>9. CASE Reset(p, u)
  <2>1. Load(p, "reset", u, ResetRow(user[u])) /\ user[u].resetToken # 0
    BY <1>9 DEF Reset
  <2>2. /\ ResetRow(user[u]).verifyToken = user[u].verifyToken
        /\ ResetRow(user[u]).resetToken = 0
    BY <1>a DEF ResetRow, Row
  <2> QED
    BY <2>1, <2>2, <1>a, <1>b, LinksLoad
<1>10. ASSUME NEW admin \in BOOLEAN, AdminCreate(p, u, admin) PROVE TokenInv'
  <2>1. PICK banned, verified \in BOOLEAN :
          Load(p, "insert", u, [NewUser EXCEPT !.admin = admin, !.banned = banned,
                                               !.verified = verified])
    BY <1>10 DEF AdminCreate
  <2> DEFINE row == [NewUser EXCEPT !.admin = admin, !.banned = banned, !.verified = verified]
  <2>2. row.verifyToken = 0 /\ row.resetToken = 0
    BY <1>c DEF Row
  <2>3. Load(p, "insert", u, row)
    BY <2>1
  <2> HIDE DEF row
  <2> QED
    BY <1>1, <2>2, <2>3
<1>11. ASSUME NEW verifiedEmail \in BOOLEAN, SsoCallback(p, u, verifiedEmail) PROVE TokenInv'
  <2>1. CASE user[u].exists
    <3> DEFINE linked == [user[u] EXCEPT !.sso = TRUE]
               found  == IF verifiedEmail THEN Verified(linked) ELSE linked
    <3>1. Load(p, "save", u, found)
      BY <1>11, <2>1 DEF SsoCallback
    <3>2. /\ linked \in Row
          /\ linked.verifyToken = user[u].verifyToken /\ linked.resetToken = user[u].resetToken
      BY <1>a DEF Row
    <3>3. found.verifyToken \in {user[u].verifyToken, 0} /\ found.resetToken = user[u].resetToken
      <4> HIDE DEF linked
      <4> QED
        BY <3>2, <1>v
    <3> HIDE DEF found
    <3> QED
      BY <1>2, <3>1, <3>3
  <2>2. CASE ~user[u].exists
    <3> DEFINE row == [NewUser EXCEPT !.password = "none", !.sso = TRUE, !.verified = verifiedEmail]
    <3>1. Load(p, "insert", u, row)
      BY <1>11, <2>2 DEF SsoCallback
    <3>2. row.verifyToken = 0 /\ row.resetToken = 0
      BY <1>c DEF Row
    <3> HIDE DEF row
    <3> QED
      BY <1>1, <3>1, <3>2
  <2> QED
    BY <2>1, <2>2
<1>12. ASSUME NEW me \in people, AdminUpdate(p, me, u) PROVE TokenInv'
  <2>1. PICK admin, banned, verified \in BOOLEAN, password \in {user[u].password, "set"} :
          Load(p, "save", u, Edited(user[u], admin, banned, verified, password))
    BY <1>12 DEF AdminUpdate, Change
  <2> DEFINE typed == [user[u] EXCEPT !.admin = admin, !.banned = banned, !.password = password]
             row   == Edited(user[u], admin, banned, verified, password)
  <2>2. password \in {"none", "set"}
    BY <1>a DEF Row
  <2>3. /\ typed \in Row
        /\ typed.verifyToken = user[u].verifyToken /\ typed.resetToken = user[u].resetToken
    BY <1>a, <2>2 DEF Row
  <2>4. row = IF verified THEN Verified(typed) ELSE [typed EXCEPT !.verified = FALSE]
    BY DEF Edited
  <2> HIDE DEF typed
  <2>5. row.verifyToken \in {user[u].verifyToken, 0} /\ row.resetToken = user[u].resetToken
    BY <2>3, <2>4, <1>v DEF Row
  <2>6. Load(p, "save", u, row)
    BY <2>1
  <2> HIDE DEF row
  <2> QED
    BY <1>2, <2>5, <2>6
<1> QED
  BY <1>3, <1>4, <1>5, <1>6, <1>7, <1>8, <1>9, <1>10, <1>11, <1>12

\* An idle request carries nothing.
LEMMA IdleHonest == \A users, n : Honest(users, n, Idle)
<1>1. Idle.op = None /\ None \notin Rewrites \cup {"register", "insert", "verify", "reset"}
  BY NoneAssumption DEF Idle, Ops, Rewrites, Saves
<1> QED
  BY <1>1 DEF Honest, Carries

LEMMA OthersLink ==
  ASSUME Types, TokenInv, backend = "sqlite", NEW p \in Procs,
         Fail(p) \/ NoticeAdmin(p) \/ Restart(p)
  PROVE  TokenInv'
<1>1. UNCHANGED <<site, user, links, sent, used>>
      /\ (req' = [req EXCEPT ![p] = Idle] \/ req' = req)
  BY DEF Fail, NoticeAdmin, Restart
<1>2. AllHonest'
  <2>1. links \in Nat /\ links' \in Nat /\ links <= links'
    BY <1>1 DEF Types, Tokens
  <2>2. \A x : Honest(user, links, x) => Carries(user', x)
    BY <1>1 DEF Honest
  <2>3. CASE req' = [req EXCEPT ![p] = Idle]
    BY <2>1, <2>2, <2>3, IdleHonest, LinksHeld DEF TokenInv
  <2>4. CASE req' = req
    BY <1>1, <2>4 DEF TokenInv, AllHonest
  <2> QED
    BY <1>1, <2>3, <2>4
<1>3. RowsMailed' /\ UsedMailed' /\ Distinct' /\ LinksSound'
  BY <1>1 DEF TokenInv, RowsMailed, UsedMailed, Distinct, LinksSound, backend
<1> QED
  BY <1>1, <1>2, <1>3 DEF TokenInv

\* A request of account u writes row and ends; with it the links in new are used.
LinkWrite(p, u, row, new) ==
  /\ user' = [user EXCEPT ![u] = row]
  /\ req' = [req EXCEPT ![p] = Idle]
  /\ site' = site
  /\ row.verifyToken \in {user[u].verifyToken, 0, links + 1}
  /\ row.resetToken \in {user[u].resetToken, 0, links + 1}
  /\ row.verifyToken = links + 1 => row.resetToken # links + 1
  /\ links' \in {links, links + 1}
  /\ row.verifyToken = links + 1 \/ row.resetToken = links + 1 => links' = links + 1
  /\ sent' = [sent EXCEPT ![u] = IF row.resetToken = links + 1 THEN links + 1 ELSE @]
  /\ used' = used \cup new

\* Links that have been mailed and that no account holds once row is written.
Spent(u, row, new) ==
  \A t \in new : /\ t \in Nat /\ t # 0 /\ t <= links
                 /\ row.verifyToken # t /\ row.resetToken # t
                 /\ \A v \in Emails : v # u => user[v].verifyToken # t /\ user[v].resetToken # t

\* A step that writes a row and ends its request.
LEMMA WriteLinks ==
  ASSUME Types, TokenInv, backend = "sqlite", NEW p \in Procs, NEW u \in Emails, NEW row \in Row,
         NEW new, LinkWrite(p, u, row, new), Spent(u, row, new)
  PROVE  TokenInv'
<1>1. links \in Nat /\ links' \in Nat /\ links <= links'
  BY DEF Types, Tokens, LinkWrite
<1>2. \A v \in Emails : user'[v] = IF v = u THEN row ELSE user[v]
  BY DEF Types, LinkWrite
<1>3. /\ RowsMailed' /\ Distinct'
      /\ \A r : Honest(user, links, r) => Carries(user', r)
  BY LinksWritten DEF TokenInv, LinkWrite
<1>4. AllHonest'
  BY <1>1, <1>3, IdleHonest, LinksHeld DEF TokenInv, LinkWrite
<1>5. \A t \in used : t \in Nat /\ t <= links /\ t # 0
  BY DEF TokenInv, UsedMailed, Mailed
<1>6. \A t : t \in used' <=> t \in used \/ t \in new
  BY DEF LinkWrite
<1>7. UsedMailed'
  <2> SUFFICES ASSUME NEW t \in used' PROVE t \in Nat /\ t <= links' /\ t # 0
    BY DEF UsedMailed, Mailed
  <2>1. t \in Nat /\ t <= links /\ t # 0
    BY <1>5, <1>6 DEF Spent
  <2> QED
    BY <1>1, <2>1
<1>8. LinksSound'
  <2> SUFFICES ASSUME NEW v \in Emails
               PROVE  /\ user'[v].resetToken \in {0, sent'[v]} /\ user'[v].resetToken \notin used'
                      /\ user'[v].verifyToken \notin used'
    BY DEF LinksSound
  <2>1. /\ user[v].resetToken \in {0, sent[v]} /\ user[v].resetToken \notin used
        /\ user[v].verifyToken \notin used
    BY DEF TokenInv, LinksSound
  <2>2. links + 1 \notin used /\ 0 \notin used
    BY <1>1, <1>5
  <2>3. CASE v # u
    <3>1. user'[v] = user[v] /\ sent'[v] = sent[v]
      BY <1>2, <2>3 DEF Types, LinkWrite
    <3>2. user[v].resetToken \notin new /\ user[v].verifyToken \notin new
      BY <2>3 DEF Spent
    <3> QED
      BY <1>6, <2>1, <3>1, <3>2
  <2>4. CASE v = u
    <3>1. user'[v] = row
      BY <1>2, <2>4
    <3>2. row.verifyToken \notin used /\ row.resetToken \notin used
      BY <2>1, <2>2, <2>4 DEF LinkWrite
    <3>3. row.verifyToken \notin new /\ row.resetToken \notin new
      BY DEF Spent
    <3>4. sent'[v] = IF row.resetToken = links + 1 THEN links + 1 ELSE sent[v]
      BY <2>4 DEF Types, LinkWrite
    <3>5. row.resetToken \in {0, sent'[v]}
      BY <2>1, <2>4, <3>4 DEF LinkWrite
    <3> QED
      BY <1>6, <3>1, <3>2, <3>3, <3>5
  <2> QED
    BY <2>3, <2>4
<1> QED
  BY <1>3, <1>4, <1>7, <1>8 DEF TokenInv

\* What a save on SQLite leaves in each column.
LEMMA MergedColumns ==
  ASSUME backend = "sqlite", NEW u \in Emails, NEW row \in Row, NEW to \in Row
  PROVE  /\ Merged(u, row, to).verifyToken = IF to.verifyToken # row.verifyToken THEN to.verifyToken
                                             ELSE user[u].verifyToken
         /\ Merged(u, row, to).resetToken = IF to.resetToken # row.resetToken THEN to.resetToken
                                            ELSE user[u].resetToken
         /\ Merged(u, row, to).banned = IF to.banned # row.banned THEN to.banned
                                        ELSE user[u].banned
         /\ Merged(u, row, to).verified = IF to.verified # row.verified THEN to.verified
                                          ELSE user[u].verified
         /\ Merged(u, row, to).password = IF to.password # row.password THEN to.password
                                          ELSE user[u].password
BY DEF Merged, Row

LEMMA InsertsLink ==
  ASSUME IInv, TokenInv, backend = "sqlite", NEW p \in Procs, Insert(p) \/ InsertRegistered(p)
  PROVE  TokenInv'
<1> DEFINE u == req[p].who
<1>a. links \in Nat /\ Types
  BY DEF IInv, Types, Tokens
<1>b. NewUser.verifyToken = 0 /\ NewUser.resetToken = 0 /\ NewUser \in Row
  BY RowsMade DEF NewUser, NoUser
<1>c. 0 # links + 1
  BY <1>a
<1>1. CASE Insert(p)
  <2> DEFINE row == req[p].to
  <2>1. u \in Emails /\ row \in Row
    BY <1>1, WriterPends DEF Insert, Ops
  <2>2. row.verifyToken = 0 /\ row.resetToken = 0
    BY <1>1 DEF Insert, TokenInv, AllHonest, Honest, Carries
  <2>3. /\ user' = [user EXCEPT ![u] = row] /\ req' = [req EXCEPT ![p] = Idle]
        /\ site' = site /\ links' = links /\ sent' = sent /\ used' = used \cup {}
    BY <1>1 DEF Insert
  <2>4. sent' = [sent EXCEPT ![u] = IF row.resetToken = links + 1 THEN links + 1 ELSE @]
    BY <1>a, <1>c, <2>2, <2>3 DEF Types
  <2>5. LinkWrite(p, u, row, {}) /\ Spent(u, row, {})
    BY <1>c, <2>2, <2>3, <2>4 DEF LinkWrite, Spent
  <2> QED
    BY <1>a, <2>1, <2>5, WriteLinks
<1>2. CASE InsertRegistered(p)
  <2> DEFINE row == IF RequireVerification THEN [NewUser EXCEPT !.verifyToken = links + 1]
                    ELSE NewUser
  <2>1. u \in Emails
    BY <1>2, WriterPends DEF InsertRegistered, Ops
  <2>2. /\ user' = [user EXCEPT ![u] = row] /\ req' = [req EXCEPT ![p] = Idle]
        /\ site' = site /\ sent' = sent /\ used' = used \cup {}
        /\ links' = IF RequireVerification THEN links + 1 ELSE links
        /\ RequireVerification => links < site.mails
    BY <1>2 DEF InsertRegistered
  <2>3. RequireVerification => links + 1 \in Tokens
    BY <1>a, <2>2, AccountsAssumption, PeopleHaveEmails DEF Tokens
  <2>4. row \in Row
    BY <1>b, <2>3 DEF Row
  <2>5. /\ row.verifyToken = IF RequireVerification THEN links + 1 ELSE 0
        /\ row.resetToken = 0
    BY <1>b DEF Row
  <2> HIDE DEF row, u
  <2>6. sent' = [sent EXCEPT ![u] = IF row.resetToken = links + 1 THEN links + 1 ELSE @]
    BY <1>a, <1>c, <2>2, <2>5 DEF Types
  <2>7. links' \in {links, links + 1}
        /\ (row.verifyToken = links + 1 \/ row.resetToken = links + 1 => links' = links + 1)
    BY <1>c, <2>2, <2>5
  <2>8. row.verifyToken = links + 1 => row.resetToken # links + 1
    BY <1>c, <2>5
  <2>9. row.verifyToken \in {user[u].verifyToken, 0, links + 1}
    BY <2>5
  <2>10. LinkWrite(p, u, row, {}) /\ Spent(u, row, {})
    BY <2>2, <2>5, <2>6, <2>7, <2>8, <2>9 DEF LinkWrite, Spent
  <2> QED
    BY <1>a, <2>1, <2>4, <2>10, WriteLinks
<1> QED
  BY <1>1, <1>2

LEMMA SavesLink ==
  ASSUME IInv, TokenInv, backend = "sqlite", NEW p \in Procs,
         Save(p) \/ SendVerifyLink(p) \/ SendResetLink(p)
  PROVE  TokenInv'
<1> DEFINE u   == req[p].who
           row == req[p].row
           to  == req[p].to
<1>a. req[p].op \in Rewrites
  BY DEF Save, SendVerifyLink, SendResetLink, Rewrites
<1>b. u \in Emails /\ row \in Row /\ to \in Row /\ Derived(row, to) /\ user[u].exists
      /\ row.admin = user[u].admin
  BY <1>a, WriterPends DEF Ops, Rewrites
<1>c. links \in Nat /\ user \in [Emails -> Row] /\ Types /\ Sound(user[u])
  BY <1>b DEF IInv, Types, Tokens, UsersSound
<1>d. links < site.mails => links + 1 \in Tokens
  BY <1>c, AccountsAssumption, PeopleHaveEmails DEF Tokens
<1>e. /\ to.verifyToken \in {row.verifyToken, 0} /\ to.resetToken \in {row.resetToken, 0}
      /\ row.verifyToken \in Nat /\ row.verifyToken <= links
      /\ row.resetToken \in Nat /\ row.resetToken <= links
  BY <1>a DEF TokenInv, AllHonest, Honest, Carries, Mailed
<1>f. user[u].verifyToken # links + 1 /\ user[u].resetToken # links + 1
  BY <1>b, <1>c DEF TokenInv, RowsMailed, Mailed
<1>g. 0 # links + 1 /\ row.verifyToken # links + 1 /\ row.resetToken # links + 1
  BY <1>c, <1>e
<1>1. CASE Save(p)
  <2> DEFINE m   == Merged(u, row, to)
             new == CASE req[p].op = "verify" -> {row.verifyToken}
                      [] req[p].op = "reset"  -> {row.resetToken}
                      [] OTHER -> {}
  <2>1. /\ user' = [user EXCEPT ![u] = m] /\ req' = [req EXCEPT ![p] = Idle]
        /\ site' = site /\ links' = links /\ sent' = sent /\ used' = used \cup new
    BY <1>1 DEF Save
  <2>2. m \in Row
    BY <1>b, <1>c, MergedRow
  <2>3. /\ m.verifyToken = IF to.verifyToken # row.verifyToken THEN to.verifyToken
                           ELSE user[u].verifyToken
        /\ m.resetToken = IF to.resetToken # row.resetToken THEN to.resetToken
                          ELSE user[u].resetToken
    BY <1>b, MergedColumns
  <2> HIDE DEF m
  <2>4. m.verifyToken \in {user[u].verifyToken, 0} /\ m.resetToken \in {user[u].resetToken, 0}
    BY <1>e, <2>3
  <2>6. ASSUME NEW t \in new
        PROVE  /\ t \in Nat /\ t # 0 /\ t <= links /\ m.verifyToken # t /\ m.resetToken # t
               /\ \A v \in Emails : v # u => user[v].verifyToken # t /\ user[v].resetToken # t
    <3>1. CASE req[p].op = "verify"
      <4>1. t = row.verifyToken
        BY <2>6, <3>1
      <4>2. /\ row.verifyToken # 0 /\ to.verifyToken = 0
            /\ OnlyVerifies(user, u, row.verifyToken)
        BY <3>1 DEF TokenInv, AllHonest, Honest, Carries
      <4>3. m.verifyToken = 0
        BY <2>3, <4>2
      <4>4. m.resetToken # t
        BY <1>b, <2>4, <4>1, <4>2 DEF OnlyVerifies
      <4> QED
        BY <1>e, <4>1, <4>2, <4>3, <4>4 DEF OnlyVerifies
    <3>2. CASE req[p].op = "reset"
      <4>1. t = row.resetToken
        BY <2>6, <3>2
      <4>2. /\ row.resetToken # 0 /\ to.resetToken = 0
            /\ OnlyResets(user, u, row.resetToken)
        BY <3>2 DEF TokenInv, AllHonest, Honest, Carries
      <4>3. m.resetToken = 0
        BY <2>3, <4>2
      <4>4. m.verifyToken # t
        BY <1>b, <2>4, <4>1, <4>2 DEF OnlyResets
      <4> QED
        BY <1>e, <4>1, <4>2, <4>3, <4>4 DEF OnlyResets
    <3>3. CASE req[p].op \notin {"verify", "reset"}
      BY <2>6, <3>3
    <3> QED
      BY <3>1, <3>2, <3>3
  <2> HIDE DEF new
  <2>7. m.verifyToken # links + 1 /\ m.resetToken # links + 1
    BY <1>f, <1>g, <2>4
  <2>8. sent' = [sent EXCEPT ![u] = IF m.resetToken = links + 1 THEN links + 1 ELSE @]
    BY <1>c, <2>1, <2>7 DEF Types
  <2>9. LinkWrite(p, u, m, new) /\ Spent(u, m, new)
    BY <2>1, <2>4, <2>6, <2>7, <2>8 DEF LinkWrite, Spent
  <2> QED
    BY <1>b, <1>c, <2>2, <2>9, WriteLinks
<1>2. CASE SendVerifyLink(p)
  <2> DEFINE next == [to EXCEPT !.verifyToken = links + 1]
             m    == Merged(u, row, next)
  <2>1. /\ user' = [user EXCEPT ![u] = m] /\ req' = [req EXCEPT ![p] = Idle]
        /\ site' = site /\ links' = links + 1 /\ sent' = sent /\ used' = used \cup {}
        /\ links < site.mails
    BY <1>2 DEF SendVerifyLink
  <2>2. next \in Row
    BY <1>b, <1>d, <2>1 DEF Row
  <2>3. Derived(row, next)
    BY <1>b DEF Derived, Sound, Row
  <2>4. next.verifyToken = links + 1 /\ next.resetToken = to.resetToken
    BY <1>b DEF Row
  <2> HIDE DEF next
  <2>5. m \in Row
    BY <1>b, <1>c, <2>2, <2>3, MergedRow
  <2>6. /\ m.verifyToken = links + 1
        /\ m.resetToken \in {user[u].resetToken, 0}
    <3>1. /\ m.verifyToken = IF next.verifyToken # row.verifyToken THEN next.verifyToken
                             ELSE user[u].verifyToken
          /\ m.resetToken = IF next.resetToken # row.resetToken THEN next.resetToken
                            ELSE user[u].resetToken
      BY <1>b, <2>2, MergedColumns
    <3> QED
      BY <1>e, <1>g, <2>4, <3>1
  <2> HIDE DEF m
  <2>7. m.resetToken # links + 1
    BY <1>f, <1>g, <2>6
  <2>8. sent' = [sent EXCEPT ![u] = IF m.resetToken = links + 1 THEN links + 1 ELSE @]
    BY <1>c, <2>1, <2>7 DEF Types
  <2>9. LinkWrite(p, u, m, {}) /\ Spent(u, m, {})
    BY <2>1, <2>6, <2>7, <2>8 DEF LinkWrite, Spent
  <2> QED
    BY <1>b, <1>c, <2>5, <2>9, WriteLinks
<1>3. CASE SendResetLink(p)
  <2> DEFINE next == [to EXCEPT !.resetToken = links + 1]
             m    == Merged(u, row, next)
  <2>1. /\ user' = [user EXCEPT ![u] = m] /\ req' = [req EXCEPT ![p] = Idle]
        /\ site' = site /\ links' = links + 1 /\ sent' = [sent EXCEPT ![u] = links + 1]
        /\ used' = used \cup {} /\ links < site.mails
    BY <1>3 DEF SendResetLink
  <2>2. next \in Row
    BY <1>b, <1>d, <2>1 DEF Row
  <2>3. Derived(row, next)
    BY <1>b DEF Derived, Sound, Row
  <2>4. next.resetToken = links + 1 /\ next.verifyToken = to.verifyToken
    BY <1>b DEF Row
  <2> HIDE DEF next
  <2>5. m \in Row
    BY <1>b, <1>c, <2>2, <2>3, MergedRow
  <2>6. /\ m.resetToken = links + 1
        /\ m.verifyToken \in {user[u].verifyToken, 0}
    <3>1. /\ m.verifyToken = IF next.verifyToken # row.verifyToken THEN next.verifyToken
                             ELSE user[u].verifyToken
          /\ m.resetToken = IF next.resetToken # row.resetToken THEN next.resetToken
                            ELSE user[u].resetToken
      BY <1>b, <2>2, MergedColumns
    <3> QED
      BY <1>e, <1>g, <2>4, <3>1
  <2> HIDE DEF m
  <2>7. m.verifyToken # links + 1
    BY <1>f, <1>g, <2>6
  <2>8. sent' = [sent EXCEPT ![u] = IF m.resetToken = links + 1 THEN links + 1 ELSE @]
    BY <2>1, <2>6
  <2>9. LinkWrite(p, u, m, {}) /\ Spent(u, m, {})
    BY <2>1, <2>6, <2>7, <2>8 DEF LinkWrite, Spent
  <2> QED
    BY <1>b, <1>c, <2>5, <2>9, WriteLinks
<1> QED
  BY <1>1, <1>2, <1>3

LEMMA TokenStep ==
  ASSUME IInv, TokenInv, [Next]_vars
  PROVE  TokenInv'
<1>1. CASE UNCHANGED vars
  BY <1>1 DEF vars, TokenInv, RowsMailed, UsedMailed, Distinct, AllHonest, LinksSound, backend
<1>2. CASE backend # "sqlite"
  <2>1. ASSUME NEW p \in Procs, Step(p) PROVE site' = site
    <3>1. CASE \/ Insert(p) \/ InsertRegistered(p) \/ Save(p) \/ SendVerifyLink(p)
               \/ SendResetLink(p) \/ Fail(p) \/ NoticeAdmin(p) \/ Restart(p)
      BY <3>1 DEF Insert, InsertRegistered, Save, SendVerifyLink, SendResetLink, Fail, NoticeAdmin,
                  Restart
    <3>2. ASSUME NEW u \in people,
                 \/ Register(p, u) \/ Setup(p, u) \/ Profile(p, u) \/ Resend(p, u) \/ Forgot(p, u)
                 \/ Verify(p, u) \/ Reset(p, u)
                 \/ \E admin \in BOOLEAN : AdminCreate(p, u, admin)
                 \/ \E verifiedEmail \in BOOLEAN : SsoCallback(p, u, verifiedEmail)
                 \/ \E me \in people : AdminUpdate(p, me, u)
          PROVE  site' = site
      BY <3>2 DEF Load, Register, Setup, Profile, Resend, Forgot, Verify, Reset, AdminCreate,
                  SsoCallback, AdminUpdate, Change
    <3> QED
      BY <2>1, <3>1, <3>2 DEF Step
  <2> QED
    BY <1>1, <1>2, <2>1 DEF TokenInv, backend, Next
<1>3. ASSUME NEW p \in Procs, Step(p), backend = "sqlite" PROVE TokenInv'
  <2>1. CASE Insert(p) \/ InsertRegistered(p)
    BY <1>3, <2>1, InsertsLink
  <2>2. CASE Save(p) \/ SendVerifyLink(p) \/ SendResetLink(p)
    BY <1>3, <2>2, SavesLink
  <2>3. CASE Fail(p) \/ NoticeAdmin(p) \/ Restart(p)
    BY <1>3, <2>3, OthersLink DEF IInv
  <2>4. ASSUME NEW u \in people,
               \/ Register(p, u) \/ Setup(p, u) \/ Profile(p, u) \/ Resend(p, u) \/ Forgot(p, u)
               \/ Verify(p, u) \/ Reset(p, u)
               \/ \E admin \in BOOLEAN : AdminCreate(p, u, admin)
               \/ \E verifiedEmail \in BOOLEAN : SsoCallback(p, u, verifiedEmail)
               \/ \E me \in people : AdminUpdate(p, me, u)
        PROVE  TokenInv'
    BY <1>3, <2>4, LoadsLink
  <2> QED
    BY <1>3, <2>1, <2>2, <2>3, <2>4 DEF Step
<1> QED
  BY <1>1, <1>2, <1>3 DEF Next

\* On SQLite the reset link an account holds is the one mailed last, and no link
\* that a committed request has used comes back, however many requests overlap.
THEOREM LinksAreSound == Spec => []LinksSound
<1>1. Init => TokenInv
  BY NoneAssumption, AccountsAssumption
     DEF Init, NoUser, Idle, TokenInv, RowsMailed, UsedMailed, Distinct, AllHonest, Honest, Carries,
         LinksSound, Mailed, Ops, Rewrites, Saves
<1>2. IInv /\ TokenInv /\ [Next]_vars => TokenInv'
  BY TokenStep
<1>3. TokenInv => LinksSound
  BY DEF TokenInv, LinksSound
<1> QED
  BY <1>1, <1>2, <1>3, IInvAlways, PTL DEF Spec

\* On SQLite a request changes only the columns it set out to change.
THEOREM ColumnsAreOwn == Spec => OwnColumnsOnly
<1> DEFINE Own(q, u) ==
      user[u].exists /\ req[q].who = u /\ req'[q] = Idle =>
        LET row == req[q].row
            to  == req[q].to
        IN /\ user[u].banned /\ ~user'[u].banned => row.banned /\ ~to.banned
           /\ user[u].verified /\ ~user'[u].verified => row.verified /\ ~to.verified
           /\ user'[u].password # user[u].password => row.password # to.password
<1>1. ASSUME IInv, Next, backend = "sqlite", NEW q \in Procs, NEW u \in Emails PROVE Own(q, u)
  <2> SUFFICES ASSUME user[u].exists, req[q].who = u, req'[q] = Idle, user'[u] # user[u]
               PROVE  Own(q, u)
    BY <1>1 DEF IInv, Types, Row
  <2>a. req[q] # Idle
    BY AccountsAssumption DEF Idle
  <2>b. user \in [Emails -> Row]
    BY <1>1 DEF IInv, Types
  <2>1. PICK p \in Procs : Step(p)
    BY <1>1 DEF Next
  <2>2. CASE Insert(p) \/ InsertRegistered(p)
    <3>1. req' = [req EXCEPT ![p] = req'[p]] /\ \E row : user' = [user EXCEPT ![req[p].who] = row]
      BY <2>2 DEF Insert, InsertRegistered, IInv, Types
    <3>2. ~user[req[p].who].exists
      BY <2>2 DEF Insert, InsertRegistered, Insertable
    <3> QED
      BY <2>b, <3>1, <3>2
  <2>3. CASE Save(p) \/ SendVerifyLink(p) \/ SendResetLink(p)
    <3>1. req' = [req EXCEPT ![p] = Idle]
      BY <2>3 DEF Save, SendVerifyLink, SendResetLink
    <3>2. p = q
      BY <2>a, <3>1 DEF IInv, Types
    <3> DEFINE row == req[q].row
               to  == req[q].to
    <3>3. req[q].op \in Rewrites
      BY <2>3, <3>2 DEF Save, SendVerifyLink, SendResetLink, Rewrites
    <3>4. row \in Row /\ to \in Row
      BY <1>1, <3>3, WriterPends DEF Ops, Rewrites
    <3>5. PICK next \in {to, [to EXCEPT !.verifyToken = links + 1],
                         [to EXCEPT !.resetToken = links + 1]} :
            user' = [user EXCEPT ![u] = Merged(u, row, next)]
      BY <2>3, <3>2 DEF Save, SendVerifyLink, SendResetLink
    <3>6. /\ next.banned = to.banned /\ next.verified = to.verified
          /\ next.password = to.password
      BY <3>4 DEF Row
    <3> DEFINE m == Merged(u, row, next)
    <3>7. /\ m.banned = IF next.banned # row.banned THEN next.banned ELSE user[u].banned
          /\ m.verified = IF next.verified # row.verified THEN next.verified ELSE user[u].verified
          /\ m.password = IF next.password # row.password THEN next.password ELSE user[u].password
      BY <1>1, <3>4 DEF Merged, Row
    <3>8. user'[u] = m
      BY <2>b, <3>5
    <3>9. /\ row.banned \in BOOLEAN /\ to.banned \in BOOLEAN
          /\ row.verified \in BOOLEAN /\ to.verified \in BOOLEAN
      BY <3>4 DEF Row
    <3> HIDE DEF m, row, to
    <3> QED
      BY <3>6, <3>7, <3>8, <3>9 DEF row, to
  <2>4. CASE Fail(p) \/ NoticeAdmin(p) \/ Restart(p)
    BY <1>1, <2>4, OthersKeep
  <2>5. ASSUME NEW v \in people,
               \/ Register(p, v) \/ Setup(p, v) \/ Profile(p, v) \/ Resend(p, v) \/ Forgot(p, v)
               \/ Verify(p, v) \/ Reset(p, v)
               \/ \E admin \in BOOLEAN : AdminCreate(p, v, admin)
               \/ \E verifiedEmail \in BOOLEAN : SsoCallback(p, v, verifiedEmail)
               \/ \E me \in people : AdminUpdate(p, me, v)
        PROVE  user' = user
    BY <1>1, <2>5, LoadsKeep
  <2> QED
    BY <2>1, <2>2, <2>3, <2>4, <2>5 DEF Step
<1>2. IInv /\ [Next]_vars =>
        [backend = "sqlite" =>
           \A p \in Procs : \A u \in Emails :
             user[u].exists /\ req[p].who = u /\ req'[p] = Idle =>
               LET row == req[p].row
                   to  == req[p].to
               IN /\ user[u].banned /\ ~user'[u].banned => row.banned /\ ~to.banned
                  /\ user[u].verified /\ ~user'[u].verified => row.verified /\ ~to.verified
                  /\ user'[u].password # user[u].password => row.password # to.password]_vars
  BY <1>1
<1> HIDE DEF Own
<1> QED
  BY <1>2, IInvAlways, PTL DEF Spec, OwnColumnsOnly
=============================================================================
