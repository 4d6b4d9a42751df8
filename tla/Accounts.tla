------------------------------ MODULE Accounts ------------------------------
(***************************************************************************)
(* Accounts: the first-run setup, registration, the links of verification  *)
(* and password-reset mails, the profile, sign-in at an identity provider, *)
(* and the administrator's user form.                                      *)
(*                                                                         *)
(* A request loads what it needs in one step and writes in another.  On    *)
(* "sqlite" the write, the mail sent under its lock and the commit are one *)
(* transaction, and an UPDATE writes the columns that changed; on "d1" it  *)
(* writes the whole row the request loaded.                                *)
(*                                                                         *)
(* An account is named by its e-mail address, which no handler changes; no *)
(* handler deletes one.  Names, addresses, push tokens and the stateless   *)
(* sign-in tokens are left out: every request that carries one loads the   *)
(* account again and asks CanAct or CanAdmin.  So is time: a link that has  *)
(* expired is one whose Verify or Reset is not taken any more.             *)
(***************************************************************************)
EXTENDS Integers, FiniteSets

CONSTANTS Emails,               \* the addresses people use
          Sites,                \* the shops to consider
          RequireVerification,  \* settings.require_email_verification
          Procs,                \* server processes, each with one request at a time
          MaxLinks,             \* the largest bound on links mailed of any shop
          None                  \* an absent value

ASSUME AccountsAssumption ==
  /\ Sites \subseteq [backend : {"sqlite", "d1"}, people : SUBSET Emails, mails : 0 .. MaxLinks]
  /\ RequireVerification \in BOOLEAN
  /\ MaxLinks \in Nat
  /\ None \notin Emails

VARIABLES
  site,     \* the shop considered; it never changes
  user,     \* User rows
  needs,    \* app.state.needs_setup of each process
  req,      \* the request in progress in each process
  links,    \* links made so far: 1 .. links are the tokens that exist
  \* History, read by the properties only:
  sent,     \* the reset link last mailed to each address
  used      \* tokens a committed request has consumed

vars == <<site, user, needs, req, links, sent, used>>

backend == site.backend   \* settings.database_backend
people  == site.people    \* who uses this shop

Tokens  == 0 .. MaxLinks     \* 0: no token
Row     == [exists : BOOLEAN, admin : BOOLEAN, banned : BOOLEAN, verified : BOOLEAN,
            sso : BOOLEAN, password : {"none", "set"},
            verifyToken : Tokens, resetToken : Tokens]
NoUser  == [exists |-> FALSE, admin |-> FALSE, banned |-> FALSE, verified |-> FALSE,
            sso |-> FALSE, password |-> "none", verifyToken |-> 0, resetToken |-> 0]

NewUser == [NoUser EXCEPT !.exists = TRUE, !.password = "set"]

\* What a request holds: its operation, the account, the row it loaded and the
\* row it is going to write.
Saves == {"save", "verify", "reset"}
Ops   == {"register", "insert", "verifyLink", "resetLink"} \cup Saves
ASSUME NoneAssumption == None \notin Ops

Idle  == [op |-> None, who |-> None, row |-> NoUser, to |-> NoUser]

Admins == {u \in Emails : user[u].admin}

\* has_admin_user
HasAdmin == \E u \in Admins : ~user[u].banned

\* get_current_user and ensure_user_can_access: a JWT's account may act.
CanAct(u) == user[u].exists /\ ~user[u].banned

\* admin_login_submit and require_admin_session
CanAdmin(u) == user[u].admin /\ ~user[u].banned /\ user[u].verified

\* ensure_admin_slot_available
SlotFree(u) == Admins \subseteq {u}

\* mark_user_verified
Verified(row) == [row EXCEPT !.verified = TRUE, !.verifyToken = 0]

Load(p, operation, u, row) ==
  /\ req' = [req EXCEPT ![p] = [op |-> operation, who |-> u, row |-> user[u], to |-> row]]
  /\ UNCHANGED <<site, user, needs, links, sent, used>>

-----------------------------------------------------------------------------
(* New accounts *)

\* register (auth.py)
Register(p, u) ==
  /\ req[p] = Idle
  /\ ~user[u].exists
  /\ Load(p, "register", u, NewUser)

\* admin_user_create (admin/routes/users.py)
AdminCreate(p, u, admin) ==
  /\ req[p] = Idle
  /\ \E me \in people : CanAdmin(me)
  /\ ~user[u].exists
  /\ admin => SlotFree(u)
  /\ \E banned, verified \in BOOLEAN :
       Load(p, "insert", u, [NewUser EXCEPT !.admin = admin, !.banned = banned,
                                            !.verified = verified])

\* setup_submit and scripts/create_admin.py, with create_initial_admin's checks
Setup(p, u) ==
  /\ req[p] = Idle
  /\ ~HasAdmin
  /\ Load(p, "insert", u, [NewUser EXCEPT !.admin = TRUE, !.verified = TRUE])

\* find_or_create_sso_user: the account with the identity, else the one with
\* the address if the provider has verified it, else a new one.  A linked
\* account is not marked dirty, and D1 does not write it.
SsoCallback(p, u, verifiedEmail) ==
  LET linked == [user[u] EXCEPT !.sso = TRUE]
      found  == IF verifiedEmail THEN Verified(linked) ELSE linked
  IN /\ req[p] = Idle
     /\ IF user[u].exists
        THEN /\ user[u].sso \/ verifiedEmail
             /\ ~user[u].banned
             /\ backend = "sqlite"
             /\ Load(p, "save", u, found)
        ELSE Load(p, "insert", u, [NewUser EXCEPT !.password = "none", !.sso = TRUE,
                                                  !.verified = verifiedEmail])

\* Faulty form: without the index of migrations/d1/000_initial.sql.
InsertableUnindexed(u, row) == ~user[u].exists

\* The unique index on the address, and idx_users_single_admin.
Insertable(u, row) == ~user[u].exists /\ (row.admin => Admins = {})

\* The INSERT and the commit.  The setup's process drops its flag.
Insert(p) ==
  LET u == req[p].who
  IN /\ req[p].op = "insert"
     /\ Insertable(u, req[p].to)
     /\ user' = [user EXCEPT ![u] = req[p].to]
     /\ needs' = [needs EXCEPT ![p] = @ /\ ~req[p].to.admin]
     /\ req' = [req EXCEPT ![p] = Idle]
     /\ UNCHANGED <<site, links, sent, used>>

\* register: the new row gets its verification link before the commit, on D1 by
\* an UPDATE after the INSERT's own batch.
InsertRegistered(p) ==
  LET u     == req[p].who
      mails == RequireVerification /\ backend = "sqlite"
  IN /\ req[p].op = "register"
     /\ Insertable(u, NewUser)
     /\ mails => links < site.mails
     /\ links' = IF mails THEN links + 1 ELSE links
     /\ user' = [user EXCEPT ![u] = IF mails THEN [NewUser EXCEPT !.verifyToken = links + 1]
                                    ELSE NewUser]
     /\ req' = [req EXCEPT ![p] =
                  IF RequireVerification /\ backend = "d1"
                  THEN [op |-> "verifyLink", who |-> u, row |-> NewUser, to |-> NewUser]
                  ELSE Idle]
     /\ UNCHANGED <<site, needs, sent, used>>

-----------------------------------------------------------------------------
(* Changes of an account *)

\* A form that changes no column is an UPDATE on D1 only.
Change(p, u, row) == (row # user[u] \/ backend = "d1") /\ Load(p, "save", u, row)

\* Faulty form: the whole row is written on SQLite too.
MergedWholeRow(u, row, to) == to

\* The columns an UPDATE writes: those changed since the row was loaded, or all.
Merged(u, row, to) ==
  IF backend = "d1" THEN to
  ELSE [column \in DOMAIN to |-> IF to[column] # row[column] THEN to[column]
                                 ELSE user[u][column]]

\* update_me; the current password has been checked.
Profile(p, u) ==
  /\ req[p] = Idle
  /\ CanAct(u)
  /\ \E password \in {user[u].password, "set"} :
       Change(p, u, [user[u] EXCEPT !.password = password])

\* resend_verification
Resend(p, u) ==
  /\ req[p] = Idle
  /\ CanAct(u)
  /\ ~user[u].verified
  /\ Load(p, "verifyLink", u, user[u])

\* forgot_password
Forgot(p, u) ==
  /\ req[p] = Idle
  /\ CanAct(u)
  /\ Load(p, "resetLink", u, user[u])

\* verify_email_with_token, from the API and from the storefront's link
Verify(p, u) ==
  /\ req[p] = Idle
  /\ user[u].verifyToken # 0
  /\ Load(p, "verify", u, Verified(user[u]))

\* Faulty form: the link is not cleared.
ResetKeepsLink(row) == [row EXCEPT !.password = "set"]

\* The new password and clear_password_reset
ResetRow(row) == [row EXCEPT !.password = "set", !.resetToken = 0]

\* reset_password_with_token
Reset(p, u) ==
  /\ req[p] = Idle
  /\ user[u].resetToken # 0
  /\ Load(p, "reset", u, ResetRow(user[u]))

\* Faulty form: the administrator may ban and demote the own account.
LockoutIgnored(me, u, admin, banned) == TRUE

\* _self_lockout_error lets the form pass.
LockoutFree(me, u, admin, banned) == me = u => admin /\ ~banned

\* The row admin_user_update makes of the form.
Edited(row, admin, banned, verified, password) ==
  LET typed == [row EXCEPT !.admin = admin, !.banned = banned, !.password = password]
  IN IF verified THEN Verified(typed) ELSE [typed EXCEPT !.verified = FALSE]

\* admin_user_update.  The form carries every checkbox, as the page showed it or
\* as the administrator left it.
AdminUpdate(p, me, u) ==
  /\ req[p] = Idle
  /\ CanAdmin(me)
  /\ user[u].exists
  /\ \E admin, banned, verified \in BOOLEAN, password \in {user[u].password, "set"} :
       /\ LockoutFree(me, u, admin, banned)
       /\ admin /\ ~user[u].admin => SlotFree(u)
       /\ Change(p, u, Edited(user[u], admin, banned, verified, password))

\* The UPDATE and the commit.
Save(p) ==
  LET u   == req[p].who
      row == req[p].row
      to  == req[p].to
  IN /\ req[p].op \in Saves
     /\ to.admin => Admins \subseteq {u}
     /\ user' = [user EXCEPT ![u] = Merged(u, row, to)]
     /\ used' = used \cup (CASE req[p].op = "verify" -> {row.verifyToken}
                            [] req[p].op = "reset"  -> {row.resetToken}
                            [] OTHER -> {})
     /\ req' = [req EXCEPT ![p] = Idle]
     /\ UNCHANGED <<site, needs, links, sent>>

\* send_verification_email and the caller's commit: the mail leaves before it.
SendVerifyLink(p) ==
  LET u  == req[p].who
      to == [req[p].to EXCEPT !.verifyToken = links + 1]
  IN /\ req[p].op = "verifyLink"
     /\ links < site.mails
     /\ links' = links + 1
     /\ user' = [user EXCEPT ![u] = Merged(u, req[p].row, to)]
     /\ req' = [req EXCEPT ![p] = Idle]
     /\ UNCHANGED <<site, needs, sent, used>>

\* send_password_reset_email and the caller's commit.
SendResetLink(p) ==
  LET u  == req[p].who
      to == [req[p].to EXCEPT !.resetToken = links + 1]
  IN /\ req[p].op = "resetLink"
     /\ links < site.mails
     /\ links' = links + 1
     /\ sent' = [sent EXCEPT ![u] = links + 1]
     /\ user' = [user EXCEPT ![u] = Merged(u, req[p].row, to)]
     /\ req' = [req EXCEPT ![p] = Idle]
     /\ UNCHANGED <<site, needs, used>>

\* A request ends without effect: an index refuses its row, it is rolled back,
\* or the client or the process is gone before the commit.
Fail(p) ==
  /\ req[p] # Idle
  /\ req' = [req EXCEPT ![p] = Idle]
  /\ UNCHANGED <<site, user, needs, links, sent, used>>

-----------------------------------------------------------------------------
(* The setup flag *)

\* SetupRedirectMiddleware, setup_page, require_admin_session
NoticeAdmin(p) ==
  /\ needs[p] /\ HasAdmin
  /\ needs' = [needs EXCEPT ![p] = FALSE]
  /\ UNCHANGED <<site, user, req, links, sent, used>>

\* Faulty form: the process starts as if the setup had been made.
BootSetUp == FALSE

\* lifespan
BootNeedsSetup == ~HasAdmin

Restart(p) ==
  /\ needs' = [needs EXCEPT ![p] = BootNeedsSetup]
  /\ req' = [req EXCEPT ![p] = Idle]
  /\ UNCHANGED <<site, user, links, sent, used>>

Init ==
  /\ site \in Sites
  /\ user = [u \in Emails |-> NoUser]
  /\ needs = [p \in Procs |-> TRUE]
  /\ req = [p \in Procs |-> Idle]
  /\ links = 0
  /\ sent = [u \in Emails |-> 0]
  /\ used = {}

Step(p) ==
  \/ Insert(p) \/ InsertRegistered(p) \/ Save(p) \/ SendVerifyLink(p) \/ SendResetLink(p)
  \/ Fail(p) \/ NoticeAdmin(p) \/ Restart(p)
  \/ \E u \in people :
       \/ Register(p, u) \/ Setup(p, u) \/ Profile(p, u) \/ Resend(p, u) \/ Forgot(p, u)
       \/ Verify(p, u) \/ Reset(p, u)
       \/ \E admin \in BOOLEAN : AdminCreate(p, u, admin)
       \/ \E verifiedEmail \in BOOLEAN : SsoCallback(p, u, verifiedEmail)
       \/ \E me \in people : AdminUpdate(p, me, u)

Next == \E p \in Procs : Step(p)

Spec == Init /\ [][Next]_vars

-----------------------------------------------------------------------------
(* Properties *)

\* The values of the variables; an address without an account has no data, and
\* an account without a password belongs to someone who signs in at a provider.
TypeOK ==
  /\ site \in Sites
  /\ user \in [Emails -> Row]
  /\ \A u \in Emails : /\ ~user[u].exists => user[u] = NoUser
                       /\ user[u].exists /\ user[u].password = "none" => user[u].sso
  /\ needs \in [Procs -> BOOLEAN]
  /\ req \in [Procs -> [op : Ops \cup {None}, who : Emails \cup {None}, row : Row, to : Row]]
  /\ links \in Tokens
  /\ sent \in [Emails -> Tokens]
  /\ used \subseteq Tokens

\* There is at most one administrator, though two setups, a setup and the
\* command-line script, or a setup and a form run at once (docs/SECURITY.md:77).
OneAdmin == Cardinality(Admins) <= 1

\* Whoever is administrator stays so and is never banned, by whatever requests
\* overlap and on either backend: the shop cannot lose its administrator, and
\* with it the last way to let someone in.
AdminStays == [][\A u \in Admins : user'[u].admin /\ ~user'[u].banned]_vars

\* A process that has stopped asking for the setup is right: an administrator
\* who is not banned exists.  Otherwise no one could be let in until a restart.
FlagHonest == \A p \in Procs : ~needs[p] => HasAdmin

\* On SQLite no handler undoes what another has done to a column that is not its
\* own: only the administrator's form lifts a ban or withdraws a verification,
\* and mails, verifications and sign-ins at a provider keep the password.
OwnColumnsOnly ==
  [][backend = "sqlite" =>
       \A p \in Procs : \A u \in Emails :
         user[u].exists /\ req[p].who = u /\ req'[p] = Idle =>
           LET row == req[p].row
               to  == req[p].to
           IN /\ user[u].banned /\ ~user'[u].banned => row.banned /\ ~to.banned
              /\ user[u].verified /\ ~user'[u].verified => row.verified /\ ~to.verified
              /\ user'[u].password # user[u].password => row.password # to.password]_vars

\* On SQLite the reset link an account holds is the one mailed last, so that an
\* older mail never works in place of a newer one, and no link that has been used
\* comes back.
LinksSound ==
  backend = "sqlite" =>
    \A u \in Emails : /\ user[u].resetToken \in ({0, sent[u]} \ used)
                     /\ user[u].verifyToken \notin used
=============================================================================
