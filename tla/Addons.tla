------------------------------- MODULE Addons -------------------------------
(***************************************************************************)
(* The addon registry of the running server and the addon_configs table:   *)
(* saving an addon's settings, the addons an enabled one excludes, and the *)
(* start that loads the table.                                             *)
(*                                                                         *)
(* The registry lives in the one server process, which serves several      *)
(* requests at a time.  A configuration is reduced to its secret; the form *)
(* shows it masked, and a masked value keeps the registry's.  Only the     *)
(* exclusion of addons depends on their category: payment processors and   *)
(* storefronts share one claim, notification addons have their channels,   *)
(* and the others claim nothing.                                           *)
(***************************************************************************)
EXTENDS Server

CONSTANTS Shipped,    \* addons that come with the host; the packages are addons too
          Claims,     \* [Shipped \cup Packages -> SUBSET claims]
          Channels,   \* the claims that are notification channels
          Secrets,    \* secrets an administrator may type
          NoSecret,   \* an addon that is not configured
          Admins      \* administrators' tabs, each with one request at a time

AddonIds == Shipped \cup Packages

ASSUME AddonsAssumption ==
  /\ Shipped \cap Packages = {}
  /\ DOMAIN Claims = AddonIds
  /\ NoSecret \notin Secrets

VARIABLES
  row,      \* AddonConfig rows
  mem,      \* the registry's addons
  save,     \* the save in progress of each tab
  \* History, read by the properties only:
  proven,   \* secrets the provider has accepted
  mixed,    \* two saves have overlapped since the server last started
  troubled  \* the registry may differ from the table, see Coherent

addonVars == <<row, mem, save, proven, mixed, troubled>>

Setting == [on : BOOLEAN, secret : Secrets \cup {NoSecret}]
NoRow   == [exists |-> FALSE, on |-> FALSE, secret |-> NoSecret]
Off     == [on |-> FALSE, secret |-> NoSecret]
NoSave  == [at |-> "none", a |-> Host, on |-> FALSE, secret |-> NoSecret, rivals |-> {}]

Clash(a, b)  == a # b /\ Claims[a] \cap Claims[b] # {}
Registered   == Shipped \cup {t \in Packages : loaded[t] # 0}
Enabled      == {a \in Registered : mem[a].on}

\* get_payment_addon, get_frontend_addon, get_notification_addon_for_channel:
\* one of these serves the claim.
Serving(claim) == {a \in Enabled : claim \in Claims[a]}

-----------------------------------------------------------------------------
(* Saving an addon's settings *)

\* _disable_other_addons_in_category, _disable_conflicting_notification_addons
Rivals(a) == {b \in Enabled : Clash(a, b)}

\* merge_config_updates: what is empty or masked keeps the registry's value.
Merge(a, typed) == IF typed = NoSecret THEN mem[a].secret ELSE typed

\* save_addon_from_form, admin_addon_save_config and the runtime's own saves:
\* the form is merged over the registry, and the rivals are disabled there.
SaveBegin(p, a, on, typed) ==
  LET rivals == IF on THEN Rivals(a) ELSE {}
  IN /\ save[p] = NoSave
     /\ a \in Registered
     /\ mem' = [b \in AddonIds |-> IF b \in rivals THEN [mem[b] EXCEPT !.on = FALSE] ELSE mem[b]]
     /\ save' = [save EXCEPT ![p] = [at |-> "check", a |-> a, on |-> on, secret |-> Merge(a, typed),
                                     rivals |-> rivals]]
     /\ mixed' = (mixed \/ \E q \in Admins : save[q] # NoSave)
     /\ UNCHANGED <<row, proven, troubled>>

\* Faulty form: a secret the form leaves masked is compared with itself.
ChangedNever(a, secret) == FALSE

\* secret_fields_changed, against the registry of this moment
Changed(a, secret) == mem[a].secret # secret

\* parse_config, validate_config and check_min_host_version pass; the addon is
\* set in the registry before initialize, or shut down.
SaveApply(p) ==
  LET s == save[p]
  IN /\ s.at = "check"
     /\ proven' = IF Changed(s.a, s.secret)
                  THEN [proven EXCEPT ![s.a] = @ \cup ({s.secret} \ {NoSecret})] ELSE proven
     /\ mem' = [mem EXCEPT ![s.a] = [on |-> s.on, secret |-> s.secret]]
     /\ save' = [save EXCEPT ![p].at = "write"]
     /\ UNCHANGED <<row, mixed, troubled>>

\* Faulty form: the rows of the rivals are not marked as changed on D1.
RivalRowsUnmarked(rows, rivals) == rows

\* The rows of the disabled rivals that have one.
RivalRows(rows, rivals) ==
  [b \in AddonIds |-> IF b \in rivals THEN [rows[b] EXCEPT !.on = FALSE] ELSE rows[b]]

\* The row takes the registry's configuration as it is now; the commit.
SaveCommit(p) ==
  LET s == save[p]
  IN /\ s.at = "write"
     /\ row' = [RivalRows(row, s.rivals) EXCEPT
                  ![s.a] = [exists |-> TRUE, on |-> s.on, secret |-> mem[s.a].secret]]
     /\ save' = [save EXCEPT ![p] = NoSave]
     /\ UNCHANGED <<mem, proven, mixed, troubled>>

\* The provider refuses the secret, the host is too old, or initialize raises.
\* The route shows the error and its session commits what it holds: the rivals.
SaveRefused(p) ==
  LET s == save[p]
  IN /\ s.at = "check" \/ (s.at = "write" /\ s.on)
     /\ row' = RivalRows(row, s.rivals)
     /\ troubled' = (troubled \/ s.at = "write")
     /\ save' = [save EXCEPT ![p] = NoSave]
     /\ UNCHANGED <<mem, proven, mixed>>

\* The database refuses the rows: the registry keeps what was done to it.
SaveLost(p) ==
  /\ save[p] # NoSave
  /\ Fault
  /\ troubled' = TRUE
  /\ save' = [save EXCEPT ![p] = NoSave]
  /\ UNCHANGED <<row, mem, proven, mixed>>

-----------------------------------------------------------------------------
(* The start *)

\* Faulty form: without the repair at startup.
RepairNone(on) == {on}

\* enforce_notification_channel_exclusivity: an addon is kept unless one of its
\* channels is taken by one that comes before it, in whatever order the
\* packages were found.
Repair(on) ==
  LET clash(a, b) == a # b /\ Claims[a] \cap Claims[b] \cap Channels # {}
  IN {keep \in SUBSET on :
        /\ \A a, b \in keep : ~clash(a, b)
        /\ \A a \in on \ keep : \E b \in keep : clash(a, b)}

\* registry.startup, as the server begins to serve: load_from_db, the repair,
\* and initialize of each enabled addon, which may fail.
LoadAddons ==
  \E keep \in Repair({a \in Registered : row[a].on}) :
    \E failed \in SUBSET keep :
      /\ IF failed = {} THEN UNCHANGED faults ELSE Fault
      /\ mem' = [a \in AddonIds |-> IF a \notin Registered \/ ~row[a].exists THEN Off
                                  ELSE [on |-> a \in keep \ failed, secret |-> row[a].secret]]
      /\ row' = [a \in AddonIds |-> [row[a] EXCEPT !.on = @ /\ (a \in Registered => a \in keep)]]
      /\ troubled' = (failed # {})
      /\ mixed' = FALSE
      /\ UNCHANGED <<save, proven>>

\* The process ends: requests and registry are gone.
DropAddons ==
  /\ save' = [p \in Admins |-> NoSave]
  /\ mem' = [a \in AddonIds |-> Off]
  /\ UNCHANGED <<row, proven, mixed, troubled>>

AddonsInit ==
  /\ row = [a \in AddonIds |-> IF a \in shop.enabled
                               THEN [exists |-> TRUE, on |-> TRUE, secret |-> NoSecret] ELSE NoRow]
  /\ mem = [a \in AddonIds |-> [on |-> row[a].on, secret |-> row[a].secret]]
  /\ save = [p \in Admins |-> NoSave]
  /\ proven = [a \in AddonIds |-> {}]
  /\ mixed = FALSE
  /\ troubled = FALSE

\* Requests of the administrators.
SaveStep(p) ==
  \/ SaveApply(p) /\ UNCHANGED faults
  \/ SaveCommit(p) /\ UNCHANGED faults
  \/ SaveRefused(p) /\ UNCHANGED faults
  \/ SaveLost(p)
  \/ \E a \in shop.addons, on \in BOOLEAN, typed \in Secrets \cup {NoSecret} :
       SaveBegin(p, a, on, typed) /\ UNCHANGED faults

-----------------------------------------------------------------------------
(* Properties *)

AddonsTypeOK ==
  /\ \A a \in AddonIds : row[a].exists \in BOOLEAN /\ [on |-> row[a].on, secret |-> row[a].secret] \in Setting
  /\ mem \in [AddonIds -> Setting]
  /\ \A p \in Admins : save[p].at \in {"none", "check", "write"} /\ save[p].a \in AddonIds \cup {Host}
  /\ \A a \in AddonIds : proven[a] \subseteq Secrets

\* A channel has one sender, however saves failed and starts were cut short,
\* unless two saves have overlapped since the server started.
OneSender ==
  server = "up" /\ ~mixed => \A c \in Channels : \A a, b \in Serving(c) : a = b

\* When no save is in progress the registry shows what the table holds, so that
\* a restart changes nothing, even after the provider refused a secret.  Saves
\* that overlapped or failed later, and addons that failed to start, are apart.
Coherent ==
  server = "up" /\ ~mixed /\ ~troubled /\ (\A p \in Admins : save[p] = NoSave) =>
    \A a \in Registered : mem[a] = [on |-> row[a].on, secret |-> row[a].secret]

\* Every secret that runs or is stored has been accepted by its provider, though
\* the form shows secrets masked and saves overlap and fail.
SecretsProven ==
  \A a \in AddonIds : {row[a].secret, mem[a].secret} \ {NoSecret} \subseteq proven[a]

\* "Only one processor can be enabled at a time." (admin/routes/addons.py:38)
OneProcessor ==
  server = "up" /\ ~mixed =>
    \A a, b \in Enabled : ~(a # b /\ (Claims[a] \cap Claims[b]) \ Channels # {})
=============================================================================
