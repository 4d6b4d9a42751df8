------------------------------- MODULE Server -------------------------------
(***************************************************************************)
(* The server process around the shop: addon packages and host code on     *)
(* disk, their replacement, the restart flag and the script that watches   *)
(* it, and the start of the process with its schema migrations.            *)
(*                                                                         *)
(* An installation runs in the event loop without a pause, so no request   *)
(* comes between its steps; a kill may.  What an archive must look like to *)
(* be accepted is in Archives: one that is refused changes nothing.        *)
(***************************************************************************)
EXTENDS Integers, FiniteSets, Sequences

CONSTANTS Host,         \* the host's own code, a git working tree
          Packages,     \* addon packages that can be installed
          MaxVersion,   \* versions of a tree are 1 .. MaxVersion
          MaxBackups,   \* bound on the replacements of a package
          MaxFlags,     \* the largest bound on the replacements of any shop
          MaxFaults,    \* the largest bound on kills and failures of any shop
          Statements    \* statements in a migration file

ASSUME ServerAssumption ==
  /\ Host \notin Packages
  /\ {MaxVersion, MaxBackups, MaxFlags, MaxFaults, Statements} \subseteq Nat
  /\ MaxVersion >= 1 /\ Statements >= 1

VARIABLES
  shop,      \* the shop considered, a record described in Shop; it never changes
  server,    \* "down", "starting" or "up"
  loaded,    \* the version of each tree the process runs; 0: none
  tree,      \* what is on disk
  aside,     \* addons/.backups, oldest first
  install,   \* the installation in progress
  db,        \* the schema as the running migrations see it
  kept,      \* the schema committed
  ran,       \* statements run of the migration file in hand
  flag,      \* the restart flag: its number, or 0
  flags,     \* flags written so far
  watcher,   \* watch_addon_restart.py
  faults,    \* kills and failures so far
  \* History, read by the properties only:
  complete,  \* versions that have been on disk in full
  hasty,     \* a backup was overwritten by one of the same second
  commands   \* restart commands run

serverVars ==
  <<server, loaded, tree, aside, install, db, kept, ran, flag, flags, watcher, faults,
    complete, hasty, commands>>

Trees    == Packages \cup {Host}
Versions == 1 .. MaxVersion
NoTree   == [v |-> 0, whole |-> FALSE]
Schema   == [effect : [Versions -> 0 .. Statements], recorded : SUBSET Versions]

Fault == faults < shop.faults /\ faults' = faults + 1

-----------------------------------------------------------------------------
(* Replacing a tree *)

\* Faulty form: one backup per addon, without the time in its name.
BackupSingle(backups, old, sameSecond) == <<old>>

\* The tree is moved into .backups under the time in seconds, in the place of a
\* backup of the same second.
Backup(backups, old, sameSecond) ==
  Append(IF sameSecond THEN SubSeq(backups, 1, Len(backups) - 1) ELSE backups, old)

\* _install_tree: an existing package is moved away, if the form says so.
MoveAside(t, sameSecond) ==
  /\ server = "up" /\ install.at = "none" /\ flags < shop.installs
  /\ t \in shop.packages
  /\ IF tree[t] = NoTree
     THEN ~sameSecond /\ UNCHANGED <<aside, hasty, tree>>
     ELSE /\ Len(aside[t]) < MaxBackups
          /\ sameSecond => aside[t] # <<>>
          /\ aside' = [aside EXCEPT ![t] = Backup(@, tree[t], sameSecond)]
          /\ hasty' = (hasty \/ sameSecond)
          /\ tree' = [tree EXCEPT ![t] = NoTree]
  /\ install' = [at |-> "moved", t |-> t]
  /\ UNCHANGED <<server, loaded, db, kept, ran, flag, flags, watcher, faults, complete, commands>>

\* copytree makes the directory and fills it file by file.
CopyBegin ==
  /\ install.at = "moved"
  /\ \E v \in Versions :
       tree' = [tree EXCEPT ![install.t] = [v |-> v, whole |-> FALSE]]
  /\ install' = [install EXCEPT !.at = "copying"]
  /\ UNCHANGED <<server, loaded, aside, db, kept, ran, flag, flags, watcher, faults, complete,
                 hasty, commands>>

\* The last file and the source URL in the manifest.
CopyEnd ==
  LET t == install.t
  IN /\ install.at = "copying"
     /\ tree' = [tree EXCEPT ![t].whole = TRUE]
     /\ complete' = [complete EXCEPT ![t] = @ \cup {tree[t].v}]
     /\ install' = [install EXCEPT !.at = "copied"]
     /\ UNCHANGED <<server, loaded, aside, db, kept, ran, flag, flags, watcher, faults, hasty,
                    commands>>

\* update_host_from_git: the fast-forward pull.  pip follows; when it fails,
\* InstallFail, the new code stays without a flag.
HostPull ==
  /\ server = "up" /\ install.at = "none" /\ flags < shop.installs
  /\ Host \in shop.packages
  /\ tree[Host].v < MaxVersion
  /\ tree' = [tree EXCEPT ![Host].v = @ + 1]
  /\ complete' = [complete EXCEPT ![Host] = @ \cup {tree[Host].v + 1}]
  /\ install' = [at |-> "copied", t |-> Host]
  /\ UNCHANGED <<server, loaded, aside, db, kept, ran, flag, flags, watcher, faults, hasty,
                 commands>>

\* _write_restart_flag, _write_host_restart_flag: a file put in place of the last.
WriteFlag ==
  /\ install.at = "copied"
  /\ flag' = flags + 1 /\ flags' = flags + 1
  /\ install' = [install EXCEPT !.at = "none"]
  /\ UNCHANGED <<server, loaded, tree, aside, db, kept, ran, watcher, faults, complete, hasty,
                 commands>>

\* A step raises: the page shows the error and nothing is put back.
InstallFail ==
  /\ install.at # "none"
  /\ Fault
  /\ install' = [install EXCEPT !.at = "none"]
  /\ UNCHANGED <<server, loaded, tree, aside, db, kept, ran, flag, flags, watcher, complete, hasty,
                 commands>>

-----------------------------------------------------------------------------
(* The process *)

\* What is lost with the process: its place in an installation and whatever its
\* migrations have not committed.
ProcessEnds ==
  /\ server' = "down"
  /\ install' = [install EXCEPT !.at = "none"]
  /\ db' = kept
  /\ ran' = 0

\* The process dies, or its start fails on a statement the database refuses.
Kill ==
  /\ server # "down"
  /\ Fault
  /\ ProcessEnds
  /\ UNCHANGED <<loaded, tree, aside, kept, flag, flags, watcher, complete, hasty, commands>>

\* The operator restarts the server by hand.
StopByHand ==
  /\ shop.byHand
  /\ server = "up" /\ install.at = "none"
  /\ ProcessEnds
  /\ UNCHANGED <<loaded, tree, aside, kept, flag, flags, watcher, faults, complete, hasty, commands>>

\* Addons are discovered and imported.  Part of a package may import.
Start ==
  /\ server = "down"
  /\ server' = "starting"
  /\ \E imports \in SUBSET {t \in Trees : ~tree[t].whole} :
       loaded' = [t \in Trees |-> IF tree[t].whole \/ t \in imports THEN tree[t].v ELSE 0]
  /\ UNCHANGED <<tree, aside, install, db, kept, ran, flag, flags, watcher, faults, complete,
                 hasty, commands>>

\* Migration files come with the host's code, one with each version.
Unrun    == (1 .. loaded[Host]) \ db.recorded
FileNext == CHOOSE f \in Unrun : \A g \in Unrun : f <= g

\* Faulty form: the file is recorded before its last statement.
FileRunEarly == ran >= Statements - 1

FileRun == ran = Statements

\* The next statement; one whose column exists is skipped.  D1 commits each.  On
\* SQLite a definition commits by itself unless a transaction is open, and a
\* change of rows opens one.
MigrateStatement ==
  LET run == IF db.effect[FileNext] > ran THEN db.effect[FileNext] ELSE ran + 1
  IN /\ server = "starting" /\ Unrun # {} /\ ran < Statements
     /\ db' = [db EXCEPT !.effect[FileNext] = run]
     /\ ran' = ran + 1
     /\ \/ shop.backend = "d1" /\ kept' = db'
        \/ shop.backend = "sqlite" /\ kept = db /\ kept' \in {db', kept}
        \/ shop.backend = "sqlite" /\ kept # db /\ kept' = kept
     /\ UNCHANGED <<server, loaded, tree, aside, install, flag, flags, watcher, faults, complete,
                    hasty, commands>>

\* The row of schema_migrations, committed at once on D1 only.
RecordMigration ==
  /\ server = "starting" /\ Unrun # {} /\ FileRun
  /\ db' = [db EXCEPT !.recorded = @ \cup {FileNext}]
  /\ kept' = IF shop.backend = "d1" THEN db' ELSE kept
  /\ ran' = 0
  /\ UNCHANGED <<server, loaded, tree, aside, install, flag, flags, watcher, faults, complete,
                 hasty, commands>>

\* The rest of lifespan: requests are served from here on.
Serve ==
  /\ server = "starting" /\ Unrun = {}
  /\ server' = "up"
  /\ kept' = db
  /\ UNCHANGED <<loaded, tree, aside, install, db, ran, flag, flags, watcher, complete,
                 hasty, commands>>

-----------------------------------------------------------------------------
(* The watcher *)

\* Faulty form: a flag is new only when there was none at the last poll.
FreshAfterNone == watcher.last = 0

\* last_mtime != mtime
Fresh == watcher.last # flag

\* A poll that finds a new flag; any other changes nothing, for nobody else
\* removes the flag.
Poll ==
  /\ watcher.at = "poll"
  /\ flag # 0 /\ Fresh
  /\ watcher' = [watcher EXCEPT !.at = "handle"]
  /\ UNCHANGED <<server, loaded, tree, aside, install, db, kept, ran, flag, flags, faults, complete,
                 hasty, commands>>

\* Faulty form: the flag is left for the next one to replace.
ConsumedNever == flag

\* What is left of the flag when the command is run.
Consumed == 0

\* _handle_flag: the flag is removed first, or the command is not run.
TakeFlag ==
  /\ watcher.at = "handle"
  /\ \/ /\ flag' = Consumed
        /\ watcher' = [watcher EXCEPT !.at = "command"]
        /\ commands' = commands + 1
        /\ UNCHANGED faults
     \/ /\ Fault
        /\ watcher' = [at |-> "poll", last |-> flag]
        /\ UNCHANGED <<flag, commands>>
  /\ UNCHANGED <<server, loaded, tree, aside, install, db, kept, ran, flags, complete, hasty>>

\* The command stops the server, which first finishes what it is doing.
CommandStops ==
  /\ watcher.at = "command"
  /\ install.at = "none"
  /\ ProcessEnds
  /\ watcher' = [watcher EXCEPT !.at = "starts"]
  /\ UNCHANGED <<loaded, tree, aside, kept, flag, flags, faults, complete, hasty, commands>>

\* The command has started the server, or has failed; the file is looked at again.
CommandEnds ==
  /\ \/ watcher.at = "starts" /\ server # "down" /\ UNCHANGED faults
     \/ watcher.at \in {"command", "starts"} /\ Fault
  /\ watcher' = [at |-> "poll", last |-> flag]
  /\ UNCHANGED <<server, loaded, tree, aside, install, db, kept, ran, flag, flags, complete, hasty,
                 commands>>

\* The script dies and is started again.
WatcherRestart ==
  /\ watcher # [at |-> "poll", last |-> 0]
  /\ Fault
  /\ watcher' = [at |-> "poll", last |-> 0]
  /\ UNCHANGED <<server, loaded, tree, aside, install, db, kept, ran, flag, flags, complete, hasty,
                 commands>>

-----------------------------------------------------------------------------
\* The shop runs the first version of its host and the packages that come with it.
ServerInit ==
  /\ server = "up"
  /\ tree = [t \in Trees |-> IF t \in {Host} \cup shop.shipped THEN [v |-> 1, whole |-> TRUE] ELSE NoTree]
  /\ loaded = [t \in Trees |-> tree[t].v]
  /\ aside = [t \in Packages |-> <<>>]
  /\ install = [at |-> "none", t |-> Host]
  /\ db = [effect |-> [f \in Versions |-> IF f = 1 THEN Statements ELSE 0], recorded |-> {1}]
  /\ kept = db
  /\ ran = 0
  /\ flag = 0 /\ flags = 0
  /\ watcher = [at |-> "poll", last |-> 0]
  /\ faults = 0
  /\ complete = [t \in Trees |-> {tree[t].v} \ {0}]
  /\ hasty = FALSE
  /\ commands = 0

\* The steps no other part of the shop takes part in.
ServerStep ==
  \/ CopyBegin \/ CopyEnd \/ HostPull \/ WriteFlag \/ InstallFail
  \/ MigrateStatement \/ RecordMigration
  \/ Poll \/ TakeFlag \/ CommandEnds \/ WatcherRestart
  \/ \E t \in Packages, sameSecond \in BOOLEAN : MoveAside(t, sameSecond)

\* An installation has no pause; the service manager starts the server, which
\* migrates; the watcher polls and its command ends.
ServerFairness ==
  /\ WF_serverVars(CopyBegin \/ CopyEnd \/ WriteFlag)
  /\ WF_serverVars(Start)
  /\ WF_serverVars(MigrateStatement \/ RecordMigration)
  /\ WF_serverVars(Poll)
  /\ WF_serverVars(TakeFlag)
  /\ WF_serverVars(CommandEnds)

-----------------------------------------------------------------------------
(* Properties *)

ServerTypeOK ==
  /\ server \in {"down", "starting", "up"}
  /\ loaded \in [Trees -> 0 .. MaxVersion]
  /\ tree \in [Trees -> [v : 0 .. MaxVersion, whole : BOOLEAN]]
  /\ \A t \in Packages : \A i \in DOMAIN aside[t] : aside[t][i].v \in Versions
  /\ install.at \in {"none", "moved", "copying", "copied"} /\ install.t \in Trees
  /\ {db, kept} \subseteq Schema
  /\ ran \in 0 .. Statements
  /\ flags \in 0 .. MaxFlags /\ flag \in 0 .. flags
  /\ watcher.at \in {"poll", "handle", "command", "starts"} /\ watcher.last \in 0 .. flags
  /\ faults \in 0 .. MaxFaults

\* Whatever fails or is killed, every version of a package that was once
\* complete is still on disk, in place or among the backups, so that it can be
\* put back (two replacements within a second aside, addon_install.py:450).
UpgradeKeepsVersions ==
  ~hasty => \A t \in Packages : \A v \in complete[t] :
              [v |-> v, whole |-> TRUE] \in {tree[t]} \cup {aside[t][i] : i \in DOMAIN aside[t]}

\* A server that answers requests has the effect of every statement of its
\* migrations committed, whatever start was cut short before.
UpMigrated ==
  server = "up" => \A f \in 1 .. loaded[Host] : kept.effect[f] = Statements

\* "Consume the flag before restarting so an interrupted restart cannot loop"
\* (watch_addon_restart.py:86): no flag causes two restarts.
RestartOnce == commands <= flags

\* Once nothing fails any more, a flag that is there when the watcher is idle
\* makes the server run what was installed before it.
InstallTakesEffect ==
  (flag # 0 /\ watcher.last # flag /\ watcher.at = "poll" /\ faults = shop.faults)
    ~> (install.at = "none" /\ \A t \in Trees : tree[t].whole => loaded[t] = tree[t].v)
=============================================================================
