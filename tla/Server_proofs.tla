---------------------------- MODULE Server_proofs ----------------------------
(***************************************************************************)
(* Proofs about the server process as Shop runs it: its replacements, its  *)
(* start with the migrations, the watcher, and the registry of addons it   *)
(* keeps in memory against the rows that configure them.                   *)
(***************************************************************************)
EXTENDS Shop, FiniteSums, TLAPS

-----------------------------------------------------------------------------
(* The steps of a shop, as the server sees them *)

\* What a request leaves of the server, but for the count of faults.
ServerSteps ==
  \/ ServerRest' = ServerRest
  \/ ServerStep \/ Start \/ Serve \/ Kill \/ CommandStops \/ StopByHand

\* A step of the shop is a step of the server or leaves it alone.
LEMMA NextServer == [Next]_vars => UNCHANGED shop /\ ServerSteps
BY DEF Next, vars, ServerSteps, ServerRest, serverVars

\* No step takes a fault back, or has one beyond the bound.
LEMMA NextFaults ==
  [Next]_vars => faults' = faults \/ (faults < shop.faults /\ faults' = faults + 1)
<1> DEFINE Counted == faults' = faults \/ Fault
<1>1. ASSUME NEW p, SaveStep(p) PROVE Counted
  BY <1>1 DEF SaveStep, SaveLost
<1>2. ASSUME FulfilStep PROVE Counted
  BY <1>2 DEF FulfilStep, SkipGroup, RefuseGroup, SendGroup, SendGroupWithUpdates, LoseGroup, PayEnd,
              FulfilAborts, PayFails
<1>3. ASSUME Requests PROVE Counted
  BY <1>1, <1>2, <1>3 DEF Requests
<1>4. ASSUME ServerStep PROVE Counted
  BY <1>4 DEF ServerStep, CopyBegin, CopyEnd, HostPull, WriteFlag, InstallFail, MigrateStatement,
              RecordMigration, Poll, TakeFlag, CommandEnds, WatcherRestart, MoveAside
<1>5. ASSUME Start \/ Kill \/ CommandStops \/ StopByHand \/ LoadAddons PROVE Counted
  BY <1>5 DEF Start, Kill, CommandStops, StopByHand, LoadAddons
<1>6. [Next]_vars => Counted
  BY <1>3, <1>4, <1>5 DEF Next, vars, serverVars
<1> QED
  BY <1>6 DEF Fault

-----------------------------------------------------------------------------
(* Types *)

Tree    == [v : 0 .. MaxVersion, whole : BOOLEAN]
Installation == [at : {"none", "moved", "copying", "copied"}, t : Trees]
Watcher == [at : {"poll", "handle", "command", "starts"}, last : Nat]

\* The types, and what the steps of a replacement find.
ServerInv ==
  /\ shop \in Shops
  /\ server \in {"down", "starting", "up"}
  /\ loaded \in [Trees -> 0 .. MaxVersion]
  /\ tree \in [Trees -> Tree]
  /\ aside \in [Packages -> Seq([v : Versions, whole : BOOLEAN])]
  /\ install \in Installation
  /\ db \in Schema /\ kept \in Schema /\ ran \in 0 .. Statements
  /\ flags \in 0 .. MaxFlags /\ flag \in 0 .. flags
  /\ watcher \in Watcher /\ watcher.last <= flags
  /\ faults \in 0 .. MaxFaults
  /\ complete \in [Trees -> SUBSET Versions] /\ hasty \in BOOLEAN
  /\ \A t \in Trees : tree[t].v = 0 => tree[t] = NoTree
  /\ tree[Host].v # 0 /\ tree[Host].whole
  /\ install.at # "none" => flags < shop.installs
  /\ install.at \in {"moved", "copying"} => install.t \in Packages
  /\ install.at = "moved" => tree[install.t] = NoTree
  /\ install.at = "copying" => tree[install.t].v # 0 /\ ~tree[install.t].whole

\* The assumption, one constant after the other.
LEMMA ServerConstants ==
  /\ Host \in Trees /\ Host \notin Packages /\ Packages \subseteq Trees
  /\ MaxVersion \in Nat /\ MaxBackups \in Nat /\ MaxFlags \in Nat /\ MaxFaults \in Nat
  /\ Statements \in Nat /\ MaxVersion >= 1 /\ Statements >= 1
BY ServerAssumption DEF Trees

\* The variables of ServerInv that steps outside a replacement leave alone.
LEMMA InitServer == Init => ServerInv
<1> SUFFICES ASSUME Init PROVE ServerInv
  OBVIOUS
<1>1. shop \in Shops /\ shop.shipped \subseteq Packages
  BY ShopAssumption DEF Init
<1>2. tree \in [Trees -> Tree] /\ tree[Host].v = 1 /\ tree[Host].whole
      /\ \A t \in Trees : tree[t] = NoTree \/ tree[t].v = 1
  BY ServerAssumption DEF Init, ServerInit, Trees, Tree, NoTree
<1>3. loaded \in [Trees -> 0 .. MaxVersion]
  BY <1>2 DEF Init, ServerInit, Tree
<1>4. complete \in [Trees -> SUBSET Versions]
  BY <1>2, ServerAssumption DEF Init, ServerInit, Tree, Versions, NoTree
<1>5. db \in Schema /\ kept \in Schema
  BY ServerAssumption DEF Init, ServerInit, Schema, Versions
<1>6. aside \in [Packages -> Seq([v : Versions, whole : BOOLEAN])]
  BY DEF Init, ServerInit
<1>7. install = [at |-> "none", t |-> Host] /\ watcher = [at |-> "poll", last |-> 0]
  BY DEF Init, ServerInit
<1>8. install \in Installation /\ watcher \in Watcher
  BY <1>7 DEF Installation, Watcher, Trees
<1>9. /\ server = "up" /\ ran = 0 /\ flags = 0 /\ flag = 0 /\ faults = 0 /\ hasty = FALSE
      /\ \A t \in Trees : tree[t].v = 0 => tree[t] = NoTree
  BY <1>2 DEF Init, ServerInit
<1>10. /\ ran \in 0 .. Statements /\ flags \in 0 .. MaxFlags /\ flag \in 0 .. flags
       /\ faults \in 0 .. MaxFaults /\ watcher.last <= flags
  BY <1>7, <1>9, ServerConstants
<1>11. install.at = "none"
  BY <1>7
<1>12. server \in {"down", "starting", "up"} /\ tree[Host].v # 0
  BY <1>2, <1>9
<1>13. hasty \in BOOLEAN
  BY <1>9
<1> QED
  BY <1>1, <1>2, <1>3, <1>4, <1>5, <1>6, <1>8, <1>9, <1>10, <1>11, <1>12, <1>13 DEF ServerInv

-----------------------------------------------------------------------------
(* One lemma for each step of a replacement *)

LEMMA MoveAsideInv ==
  ASSUME ServerInv, UNCHANGED shop, NEW t \in Packages, NEW b \in BOOLEAN, MoveAside(t, b)
  PROVE  ServerInv'
<1>1. t \in Trees /\ t # Host
  BY ServerAssumption DEF Trees
<1>2. install' \in Installation /\ install'.t = t /\ install'.at = "moved"
  BY <1>1 DEF MoveAside, Installation
<1>3. /\ tree' \in [Trees -> Tree] /\ tree'[t] = NoTree
      /\ \A x \in Trees : tree'[x].v = 0 => tree'[x] = NoTree
      /\ tree'[Host] = tree[Host]
  <2>1. NoTree \in Tree
    BY ServerConstants DEF NoTree, Tree
  <2>2. tree' = tree \/ tree' = [tree EXCEPT ![t] = NoTree]
    BY DEF MoveAside
  <2>3. tree[t] = NoTree \/ tree' = [tree EXCEPT ![t] = NoTree]
    BY DEF MoveAside
  <2> QED
    BY <1>1, <2>1, <2>2, <2>3, ServerConstants DEF ServerInv
<1>4. aside' \in [Packages -> Seq([v : Versions, whole : BOOLEAN])]
  <2>1. CASE tree[t] = NoTree
    BY <2>1 DEF MoveAside, ServerInv
  <2>2. CASE tree[t] # NoTree
    <3>1. tree[t] \in [v : Versions, whole : BOOLEAN]
      BY <1>1, <2>2, ServerAssumption DEF ServerInv, Tree, Versions
    <3>2. aside[t] \in Seq([v : Versions, whole : BOOLEAN]) /\ (b => aside[t] # <<>>)
      BY <2>2 DEF MoveAside, ServerInv
    <3>3. Backup(aside[t], tree[t], b) \in Seq([v : Versions, whole : BOOLEAN])
      <4> DEFINE B == [v : Versions, whole : BOOLEAN]
      <4> HIDE DEF B
      <4> SUFFICES ASSUME aside[t] \in Seq(B), tree[t] \in B, b => aside[t] # <<>>
                   PROVE  Backup(aside[t], tree[t], b) \in Seq(B)
        BY <3>1, <3>2 DEF B
      <4> QED
        BY DEF Backup
    <3> QED
      BY <2>2, <3>3 DEF MoveAside, ServerInv
  <2> QED
    BY <2>1, <2>2
<1>5. flags < shop.installs /\ hasty' \in BOOLEAN
  BY DEF MoveAside, ServerInv
<1>6. UNCHANGED <<server, loaded, db, kept, ran, flag, flags, watcher, faults, complete>>
  BY DEF MoveAside
<1> QED
  BY <1>1, <1>2, <1>3, <1>4, <1>5, <1>6 DEF ServerInv

LEMMA CopyBeginInv ==
  ASSUME ServerInv, UNCHANGED shop, CopyBegin PROVE ServerInv'
<1>1. PICK v \in Versions : tree' = [tree EXCEPT ![install.t] = [v |-> v, whole |-> FALSE]]
  BY DEF CopyBegin
<1>2. v # 0 /\ [v |-> v, whole |-> FALSE] \in Tree
  BY ServerConstants DEF Versions, Tree
<1>3. install.t \in Packages /\ install.t \in Trees /\ install.t # Host
  BY ServerConstants DEF CopyBegin, ServerInv
<1>4. install' \in Installation /\ install'.t = install.t /\ install'.at = "copying"
  BY DEF CopyBegin, ServerInv, Installation
<1>5. /\ tree' \in [Trees -> Tree] /\ tree'[install.t].v # 0 /\ ~tree'[install.t].whole
      /\ \A t \in Trees : tree'[t].v = 0 => tree'[t] = NoTree
      /\ tree'[Host] = tree[Host]
  BY <1>1, <1>2, <1>3, ServerConstants DEF ServerInv
<1>6. flags < shop.installs
  BY DEF CopyBegin, ServerInv
<1>7. UNCHANGED <<server, loaded, aside, db, kept, ran, flag, flags, watcher, faults, complete, hasty>>
  BY DEF CopyBegin
<1> QED
  BY <1>3, <1>4, <1>5, <1>6, <1>7 DEF ServerInv

LEMMA CopyEndInv ==
  ASSUME ServerInv, UNCHANGED shop, CopyEnd PROVE ServerInv'
<1>1. install.t \in Trees /\ install.t # Host /\ tree[install.t].v \in Versions
  BY ServerConstants DEF CopyEnd, ServerInv, Tree, Versions
<1>2. install' \in Installation /\ install'.t = install.t /\ install'.at = "copied"
  BY DEF CopyEnd, ServerInv, Installation
<1>3. tree' = [tree EXCEPT ![install.t].whole = TRUE]
  BY DEF CopyEnd
<1>4. [tree[install.t] EXCEPT !.whole = TRUE] \in Tree
  BY <1>1 DEF ServerInv, Tree
<1>5. tree' \in [Trees -> Tree] /\ tree'[Host] = tree[Host] /\ tree'[install.t].v = tree[install.t].v
  BY <1>1, <1>3, <1>4, ServerConstants DEF ServerInv, Tree
<1>6. \A t \in Trees : tree'[t].v = 0 => tree'[t] = NoTree
  BY <1>1, <1>3, <1>5 DEF ServerInv, Versions
<1>7. complete' \in [Trees -> SUBSET Versions]
  BY <1>1 DEF CopyEnd, ServerInv
<1>8. flags < shop.installs
  BY DEF CopyEnd, ServerInv
<1>9. UNCHANGED <<server, loaded, aside, db, kept, ran, flag, flags, watcher, faults, hasty>>
  BY DEF CopyEnd
<1> QED
  BY <1>2, <1>5, <1>6, <1>7, <1>8, <1>9 DEF ServerInv

LEMMA HostPullInv ==
  ASSUME ServerInv, UNCHANGED shop, HostPull PROVE ServerInv'
<1> DEFINE v == tree[Host].v + 1
<1>1. tree[Host] \in Tree /\ v \in Versions /\ v # 0
  BY ServerConstants DEF HostPull, ServerInv, Tree, Versions
<1>2. install' \in Installation /\ install'.t = Host /\ install'.at = "copied"
  BY ServerConstants DEF HostPull, Installation
<1>3. tree' = [tree EXCEPT ![Host].v = v]
  BY DEF HostPull
<1>4. [tree[Host] EXCEPT !.v = v] \in Tree
  BY <1>1, ServerConstants DEF Tree, Versions
<1>5. /\ tree' \in [Trees -> Tree] /\ tree'[Host].v = v /\ tree'[Host].whole
      /\ \A t \in Trees \ {Host} : tree'[t] = tree[t]
  BY <1>1, <1>3, <1>4, ServerConstants DEF ServerInv, Tree
<1>6. complete' \in [Trees -> SUBSET Versions]
  BY <1>1 DEF HostPull, ServerInv
<1>7. UNCHANGED <<server, loaded, aside, db, kept, ran, flag, flags, watcher, faults, hasty>> /\ flags < shop.installs
  BY DEF HostPull
<1> HIDE DEF v
<1>8. \A t \in Trees : tree'[t].v = 0 => tree'[t] = NoTree
  BY <1>1, <1>5 DEF ServerInv
<1> QED
  BY <1>1, <1>2, <1>5, <1>6, <1>7, <1>8 DEF ServerInv

LEMMA WriteFlagInv ==
  ASSUME ServerInv, UNCHANGED shop, WriteFlag PROVE ServerInv'
<1>1. shop.installs \in 0 .. MaxFlags
  BY ShopAssumption DEF ServerInv
<1>2. flags' \in 0 .. MaxFlags /\ flag' \in 0 .. flags' /\ watcher.last <= flags' /\ watcher.last \in Nat
  BY <1>1, ServerConstants DEF WriteFlag, ServerInv, Watcher
<1>3. install' \in Installation /\ install'.at = "none"
  BY DEF WriteFlag, ServerInv, Installation
<1>4. UNCHANGED <<server, loaded, tree, aside, db, kept, ran, watcher, faults, complete, hasty>>
  BY DEF WriteFlag
<1> QED
  BY <1>2, <1>3, <1>4 DEF ServerInv

\* A process that ends, and an installation that fails.
LEMMA StopInv ==
  ASSUME ServerInv, UNCHANGED shop, faults' \in 0 .. MaxFaults,
         InstallFail \/ Kill \/ StopByHand \/ CommandStops
  PROVE  ServerInv'
<1>1. install' = [install EXCEPT !.at = "none"]
  BY DEF InstallFail, Kill, StopByHand, CommandStops, ProcessEnds
<1>2. install' \in Installation /\ install'.at = "none"
  BY <1>1 DEF ServerInv, Installation
<1>3. watcher' = watcher \/ watcher' = [watcher EXCEPT !.at = "starts"]
  BY DEF InstallFail, Kill, StopByHand, CommandStops
<1>4. watcher' \in Watcher /\ watcher'.last = watcher.last
  BY <1>3 DEF ServerInv, Watcher
<1>5. server' \in {server, "down"} /\ db' \in {db, kept} /\ ran' \in {ran, 0}
  BY DEF InstallFail, Kill, StopByHand, CommandStops, ProcessEnds
<1>6. UNCHANGED <<loaded, tree, aside, kept, flag, flags, complete, hasty>>
  BY DEF InstallFail, Kill, StopByHand, CommandStops
<1>7. ran' \in 0 .. Statements
  BY <1>5, ServerConstants DEF ServerInv
<1> QED
  BY <1>2, <1>4, <1>5, <1>6, <1>7 DEF ServerInv

LEMMA WatcherInv ==
  ASSUME ServerInv, UNCHANGED shop, faults' \in 0 .. MaxFaults,
         Poll \/ TakeFlag \/ CommandEnds \/ WatcherRestart
  PROVE  ServerInv'
<1>1. flag' = flag \/ flag' = 0
  BY DEF Poll, TakeFlag, CommandEnds, WatcherRestart, Consumed
<1>2. \/ \E at \in {"handle", "command"} : watcher' = [watcher EXCEPT !.at = at]
      \/ \E n \in {0, flag} : watcher' = [at |-> "poll", last |-> n]
  BY DEF Poll, TakeFlag, CommandEnds, WatcherRestart
<1>3. watcher' \in Watcher /\ watcher'.last <= flags
  BY <1>2, ServerConstants DEF ServerInv, Watcher
<1>4. UNCHANGED <<server, loaded, tree, aside, install, db, kept, ran, flags, complete, hasty>>
  BY DEF Poll, TakeFlag, CommandEnds, WatcherRestart
<1>5. flag' \in 0 .. flags
  BY <1>1, ServerConstants DEF ServerInv
<1> QED
  BY <1>3, <1>4, <1>5 DEF ServerInv

-----------------------------------------------------------------------------
(* The start of the process *)

\* There is a next file as long as one is not recorded.
LEMMA NextFile ==
  ASSUME ServerInv, Unrun # {} PROVE FileNext \in Unrun /\ FileNext \in Versions
<1>1. loaded[Host] \in 0 .. MaxVersion
  BY ServerConstants DEF ServerInv
<1>2. Unrun \subseteq Nat /\ Unrun \subseteq Versions
  BY <1>1, ServerConstants DEF Unrun, Versions
<1>3. \E f \in Unrun : \A g \in Unrun : f <= g
  BY <1>2, LeastNumber
<1> QED
  BY <1>2, <1>3 DEF FileNext

LEMMA MigrateInv ==
  ASSUME ServerInv, UNCHANGED shop, MigrateStatement \/ RecordMigration PROVE ServerInv'
<1>1. FileNext \in Versions
  BY NextFile DEF MigrateStatement, RecordMigration
<1>2. CASE MigrateStatement
  <2> DEFINE step == IF db.effect[FileNext] > ran THEN db.effect[FileNext] ELSE ran + 1
  <2>1. db.effect \in [Versions -> 0 .. Statements] /\ db.recorded \in SUBSET Versions
    BY DEF ServerInv, Schema
  <2>2. step \in 0 .. Statements
    BY <1>1, <1>2, <2>1, ServerConstants DEF MigrateStatement, ServerInv
  <2>3. db' = [db EXCEPT !.effect[FileNext] = step] /\ ran' = ran + 1 /\ ran < Statements
    BY <1>2 DEF MigrateStatement
  <2> HIDE DEF step
  <2>4. [db.effect EXCEPT ![FileNext] = step] \in [Versions -> 0 .. Statements]
    BY <2>1, <2>2
  <2>5. db' \in Schema
    BY <2>1, <2>3, <2>4 DEF ServerInv, Schema
  <2>6. kept' \in {kept, db'} /\ ran' \in 0 .. Statements
    BY <1>2, <2>3, ServerConstants DEF MigrateStatement, ServerInv
  <2>7. UNCHANGED <<server, loaded, tree, aside, install, flag, flags, watcher, faults, complete, hasty>>
    BY <1>2 DEF MigrateStatement
  <2> QED
    BY <2>5, <2>6, <2>7 DEF ServerInv
<1>3. CASE RecordMigration
  <2>1. db' = [db EXCEPT !.recorded = @ \cup {FileNext}] /\ kept' \in {kept, db'} /\ ran' = 0
    BY <1>3 DEF RecordMigration
  <2>2. db' \in Schema
    BY <1>1, <2>1 DEF ServerInv, Schema
  <2>3. UNCHANGED <<server, loaded, tree, aside, install, flag, flags, watcher, faults, complete, hasty>>
    BY <1>3 DEF RecordMigration
  <2>4. ran' \in 0 .. Statements
    BY <2>1, ServerConstants
  <2> QED
    BY <2>1, <2>2, <2>3, <2>4 DEF ServerInv
<1> QED
  BY <1>2, <1>3

LEMMA StartInv ==
  ASSUME ServerInv, UNCHANGED shop, faults' \in 0 .. MaxFaults, Start \/ Serve PROVE ServerInv'
<1>1. loaded' \in [Trees -> 0 .. MaxVersion]
  BY ServerConstants DEF Start, Serve, ServerInv, Tree
<1>2. server' \in {"starting", "up"} /\ kept' \in {kept, db}
  BY DEF Start, Serve
<1>3. UNCHANGED <<tree, aside, install, db, ran, flag, flags, watcher, complete, hasty>>
  BY DEF Start, Serve
<1> QED
  BY <1>1, <1>2, <1>3 DEF ServerInv

\* A step that leaves everything but the count of faults alone.
LEMMA RestInv ==
  ASSUME ServerInv, UNCHANGED shop, faults' \in 0 .. MaxFaults, ServerRest' = ServerRest PROVE ServerInv'
BY DEF ServerInv, ServerRest

LEMMA NextServerInv == ServerInv /\ [Next]_vars => ServerInv'
<1> SUFFICES ASSUME ServerInv, [Next]_vars PROVE ServerInv'
  OBVIOUS
<1>1. UNCHANGED shop /\ ServerSteps
  BY NextServer
<1>2. faults' \in 0 .. MaxFaults
  <2>1. shop.faults \in 0 .. MaxFaults /\ faults \in 0 .. MaxFaults
    BY ShopAssumption DEF ServerInv
  <2> QED
    BY <2>1, NextFaults, ServerConstants
<1>3. ASSUME NEW t \in Packages, NEW b \in BOOLEAN, MoveAside(t, b) PROVE ServerInv'
  BY <1>1, <1>3, MoveAsideInv
<1>4. CASE ServerStep
  BY <1>1, <1>2, <1>3, <1>4, CopyBeginInv, CopyEndInv, HostPullInv, WriteFlagInv, StopInv, WatcherInv,
     MigrateInv DEF ServerStep
<1> QED
  BY <1>1, <1>2, <1>4, RestInv, StopInv, StartInv DEF ServerSteps

\* The server's variables keep their types for any number of trees, versions,
\* replacements and faults, and an installation finds what its last step left.
THEOREM ServerTyped == Spec => []ServerInv
  BY InitServer, NextServerInv, PTL DEF Spec

-----------------------------------------------------------------------------
(* The watcher *)

\* The flags written are those acted on, the one that is there, and others.
RestartInv ==
  /\ commands \in Nat
  /\ commands + (IF flag # 0 THEN 1 ELSE 0) <= flags
  /\ watcher.at = "handle" => flag # 0

\* No flag causes two restarts, whatever is interrupted (watch_addon_restart.py:86).
THEOREM OneRestartPerFlag == Spec => []RestartOnce
<1>1. Init => RestartInv
  BY DEF Init, ServerInit, RestartInv
<1>2. ServerInv /\ RestartInv /\ [Next]_vars => RestartInv'
  <2> SUFFICES ASSUME ServerInv, RestartInv, ServerSteps PROVE RestartInv'
    BY NextServer
  <2>1. watcher \in Watcher /\ flags \in Nat /\ flag \in Nat /\ flag <= flags
    BY ServerConstants DEF ServerInv
  <2> USE <2>1 DEF RestartInv, Watcher
  <2>2. CASE WriteFlag
    BY <2>2 DEF WriteFlag
  <2>3. CASE TakeFlag
    BY <2>3 DEF TakeFlag, Consumed
  <2>4. CASE Poll
    BY <2>4 DEF Poll
  <2>5. CASE CommandStops \/ CommandEnds \/ WatcherRestart
    BY <2>5 DEF CommandStops, CommandEnds, WatcherRestart
  <2>6. CASE UNCHANGED <<flag, flags, watcher, commands>>
    BY <2>6
  <2>7. CASE ServerRest' = ServerRest \/ Start \/ Serve \/ Kill \/ StopByHand
    BY <2>6, <2>7 DEF ServerRest, Start, Serve, Kill, StopByHand
  <2>8. CASE ServerStep
    BY <2>2, <2>3, <2>4, <2>5, <2>6, <2>8
       DEF ServerStep, CopyBegin, CopyEnd, HostPull, InstallFail, MoveAside, MigrateStatement, RecordMigration
  <2> QED
    BY <2>5, <2>7, <2>8 DEF ServerSteps
<1>3. ServerInv /\ RestartInv => RestartOnce
  BY ServerConstants DEF ServerInv, RestartInv, RestartOnce
<1> QED
  BY <1>1, <1>2, <1>3, ServerTyped, PTL DEF Spec

-----------------------------------------------------------------------------
(* Migrations *)

\* A file is recorded with its effect; the statements counted are those of the next
\* file, and a server that is up has recorded every file of its host.
SchemaInv ==
  /\ \A s \in {db, kept} : \A f \in s.recorded : s.effect[f] = Statements
  /\ server = "down" => ran = 0
  /\ server = "starting" /\ ran > 0 => Unrun # {} /\ db.effect[FileNext] >= ran
  /\ server = "up" => 1 .. loaded[Host] \subseteq kept.recorded

LEMMA StatementSchema ==
  ASSUME ServerInv, SchemaInv, MigrateStatement PROVE SchemaInv'
<1> DEFINE step == IF db.effect[FileNext] > ran THEN db.effect[FileNext] ELSE ran + 1
<1>1. FileNext \in Unrun /\ FileNext \in Versions
  BY NextFile DEF MigrateStatement
<1>2. db.effect \in [Versions -> 0 .. Statements] /\ db.recorded \in SUBSET Versions /\ ran \in 0 .. Statements
  BY DEF ServerInv, Schema
<1>3. db' = [db EXCEPT !.effect[FileNext] = step] /\ ran' = ran + 1 /\ kept' \in {kept, db'}
  BY DEF MigrateStatement
<1>4. step >= ran + 1 /\ step \in Nat
  BY <1>1, <1>2, ServerConstants
<1> HIDE DEF step
<1>5. db'.recorded = db.recorded /\ db'.effect = [db.effect EXCEPT ![FileNext] = step]
  BY <1>3 DEF ServerInv, Schema
<1>6. Unrun' = Unrun /\ FileNext' = FileNext
  BY <1>5 DEF Unrun, FileNext, MigrateStatement
<1>7. db'.effect[FileNext] >= ran'
  BY <1>1, <1>2, <1>3, <1>4, <1>5
<1>8. \A f \in db'.recorded : db'.effect[f] = Statements
  BY <1>1, <1>2, <1>5 DEF Unrun, SchemaInv
<1>9. server = "starting" /\ server' = server /\ Unrun # {}
  BY DEF MigrateStatement
<1> QED
  BY <1>3, <1>6, <1>7, <1>8, <1>9 DEF SchemaInv

LEMMA RecordSchema ==
  ASSUME ServerInv, SchemaInv, RecordMigration PROVE SchemaInv'
<1>1. FileNext \in Unrun /\ FileNext \in Versions
  BY NextFile DEF RecordMigration
<1>2. db.effect \in [Versions -> 0 .. Statements]
  BY DEF ServerInv, Schema
<1>3. db.effect[FileNext] >= Statements
  BY ServerConstants DEF RecordMigration, FileRun, SchemaInv
<1>4. db.effect[FileNext] = Statements
  BY <1>1, <1>2, <1>3, ServerConstants
<1>5. /\ db' = [db EXCEPT !.recorded = @ \cup {FileNext}] /\ kept' \in {kept, db'}
      /\ ran' = 0 /\ server = "starting" /\ server' = server
  BY DEF RecordMigration
<1>6. \A f \in db'.recorded : db'.effect[f] = Statements
  BY <1>4, <1>5 DEF SchemaInv, ServerInv, Schema
<1>7. \A f \in kept'.recorded : kept'.effect[f] = Statements
  BY <1>5, <1>6 DEF SchemaInv
<1> QED
  BY <1>5, <1>6, <1>7 DEF SchemaInv

LEMMA NextSchema == ServerInv /\ SchemaInv /\ [Next]_vars => SchemaInv'
<1> SUFFICES ASSUME ServerInv, SchemaInv, ServerSteps PROVE SchemaInv'
  BY NextServer
<1>1. CASE UNCHANGED <<server, loaded, db, kept, ran>>
  BY <1>1 DEF SchemaInv, Unrun, FileNext
<1>2. CASE Kill \/ StopByHand \/ CommandStops
  <2>1. server' = "down" /\ db' = kept /\ ran' = 0 /\ kept' = kept
    BY <1>2 DEF Kill, StopByHand, CommandStops, ProcessEnds
  <2> QED
    BY <2>1 DEF SchemaInv
<1>3. CASE Start
  <2>1. server = "down" /\ server' = "starting" /\ UNCHANGED <<db, kept, ran>>
    BY <1>3 DEF Start
  <2> QED
    BY <2>1 DEF SchemaInv
<1>4. CASE Serve
  <2>1. Unrun = {} /\ server' = "up" /\ kept' = db /\ UNCHANGED <<loaded, db, ran>>
    BY <1>4 DEF Serve
  <2>2. 1 .. loaded[Host] \subseteq db.recorded
    BY <2>1 DEF Unrun
  <2> QED
    BY <2>1, <2>2 DEF SchemaInv
<1>5. CASE ServerStep
  BY <1>1, <1>5, StatementSchema, RecordSchema
     DEF ServerStep, CopyBegin, CopyEnd, HostPull, WriteFlag, InstallFail, Poll, TakeFlag, CommandEnds,
         WatcherRestart, MoveAside
<1> QED
  BY <1>1, <1>2, <1>3, <1>4, <1>5 DEF ServerSteps, ServerRest

\* A server that is up has every statement of its migrations committed, though any
\* start before may have been cut short after any statement.
THEOREM ServesMigrated == Spec => []UpMigrated
<1>1. Init => SchemaInv
  <2> SUFFICES ASSUME Init PROVE SchemaInv
    OBVIOUS
  <2>1. loaded[Host] = 1 /\ server = "up"
    BY ServerConstants DEF Init, ServerInit
  <2>2. db.recorded = {1} /\ db.effect[1] = Statements /\ kept = db
    BY ServerConstants DEF Init, ServerInit, Versions
  <2> QED
    BY <2>1, <2>2 DEF SchemaInv
<1>2. ServerInv /\ SchemaInv => UpMigrated
  BY DEF ServerInv, SchemaInv, UpMigrated
<1> QED
  BY <1>1, <1>2, NextSchema, ServerTyped, PTL DEF Spec

-----------------------------------------------------------------------------
(* Replacements *)

Backups(s) == {s[i] : i \in DOMAIN s}

LEMMA BackupsAppend ==
  ASSUME NEW S, NEW s \in Seq(S), NEW x \in S
  PROVE  Backups(Append(s, x)) = Backups(s) \cup {x}
<1>1. DOMAIN Append(s, x) = DOMAIN s \cup {Len(s) + 1}
  OBVIOUS
<1>2. \A i \in DOMAIN s : Append(s, x)[i] = s[i]
  OBVIOUS
<1>3. Append(s, x)[Len(s) + 1] = x
  OBVIOUS
<1>4. Len(s) + 1 \notin DOMAIN s
  OBVIOUS
<1> QED
  BY <1>1, <1>2, <1>3, <1>4, Zenon DEF Backups

\* Every version that was complete is in place or among the backups, unless two
\* replacements came within a second (addon_install.py:450).
THEOREM VersionsAreKept == Spec => []UpgradeKeepsVersions
<1> DEFINE Kept(t, v) == [v |-> v, whole |-> TRUE] \in {tree[t]} \cup Backups(aside[t])
<1>1. Init => UpgradeKeepsVersions
  <2> SUFFICES ASSUME Init, NEW t \in Packages, NEW v \in complete[t] PROVE [v |-> v, whole |-> TRUE] = tree[t]
    BY DEF UpgradeKeepsVersions, Backups
  <2>1. t \in Trees /\ v = tree[t].v /\ v # 0
    BY ServerConstants DEF Init, ServerInit
  <2> QED
    BY <2>1 DEF Init, ServerInit, NoTree
<1>2. ServerInv /\ UpgradeKeepsVersions /\ [Next]_vars => UpgradeKeepsVersions'
  <2> SUFFICES ASSUME ServerInv, UpgradeKeepsVersions, ServerSteps, ~hasty',
                      NEW t \in Packages, NEW v \in complete'[t]
               PROVE  Kept(t, v)'
    BY NextServer DEF UpgradeKeepsVersions, Backups
  <2>1. CASE UNCHANGED <<tree, aside, hasty, complete>>
    BY <2>1 DEF Backups, UpgradeKeepsVersions
  <2>2. t \in Trees /\ t # Host
    BY ServerConstants
  <2>3. ASSUME NEW x \in Packages, NEW b \in BOOLEAN, MoveAside(x, b) PROVE Kept(t, v)'
    <3>1. ~hasty /\ ~b /\ complete' = complete
      BY <2>3 DEF MoveAside
    <3>2. Kept(t, v)
      BY <3>1 DEF UpgradeKeepsVersions, Backups
    <3>3. CASE tree[x] = NoTree \/ x # t
      BY <2>2, <2>3, <3>2, <3>3 DEF MoveAside, ServerInv
    <3>4. CASE tree[x] # NoTree /\ x = t
      <4>1. tree[t] \in [v : Versions, whole : BOOLEAN]
        BY <2>2, <3>4, ServerConstants DEF ServerInv, Tree, Versions
      <4>2. aside'[t] = Append(aside[t], tree[t])
        BY <2>3, <3>1, <3>4 DEF MoveAside, Backup, ServerInv
      <4>3. Backups(Append(aside[t], tree[t])) = Backups(aside[t]) \cup {tree[t]}
        <5> DEFINE B == [v : Versions, whole : BOOLEAN]
        <5>1. aside[t] \in Seq(B) /\ tree[t] \in B
          BY <4>1 DEF ServerInv
        <5> HIDE DEF B
        <5> QED
          BY <5>1, BackupsAppend
      <4> QED
        BY <3>2, <4>2, <4>3
    <3> QED
      BY <3>3, <3>4
  <2>4. CASE CopyBegin
    <3>1. UNCHANGED <<aside, hasty, complete>> /\ tree[install.t] = NoTree
      BY <2>4 DEF CopyBegin, ServerInv
    <3>2. Kept(t, v)
      BY <3>1 DEF UpgradeKeepsVersions, Backups
    <3>3. install.t # t => tree'[t] = tree[t]
      BY <2>4 DEF CopyBegin, ServerInv
    <3> QED
      BY <3>1, <3>2, <3>3 DEF NoTree
  <2>5. CASE CopyEnd
    <3>1. UNCHANGED <<aside, hasty>> /\ ~tree[install.t].whole
      BY <2>5 DEF CopyEnd, ServerInv
    <3>2. tree' = [tree EXCEPT ![install.t].whole = TRUE] /\ complete' = [complete EXCEPT ![install.t] = @ \cup {tree[install.t].v}]
      BY <2>5 DEF CopyEnd
    <3>3. CASE install.t # t
      <4>1. tree'[t] = tree[t] /\ complete'[t] = complete[t]
        BY <2>2, <3>2, <3>3 DEF ServerInv
      <4> QED
        BY <3>1, <4>1 DEF UpgradeKeepsVersions, Backups
    <3>4. CASE install.t = t
      <4>1. complete'[t] = complete[t] \cup {tree[t].v} /\ tree'[t] = [v |-> tree[t].v, whole |-> TRUE]
        BY <2>2, <3>2, <3>4 DEF ServerInv, Tree
      <4>2. CASE v = tree[t].v
        BY <4>1, <4>2
      <4>3. CASE v \in complete[t]
        <5>1. Kept(t, v)
          BY <3>1, <4>3 DEF UpgradeKeepsVersions, Backups
        <5> QED
          BY <3>1, <3>4, <5>1
      <4> QED
        BY <4>1, <4>2, <4>3
    <3> QED
      BY <3>3, <3>4
  <2>6. CASE HostPull
    <3>1. UNCHANGED <<aside, hasty>> /\ tree'[t] = tree[t] /\ complete'[t] = complete[t]
      BY <2>2, <2>6 DEF HostPull, ServerInv
    <3> QED
      BY <3>1 DEF UpgradeKeepsVersions, Backups
  <2>7. CASE ServerStep
    BY <2>1, <2>3, <2>4, <2>5, <2>6, <2>7
       DEF ServerStep, WriteFlag, InstallFail, MigrateStatement, RecordMigration, Poll, TakeFlag, CommandEnds,
           WatcherRestart
  <2>8. CASE ServerRest' = ServerRest \/ Start \/ Serve \/ Kill \/ CommandStops \/ StopByHand
    BY <2>1, <2>8 DEF ServerRest, Start, Serve, Kill, CommandStops, StopByHand
  <2> QED
    BY <2>7, <2>8 DEF ServerSteps
<1> QED
  BY <1>1, <1>2, ServerTyped, PTL DEF Spec

-----------------------------------------------------------------------------
(* The addons' settings *)

\* A save, the registry filled as the server begins to serve, or the end of the
\* process; any other step leaves the settings alone, and a server that is up serves
\* the same addons as before.
LEMMA NextAddons ==
  [Next]_vars =>
    /\ UNCHANGED shop
    /\ \/ /\ \E p \in shop.admins : SaveStep(p)
          /\ server = "up" /\ UNCHANGED <<server, loaded>>
       \/ UNCHANGED addonVars /\ (server = "up" \/ server' = "up" => UNCHANGED <<server, loaded>>)
       \/ LoadAddons /\ server = "starting" /\ UNCHANGED loaded
       \/ DropAddons /\ server' = "down"
<1> SUFFICES ASSUME [Next]_vars
             PROVE  /\ UNCHANGED shop
                    /\ \/ /\ \E p \in shop.admins : SaveStep(p)
                          /\ server = "up" /\ UNCHANGED <<server, loaded>>
                       \/ UNCHANGED addonVars /\ (server = "up" \/ server' = "up" => UNCHANGED <<server, loaded>>)
                       \/ LoadAddons /\ server = "starting" /\ UNCHANGED loaded
                       \/ DropAddons /\ server' = "down"
  OBVIOUS
<1>1. CASE UNCHANGED vars
  BY <1>1 DEF vars, serverVars
<1>2. CASE server = "up" /\ Requests /\ UNCHANGED ServerRest /\ UNCHANGED shop
  BY <1>2 DEF Requests, ServerRest
<1>3. ServerStep => UNCHANGED <<server, loaded>>
  BY DEF ServerStep, CopyBegin, CopyEnd, HostPull, WriteFlag, InstallFail, MigrateStatement, RecordMigration,
         Poll, TakeFlag, CommandEnds, WatcherRestart, MoveAside
<1>4. Start => server = "down" /\ server' = "starting"
  BY DEF Start
<1>5. Serve => server = "starting" /\ UNCHANGED loaded
  BY DEF Serve
<1>6. (Kill \/ CommandStops \/ StopByHand) => server' = "down"
  BY DEF Kill, CommandStops, StopByHand, ProcessEnds
<1> QED
  BY <1>1, <1>2, <1>3, <1>4, <1>5, <1>6 DEF Next, DropRequests

AddonRow == [exists : BOOLEAN, on : BOOLEAN, secret : Secrets \cup {NoSecret}]
Saving   == [at : {"check", "write"}, a : AddonIds, on : BOOLEAN, secret : Secrets \cup {NoSecret},
             rivals : SUBSET AddonIds]

Blank(r) == ~r.on /\ r.secret = NoSecret

SettingInv ==
  /\ shop \in Shops
  /\ row \in [AddonIds -> AddonRow] /\ mem \in [AddonIds -> Setting]
  /\ save \in [Admins -> Saving \cup {NoSave}]
  /\ proven \in [AddonIds -> SUBSET Secrets]
  /\ \A a \in AddonIds : ~row[a].exists => Blank(row[a])
  /\ server # "up" => \A p \in Admins : save[p] = NoSave
  /\ SecretsProven

LEMMA SwitchRow ==
  ASSUME NEW r \in AddonRow, NEW b \in BOOLEAN
  PROVE  /\ [r EXCEPT !.on = b] \in AddonRow
         /\ [r EXCEPT !.on = b].secret = r.secret /\ [r EXCEPT !.on = b].exists = r.exists
         /\ [r EXCEPT !.on = b].on = b
BY DEF AddonRow

LEMMA RivalRowsSound ==
  ASSUME SettingInv, NEW p \in Admins, save[p] # NoSave
  PROVE  /\ RivalRows(row, save[p].rivals) \in [AddonIds -> AddonRow]
         /\ \A a \in AddonIds : RivalRows(row, save[p].rivals)[a].secret = row[a].secret
         /\ \A a \in AddonIds : ~RivalRows(row, save[p].rivals)[a].exists => Blank(RivalRows(row, save[p].rivals)[a])
<1> DEFINE after == RivalRows(row, save[p].rivals)
<1>1. \A a \in AddonIds : row[a] \in AddonRow /\ (~row[a].exists => Blank(row[a]))
  BY DEF SettingInv
<1>2. \A a \in AddonIds : after[a] = IF a \in save[p].rivals THEN [row[a] EXCEPT !.on = FALSE] ELSE row[a]
  BY DEF RivalRows
<1>3. ASSUME NEW a \in AddonIds
      PROVE  after[a] \in AddonRow /\ after[a].secret = row[a].secret /\ (~after[a].exists => Blank(after[a]))
  <2> HIDE DEF after
  <2>1. CASE a \in save[p].rivals
    <3>1. after[a] = [row[a] EXCEPT !.on = FALSE]
      BY <1>2, <2>1
    <3> QED
      BY <1>1, <3>1, SwitchRow DEF Blank
  <2>2. CASE a \notin save[p].rivals
    BY <1>1, <1>2, <2>2
  <2> QED
    BY <2>1, <2>2
<1>4. after = [a \in AddonIds |-> after[a]]
  BY DEF RivalRows
<1> QED
  BY <1>3, <1>4

LEMMA SaveBeginSetting ==
  ASSUME SettingInv, UNCHANGED shop, server' = "up", NEW p \in Admins, NEW a, NEW on \in BOOLEAN,
         NEW typed \in Secrets \cup {NoSecret}, SaveBegin(p, a, on, typed)
  PROVE  SettingInv'
<1> DEFINE rivals == IF on THEN Rivals(a) ELSE {}
           s == [at |-> "check", a |-> a, on |-> on, secret |-> Merge(a, typed), rivals |-> rivals]
<1>1. a \in AddonIds /\ Rivals(a) \subseteq AddonIds
  BY DEF SaveBegin, Registered, AddonIds, Rivals, Enabled
<1>2. Merge(a, typed) \in Secrets \cup {NoSecret}
  BY <1>1 DEF Merge, SettingInv, Setting
<1>3. s \in Saving
  BY <1>1, <1>2 DEF Saving
<1>4. save' = [save EXCEPT ![p] = s] /\ UNCHANGED <<row, proven>>
  BY DEF SaveBegin
<1> HIDE DEF s
<1>5. save' \in [Admins -> Saving \cup {NoSave}]
  BY <1>3, <1>4 DEF SettingInv
<1>6. mem' = [b \in AddonIds |-> IF b \in rivals THEN [mem[b] EXCEPT !.on = FALSE] ELSE mem[b]]
  BY DEF SaveBegin
<1>7. mem' \in [AddonIds -> Setting] /\ \A b \in AddonIds : mem'[b].secret = mem[b].secret
  BY <1>6 DEF SettingInv, Setting
<1> QED
  BY <1>4, <1>5, <1>7 DEF SettingInv, SecretsProven

LEMMA SaveApplySetting ==
  ASSUME SettingInv, UNCHANGED shop, server' = "up", NEW p \in Admins, SaveApply(p)
  PROVE  SettingInv'
<1> DEFINE s == save[p]
<1>1. s \in Saving
  BY DEF SaveApply, SettingInv, NoSave
<1>2. save' \in [Admins -> Saving \cup {NoSave}] /\ UNCHANGED row
  BY <1>1 DEF SaveApply, SettingInv, Saving
<1>3. mem' = [mem EXCEPT ![s.a] = [on |-> s.on, secret |-> s.secret]]
  BY DEF SaveApply
<1>4. /\ mem' \in [AddonIds -> Setting] /\ mem'[s.a].secret = s.secret
      /\ \A b \in AddonIds \ {s.a} : mem'[b] = mem[b]
  BY <1>1, <1>3 DEF SettingInv, Setting, Saving
<1>5. proven' \in [AddonIds -> SUBSET Secrets] /\ \A b \in AddonIds : proven[b] \subseteq proven'[b]
  BY <1>1 DEF SaveApply, SettingInv, Saving
<1>6. s.secret = NoSecret \/ s.secret \in proven'[s.a]
  BY <1>1 DEF SaveApply, SettingInv, Saving, Changed, SecretsProven
<1> HIDE DEF s
<1> QED
  BY <1>2, <1>4, <1>5, <1>6 DEF SettingInv, SecretsProven

LEMMA SaveEndSetting ==
  ASSUME SettingInv, UNCHANGED shop, server' = "up", NEW p \in Admins,
         SaveCommit(p) \/ SaveRefused(p) \/ SaveLost(p)
  PROVE  SettingInv'
<1> DEFINE s == save[p]
           after == RivalRows(row, s.rivals)
<1>1. s \in Saving /\ s # NoSave
  BY DEF SaveCommit, SaveRefused, SaveLost, SettingInv, NoSave
<1>2. save' \in [Admins -> Saving \cup {NoSave}] /\ UNCHANGED <<mem, proven>>
  BY DEF SaveCommit, SaveRefused, SaveLost, SettingInv
<1>3. /\ after \in [AddonIds -> AddonRow] /\ \A a \in AddonIds : after[a].secret = row[a].secret
      /\ \A a \in AddonIds : ~after[a].exists => Blank(after[a])
  BY <1>1, RivalRowsSound
<1>4. CASE row' \in {row, after}
  BY <1>2, <1>3, <1>4 DEF SettingInv, SecretsProven
<1>5. CASE SaveCommit(p)
  <2> DEFINE r == [exists |-> TRUE, on |-> s.on, secret |-> mem[s.a].secret]
  <2>1. r \in AddonRow
    BY <1>1 DEF SettingInv, Setting, AddonRow, Saving
  <2>2. row' = [after EXCEPT ![s.a] = r]
    BY <1>5 DEF SaveCommit
  <2>3. r.exists /\ r.secret = mem[s.a].secret
    OBVIOUS
  <2> HIDE DEF after, r
  <2>4. /\ row' \in [AddonIds -> AddonRow]
        /\ row'[s.a] = r /\ \A a \in AddonIds \ {s.a} : row'[a] = after[a]
    BY <1>1, <1>3, <2>1, <2>2 DEF Saving
  <2> QED
    BY <1>2, <1>3, <2>3, <2>4 DEF SettingInv, SecretsProven
<1> QED
  BY <1>4, <1>5 DEF SaveRefused, SaveLost

LEMMA LoadSetting ==
  ASSUME SettingInv, UNCHANGED shop, server = "starting", LoadAddons
  PROVE  SettingInv'
<1>1. PICK keep \in Repair({a \in Registered : row[a].on}) : \E failed \in SUBSET keep :
        /\ mem' = [a \in AddonIds |-> IF a \notin Registered \/ ~row[a].exists THEN Off
                                      ELSE [on |-> a \in keep \ failed, secret |-> row[a].secret]]
        /\ row' = [a \in AddonIds |-> [row[a] EXCEPT !.on = @ /\ (a \in Registered => a \in keep)]]
  BY DEF LoadAddons
<1>2. mem' \in [AddonIds -> Setting] /\ \A a \in AddonIds : mem'[a].secret \in {NoSecret, row[a].secret}
  BY <1>1 DEF SettingInv, Setting, Off, AddonRow
<1>3. /\ row' \in [AddonIds -> AddonRow] /\ \A a \in AddonIds : row'[a].secret = row[a].secret
      /\ \A a \in AddonIds : ~row'[a].exists => Blank(row'[a])
  <2>1. ASSUME NEW a \in AddonIds
        PROVE  row'[a] \in AddonRow /\ row'[a].secret = row[a].secret /\ (~row'[a].exists => Blank(row'[a]))
    <3> DEFINE on == row[a].on /\ (a \in Registered => a \in keep)
    <3>1. row[a] \in AddonRow /\ (~row[a].exists => Blank(row[a]))
      BY DEF SettingInv
    <3>2. row'[a] = [row[a] EXCEPT !.on = on] /\ on \in BOOLEAN /\ (on => row[a].on)
      BY <1>1, <3>1 DEF AddonRow
    <3> HIDE DEF on
    <3> QED
      BY <3>1, <3>2, SwitchRow DEF Blank
  <2>2. row' = [a \in AddonIds |-> row'[a]]
    BY <1>1
  <2> QED
    BY <2>1, <2>2
<1>4. UNCHANGED <<save, proven>> /\ \A p \in Admins : save[p] = NoSave
  BY DEF LoadAddons, SettingInv
<1> QED
  BY <1>2, <1>3, <1>4 DEF SettingInv, SecretsProven

LEMMA SettingStep ==
  SettingInv /\ [Next]_vars => SettingInv'
<1> SUFFICES ASSUME SettingInv, [Next]_vars PROVE SettingInv'
  OBVIOUS
<1>1. UNCHANGED shop
  BY NextAddons
<1>2. CASE /\ \E p \in shop.admins : SaveStep(p)
           /\ server = "up" /\ UNCHANGED <<server, loaded>>
  <2>1. PICK p \in shop.admins : SaveStep(p)
    BY <1>2
  <2>2. p \in Admins /\ server' = "up"
    BY <1>2, ShopAssumption DEF SettingInv
  <2>3. CASE SaveApply(p)
    BY <1>1, <2>2, <2>3, SaveApplySetting
  <2>4. CASE SaveCommit(p) \/ SaveRefused(p) \/ SaveLost(p)
    BY <1>1, <2>2, <2>4, SaveEndSetting
  <2>5. CASE \E a \in shop.addons, on \in BOOLEAN, typed \in Secrets \cup {NoSecret} : SaveBegin(p, a, on, typed)
    <3>1. PICK a \in shop.addons, on \in BOOLEAN, typed \in Secrets \cup {NoSecret} : SaveBegin(p, a, on, typed)
      BY <2>5
    <3> QED
      BY <1>1, <2>2, <3>1, SaveBeginSetting
  <2> QED
    BY <2>1, <2>3, <2>4, <2>5 DEF SaveStep
<1>3. CASE UNCHANGED addonVars /\ (server = "up" \/ server' = "up" => UNCHANGED <<server, loaded>>)
  BY <1>1, <1>3 DEF addonVars, SettingInv, SecretsProven
<1>4. CASE LoadAddons /\ server = "starting" /\ UNCHANGED loaded
  BY <1>1, <1>4, LoadSetting
<1>5. CASE DropAddons /\ server' = "down"
  <2>1. mem' \in [AddonIds -> Setting] /\ \A a \in AddonIds : mem'[a].secret = NoSecret
    BY <1>5 DEF DropAddons, Off, Setting
  <2>2. save' \in [Admins -> Saving \cup {NoSave}] /\ \A p \in Admins : save'[p] = NoSave
    BY <1>5 DEF DropAddons
  <2> QED
    BY <1>1, <1>5, <2>1, <2>2 DEF DropAddons, SettingInv, SecretsProven
<1> QED
  BY <1>2, <1>3, <1>4, <1>5, NextAddons

LEMMA SettingStart == Init => SettingInv
<1> SUFFICES ASSUME Init PROVE SettingInv
  OBVIOUS
<1>1. ASSUME NEW a \in AddonIds
      PROVE  /\ row[a] \in AddonRow /\ row[a].secret = NoSecret
             /\ ~row[a].exists => Blank(row[a])
             /\ mem[a] \in Setting /\ mem[a].secret = NoSecret
  BY DEF Init, AddonsInit, NoRow, AddonRow, Setting, Blank
<1>2. row \in [AddonIds -> AddonRow] /\ mem \in [AddonIds -> Setting]
  <2>1. row = [a \in AddonIds |-> row[a]] /\ mem = [a \in AddonIds |-> mem[a]]
    BY DEF Init, AddonsInit
  <2> QED
    BY <1>1, <2>1
<1>3. proven \in [AddonIds -> SUBSET Secrets] /\ save \in [Admins -> Saving \cup {NoSave}] /\ shop \in Shops
      /\ \A p \in Admins : save[p] = NoSave
  BY DEF Init, AddonsInit
<1> QED
  BY <1>1, <1>2, <1>3 DEF SettingInv, SecretsProven

LEMMA SettingAlways == Spec => []SettingInv
BY SettingStart, SettingStep, PTL DEF Spec

LEMMA AddonsTyped == Spec => []AddonsTypeOK
<1>1. SettingInv => AddonsTypeOK
  BY DEF SettingInv, AddonsTypeOK, AddonRow, Setting, Saving, NoSave
<1> QED
  BY <1>1, SettingAlways, PTL

\* Whatever secret runs or is stored has been accepted by its provider, for any
\* number of tabs whose saves overlap, fail or end with the process.
THEOREM OnlyProvenSecrets == Spec => []SecretsProven
<1>1. SettingInv => SecretsProven
  BY DEF SettingInv
<1> QED
  BY <1>1, SettingAlways, PTL

\* One save at a time: no two have overlapped.
Alone == \A p, q \in Admins : save[p] # NoSave /\ save[q] # NoSave => p = q

\* Two addons that may be on together: no channel has both.
Apart(a, b) == a # b => Claims[a] \cap Claims[b] \cap Channels = {}

\* The addon that a save is about to enable has no rival left.
SenderInv ==
  server = "up" /\ ~mixed =>
    /\ Alone
    /\ \A a, b \in Enabled : Apart(a, b)
    /\ \A p \in Admins : save[p].at = "check" /\ save[p].on => \A b \in Enabled : Apart(save[p].a, b)

\* A save that begins meets no other, or is marked as mixed.
LEMMA BeginsAlone ==
  ASSUME SettingInv, NEW p \in Admins, NEW a, NEW on \in BOOLEAN, NEW typed, SaveBegin(p, a, on, typed), ~mixed'
  PROVE  /\ ~mixed /\ \A q \in Admins : save[q] = NoSave
         /\ \A q \in Admins \ {p} : save'[q] = NoSave
         /\ save'[p].at = "check" /\ save'[p].a = a /\ save'[p].on = on
         /\ save'[p].rivals = (IF on THEN Rivals(a) ELSE {}) /\ Alone'
BY DEF SaveBegin, SettingInv, Alone

LEMMA NoSaveIdle == NoSave.at = "none"
BY DEF NoSave

LEMMA BeginSender ==
  ASSUME SettingInv, SenderInv, server = "up", UNCHANGED <<server, loaded>>, NEW p \in Admins, NEW a,
         NEW on \in BOOLEAN, NEW typed, SaveBegin(p, a, on, typed)
  PROVE  SenderInv'
<1> SUFFICES ASSUME ~mixed'
             PROVE  /\ Alone' /\ (\A b, c \in Enabled : Apart(b, c))'
                    /\ (\A q \in Admins : save[q].at = "check" /\ save[q].on => \A b \in Enabled : Apart(save[q].a, b))'
  BY DEF SenderInv
<1>1. /\ ~mixed /\ \A q \in Admins \ {p} : save'[q] = NoSave
      /\ save'[p].a = a /\ save'[p].on = on /\ Alone'
  BY BeginsAlone
<1>2. Registered' = Registered /\ Registered \subseteq AddonIds
  BY DEF Registered, AddonIds
<1>3. ASSUME NEW b \in Enabled'
      PROVE  b \in Enabled /\ (on => b \notin Rivals(a))
  <2>1. b \in Registered /\ b \in AddonIds /\ mem'[b].on
    BY <1>2 DEF Enabled
  <2>2. mem'[b] = IF b \in (IF on THEN Rivals(a) ELSE {}) THEN [mem[b] EXCEPT !.on = FALSE] ELSE mem[b]
    BY <2>1 DEF SaveBegin
  <2>3. mem[b] \in Setting
    BY <2>1 DEF SettingInv
  <2> QED
    BY <2>1, <2>2, <2>3 DEF Enabled, Setting
<1>4. ASSUME on, NEW b \in Enabled'
      PROVE  Apart(a, b)
  BY <1>3, <1>4 DEF Rivals, Clash, Apart
<1>5. (\A b, c \in Enabled : Apart(b, c))'
  BY <1>1, <1>3 DEF SenderInv, Apart
<1>6. ASSUME NEW q \in Admins, save'[q].at = "check", save'[q].on, NEW b \in Enabled'
      PROVE  Apart(save'[q].a, b)
  <2>1. q = p
    BY <1>1, <1>6 DEF NoSave
  <2> QED
    BY <1>1, <1>4, <1>6, <2>1
<1> QED
  BY <1>1, <1>5, <1>6 DEF Apart

LEMMA ApplySender ==
  ASSUME SettingInv, SenderInv, server = "up", UNCHANGED <<server, loaded>>, NEW p \in Admins, SaveApply(p)
  PROVE  SenderInv'
<1> SUFFICES ASSUME ~mixed'
             PROVE  /\ Alone' /\ (\A b, c \in Enabled : Apart(b, c))'
                    /\ (\A q \in Admins : save[q].at = "check" /\ save[q].on => \A b \in Enabled : Apart(save[q].a, b))'
  BY DEF SenderInv
<1>1. ~mixed /\ save[p] # NoSave /\ save[p].at = "check" /\ save[p] \in Saving
  BY DEF SaveApply, SettingInv, NoSave
<1>2. save' = [save EXCEPT ![p].at = "write"]
  BY DEF SaveApply
<1>3. \A q \in Admins \ {p} : save[q] = NoSave /\ save'[q] = NoSave
  BY <1>1, <1>2 DEF SenderInv, Alone, SettingInv
<1>4. save'[p].at = "write"
  BY <1>1, <1>2 DEF SettingInv, Saving
<1>5. Registered' = Registered /\ Registered \subseteq AddonIds
  BY DEF Registered, AddonIds
<1>6. ASSUME NEW b \in Enabled'
      PROVE  b \in Enabled \/ (b = save[p].a /\ save[p].on)
  BY <1>5 DEF Enabled, SaveApply, SettingInv
<1>7. ASSUME NEW b \in Enabled', NEW c \in Enabled'
      PROVE  Apart(b, c)
  BY <1>1, <1>6 DEF SenderInv, Apart
<1>8. Alone'
  BY <1>3 DEF Alone
<1>9. \A q \in Admins : save'[q].at # "check"
  BY <1>3, <1>4, NoSaveIdle
<1> QED
  BY <1>7, <1>8, <1>9

LEMMA EndSender ==
  ASSUME SettingInv, SenderInv, UNCHANGED <<server, loaded>>, NEW p \in Admins,
         SaveCommit(p) \/ SaveRefused(p) \/ SaveLost(p)
  PROVE  SenderInv'
<1>1. UNCHANGED <<mem, mixed>> /\ save' = [save EXCEPT ![p] = NoSave]
  BY DEF SaveCommit, SaveRefused, SaveLost
<1>2. \A q \in Admins : save'[q] \in {save[q], NoSave}
  BY <1>1 DEF SettingInv
<1>3. Enabled' = Enabled
  BY <1>1 DEF Enabled, Registered
<1> SUFFICES ASSUME server = "up", ~mixed
             PROVE  /\ Alone' /\ (\A b, c \in Enabled : Apart(b, c))'
                    /\ (\A q \in Admins : save[q].at = "check" /\ save[q].on => \A b \in Enabled : Apart(save[q].a, b))'
  BY <1>1 DEF SenderInv
<1>4. Alone'
  BY <1>2 DEF SenderInv, Alone
<1>5. \A q \in Admins : save'[q].at = "check" => save'[q] = save[q]
  BY <1>2, NoSaveIdle
<1>6. ASSUME NEW q \in Admins, save'[q].at = "check", save'[q].on, NEW b \in Enabled'
      PROVE  Apart(save'[q].a, b)
  BY <1>3, <1>5, <1>6 DEF SenderInv
<1> QED
  BY <1>3, <1>4, <1>6 DEF SenderInv, Apart

LEMMA LoadSender ==
  ASSUME SettingInv, server = "starting", UNCHANGED loaded, LoadAddons
  PROVE  SenderInv'
<1>1. PICK keep \in Repair({a \in Registered : row[a].on}) : \E failed \in SUBSET keep :
        mem' = [a \in AddonIds |-> IF a \notin Registered \/ ~row[a].exists THEN Off
                                   ELSE [on |-> a \in keep \ failed, secret |-> row[a].secret]]
  BY DEF LoadAddons
<1>2. \A a, b \in keep : Apart(a, b)
  BY <1>1 DEF Repair, Apart
<1>3. Enabled' \subseteq keep
  <2>1. Registered' = Registered /\ Registered \subseteq AddonIds
    BY DEF Registered, AddonIds
  <2> SUFFICES ASSUME NEW b \in Enabled' PROVE b \in keep
    OBVIOUS
  <2>2. b \in AddonIds /\ mem'[b].on
    BY <2>1 DEF Enabled
  <2>3. PICK failed \in SUBSET keep :
          mem'[b] = IF b \notin Registered \/ ~row[b].exists THEN Off
                    ELSE [on |-> b \in keep \ failed, secret |-> row[b].secret]
    BY <1>1, <2>2
  <2>4. CASE b \notin Registered \/ ~row[b].exists
    BY <2>2, <2>3, <2>4 DEF Off
  <2>5. CASE ~(b \notin Registered \/ ~row[b].exists)
    <3> DEFINE runs == b \in keep \ failed
    <3>1. mem'[b] = [on |-> runs, secret |-> row[b].secret]
      BY <2>3, <2>5
    <3> HIDE DEF runs
    <3>2. runs
      BY <2>2, <3>1
    <3> QED
      BY <3>2 DEF runs
  <2> QED
    BY <2>4, <2>5
<1>4. \A p \in Admins : save'[p] = NoSave
  BY DEF SettingInv, LoadAddons
<1>5. Alone' /\ \A p \in Admins : save'[p].at # "check"
  BY <1>4, NoSaveIdle DEF Alone
<1>6. ASSUME NEW b \in Enabled', NEW c \in Enabled'
      PROVE  Apart(b, c)
  BY <1>2, <1>3
<1> QED
  BY <1>5, <1>6 DEF SenderInv, Apart

\* A channel never has two senders, for any number of addons, channels and tabs,
\* however saves fail and starts are cut short.
THEOREM ChannelHasOneSender == Spec => []OneSender
<1>1. Init => SenderInv
  <2> SUFFICES ASSUME Init PROVE SenderInv
    OBVIOUS
  <2>1. \A a \in Enabled : a \in shop.enabled
    BY DEF Init, AddonsInit, Enabled, Registered, AddonIds, NoRow
  <2>2. shop \in Shops /\ \A p \in Admins : save[p] = NoSave
    BY DEF Init, AddonsInit
  <2>3. Alone /\ \A p \in Admins : save[p].at # "check"
    BY <2>2, NoSaveIdle DEF Alone
  <2>4. \A a, b \in Enabled : Apart(a, b)
    BY <2>1, <2>2, ShopAssumption DEF Apart
  <2> QED
    BY <2>3, <2>4 DEF SenderInv
<1>2. SettingInv /\ SenderInv /\ [Next]_vars => SenderInv'
  <2> SUFFICES ASSUME SettingInv, SenderInv, [Next]_vars PROVE SenderInv'
    OBVIOUS
  <2>2. CASE /\ \E p \in shop.admins : SaveStep(p)
             /\ server = "up" /\ UNCHANGED <<server, loaded>>
    <3>1. PICK p \in shop.admins : SaveStep(p)
      BY <2>2
    <3>2. p \in Admins
      BY ShopAssumption DEF SettingInv
    <3>3. CASE SaveApply(p)
      BY <2>2, <3>2, <3>3, ApplySender
    <3>4. CASE SaveCommit(p) \/ SaveRefused(p) \/ SaveLost(p)
      BY <2>2, <3>2, <3>4, EndSender
    <3>5. CASE \E a \in shop.addons, on \in BOOLEAN, typed \in Secrets \cup {NoSecret} : SaveBegin(p, a, on, typed)
      <4>1. PICK a \in shop.addons, on \in BOOLEAN, typed \in Secrets \cup {NoSecret} : SaveBegin(p, a, on, typed)
        BY <3>5
      <4> QED
        BY <2>2, <3>2, <4>1, BeginSender
    <3> QED
      BY <3>1, <3>3, <3>4, <3>5 DEF SaveStep
  <2>3. CASE UNCHANGED addonVars /\ (server = "up" \/ server' = "up" => UNCHANGED <<server, loaded>>)
    BY <2>3 DEF addonVars, SenderInv, Alone, Apart, Enabled, Registered
  <2>4. CASE LoadAddons /\ server = "starting" /\ UNCHANGED loaded
    BY <2>4, LoadSender
  <2>5. CASE DropAddons /\ server' = "down"
    BY <2>5 DEF SenderInv
  <2> QED
    BY <2>2, <2>3, <2>4, <2>5, NextAddons
<1>3. SenderInv => OneSender
  BY DEF SenderInv, OneSender, Serving, Apart
<1> QED
  BY <1>1, <1>2, <1>3, SettingStart, SettingStep, PTL DEF Spec

\* What the registry holds of an addon while tab p saves, told by the table: the rivals
\* are off already, and what is being written is there before its row.
HeldBy(p, a, r) ==
  LET s == save[p]
  IN IF s.at = "write" /\ a = s.a THEN (r.on <=> s.on) /\ r.secret = s.secret
     ELSE (r.on <=> row[a].on /\ a \notin s.rivals) /\ r.secret = row[a].secret

\* The registry and the table differ by the save in progress only.
Settled ==
  /\ Alone
  /\ (\A p \in Admins : save[p] = NoSave) =>
       \A a \in Registered : (mem[a].on <=> row[a].on) /\ mem[a].secret = row[a].secret
  /\ \A p \in Admins : save[p] # NoSave =>
       save[p].a \notin save[p].rivals /\ \A a \in Registered : HeldBy(p, a, mem[a])

CoherentInv == server = "up" /\ ~mixed /\ ~troubled => Settled

LEMMA BeginCoherent ==
  ASSUME SettingInv, CoherentInv, server = "up", UNCHANGED <<server, loaded>>, NEW p \in Admins, NEW a,
         NEW on \in BOOLEAN, NEW typed, SaveBegin(p, a, on, typed)
  PROVE  CoherentInv'
<1> SUFFICES ASSUME ~mixed', ~troubled' PROVE Settled'
  BY DEF CoherentInv
<1> DEFINE rivals == IF on THEN Rivals(a) ELSE {}
<1>1. /\ ~mixed /\ (\A q \in Admins : save[q] = NoSave) /\ \A q \in Admins \ {p} : save'[q] = NoSave
      /\ save'[p].at = "check" /\ save'[p].a = a /\ save'[p].rivals = rivals /\ Alone'
  <2>1. SettingInv /\ SaveBegin(p, a, on, typed) /\ ~mixed'
    OBVIOUS
  <2>2. /\ ~mixed /\ \A q \in Admins : save[q] = NoSave
        /\ \A q \in Admins \ {p} : save'[q] = NoSave
        /\ save'[p].at = "check" /\ save'[p].a = a /\ save'[p].on = on
        /\ save'[p].rivals = rivals /\ Alone'
    BY <2>1, BeginsAlone
  <2> QED
    BY <2>2
<1>2. Registered' = Registered /\ Registered \subseteq AddonIds /\ row' = row /\ ~troubled
  BY DEF Registered, AddonIds, SaveBegin
<1>3. a \notin rivals
  BY DEF Rivals, Clash
<1>4. \A b \in Registered : (mem[b].on <=> row[b].on) /\ mem[b].secret = row[b].secret
  BY <1>1, <1>2 DEF CoherentInv, Settled
<1>5. mem' = [b \in AddonIds |-> IF b \in rivals THEN [mem[b] EXCEPT !.on = FALSE] ELSE mem[b]]
  BY DEF SaveBegin
<1> HIDE DEF rivals
<1>6. \A b \in AddonIds : (mem'[b].on <=> mem[b].on /\ b \notin rivals) /\ mem'[b].secret = mem[b].secret
  BY <1>5 DEF SettingInv, Setting
<1>7. \A b \in Registered : (mem'[b].on <=> row[b].on /\ b \notin rivals) /\ mem'[b].secret = row[b].secret
  BY <1>2, <1>4, <1>6
<1>8. \A b \in Registered : HeldBy(p, b, mem[b])'
  BY <1>1, <1>2, <1>7 DEF HeldBy
<1>9. save'[p] # NoSave
  BY <1>1, NoSaveIdle
<1> QED
  BY <1>1, <1>2, <1>3, <1>8, <1>9 DEF Settled

LEMMA ApplyCoherent ==
  ASSUME SettingInv, CoherentInv, server = "up", UNCHANGED <<server, loaded>>, NEW p \in Admins, SaveApply(p)
  PROVE  CoherentInv'
<1> SUFFICES ASSUME ~mixed', ~troubled' PROVE Settled'
  BY DEF CoherentInv
<1>1. ~mixed /\ ~troubled /\ save[p] # NoSave /\ save[p].at = "check" /\ save[p] \in Saving /\ row' = row
  BY DEF SaveApply, SettingInv, NoSave
<1>2. save' = [save EXCEPT ![p].at = "write"] /\ save \in [Admins -> Saving \cup {NoSave}]
  BY DEF SaveApply, SettingInv
<1>3. \A q \in Admins \ {p} : save[q] = NoSave /\ save'[q] = NoSave
  BY <1>1, <1>2 DEF CoherentInv, Settled, Alone
<1>4. /\ save'[p].at = "write" /\ save'[p].a = save[p].a /\ save'[p].on = save[p].on
      /\ save'[p].secret = save[p].secret /\ save'[p].rivals = save[p].rivals
  BY <1>1, <1>2 DEF Saving
<1>5. Registered' = Registered /\ Registered \subseteq AddonIds
  BY DEF Registered, AddonIds
<1>6. ASSUME NEW b \in Registered
      PROVE  IF b = save[p].a THEN (mem'[b].on <=> save[p].on) /\ mem'[b].secret = save[p].secret ELSE mem'[b] = mem[b]
  BY <1>1, <1>5 DEF SaveApply, SettingInv
<1>7. save[p].a \notin save[p].rivals /\ \A b \in Registered : HeldBy(p, b, mem[b])
  BY <1>1 DEF CoherentInv, Settled
<1>8. \A b \in Registered : HeldBy(p, b, mem[b])'
  BY <1>1, <1>4, <1>5, <1>6, <1>7 DEF HeldBy
<1>9. save'[p] # NoSave
  BY <1>4, NoSaveIdle
<1>10. Alone'
  BY <1>3 DEF Alone
<1> QED
  BY <1>3, <1>4, <1>5, <1>7, <1>8, <1>9, <1>10 DEF Settled

\* The rows of the rivals that a save switched off are off.
LEMMA RivalRowsOff ==
  ASSUME SettingInv, NEW rivals, NEW a \in AddonIds
  PROVE  (RivalRows(row, rivals)[a].on <=> row[a].on /\ a \notin rivals) /\ RivalRows(row, rivals)[a].secret = row[a].secret
<1>1. row[a] \in AddonRow
  BY DEF SettingInv
<1>2. RivalRows(row, rivals)[a] = IF a \in rivals THEN [row[a] EXCEPT !.on = FALSE] ELSE row[a]
  BY DEF RivalRows
<1>3. [row[a] EXCEPT !.on = FALSE].on = FALSE /\ [row[a] EXCEPT !.on = FALSE].secret = row[a].secret
  BY <1>1 DEF AddonRow
<1>4. CASE a \in rivals
  BY <1>2, <1>3, <1>4
<1>5. CASE a \notin rivals
  BY <1>2, <1>5
<1> QED
  BY <1>4, <1>5

LEMMA EndCoherent ==
  ASSUME SettingInv, CoherentInv, server = "up", UNCHANGED <<server, loaded>>, NEW p \in Admins,
         SaveCommit(p) \/ SaveRefused(p) \/ SaveLost(p)
  PROVE  CoherentInv'
<1> SUFFICES ASSUME ~mixed', ~troubled' PROVE Settled'
  BY DEF CoherentInv
<1> DEFINE s == save[p]
           after == RivalRows(row, s.rivals)
<1>1. ~mixed /\ ~troubled /\ save[p] # NoSave /\ save' = [save EXCEPT ![p] = NoSave] /\ mem' = mem
  <2>1. CASE SaveCommit(p)
    BY <2>1, NoSaveIdle DEF SaveCommit
  <2>2. CASE SaveRefused(p)
    BY <2>2, NoSaveIdle DEF SaveRefused
  <2>3. CASE SaveLost(p)
    BY <2>3 DEF SaveLost
  <2> QED
    BY <2>1, <2>2, <2>3
<1>2. \A q \in Admins : save'[q] = NoSave
  BY <1>1 DEF CoherentInv, Settled, Alone, SettingInv
<1>3. Registered' = Registered /\ Registered \subseteq AddonIds
  BY DEF Registered, AddonIds
<1>4. s.a \notin s.rivals /\ \A b \in Registered : HeldBy(p, b, mem[b])
  BY <1>1 DEF CoherentInv, Settled
<1>5. \A b \in AddonIds : (after[b].on <=> row[b].on /\ b \notin s.rivals) /\ after[b].secret = row[b].secret
  BY RivalRowsOff
<1>6. Alone'
  BY <1>2 DEF Alone
<1>7. \A b \in Registered : (mem[b].on <=> row'[b].on) /\ mem[b].secret = row'[b].secret
  <2>1. CASE SaveCommit(p)
    <3>1. s.at = "write" /\ after \in [AddonIds -> AddonRow]
          /\ row' = [after EXCEPT ![s.a] = [exists |-> TRUE, on |-> s.on, secret |-> mem[s.a].secret]]
      BY <1>1, <2>1, RivalRowsSound DEF SaveCommit
    <3> HIDE DEF after
    <3>2. ASSUME NEW b \in Registered
          PROVE  IF b = s.a THEN (row'[b].on <=> s.on) /\ row'[b].secret = mem[b].secret ELSE row'[b] = after[b]
      BY <1>3, <3>1
    <3> QED
      BY <1>3, <1>4, <1>5, <3>1, <3>2 DEF HeldBy
  <2>2. CASE SaveRefused(p)
    <3>1. s.at = "check" /\ row' = after
      BY <1>1, <2>2 DEF SaveRefused
    <3> HIDE DEF after
    <3> QED
      BY <1>3, <1>4, <1>5, <3>1 DEF HeldBy
  <2>3. ~SaveLost(p)
    BY DEF SaveLost
  <2> QED
    BY <2>1, <2>2, <2>3
<1> QED
  BY <1>1, <1>2, <1>3, <1>6, <1>7 DEF Settled

LEMMA LoadCoherent ==
  ASSUME SettingInv, server = "starting", UNCHANGED loaded, LoadAddons
  PROVE  CoherentInv'
<1> SUFFICES ASSUME ~troubled' PROVE Settled'
  BY DEF CoherentInv
<1>1. PICK keep \in Repair({a \in Registered : row[a].on}) : \E failed \in SUBSET keep :
        /\ mem' = [a \in AddonIds |-> IF a \notin Registered \/ ~row[a].exists THEN Off
                                      ELSE [on |-> a \in keep \ failed, secret |-> row[a].secret]]
        /\ row' = [a \in AddonIds |-> [row[a] EXCEPT !.on = @ /\ (a \in Registered => a \in keep)]]
        /\ troubled' = (failed # {})
  BY DEF LoadAddons
<1>2. PICK failed \in SUBSET keep :
        /\ mem' = [a \in AddonIds |-> IF a \notin Registered \/ ~row[a].exists THEN Off
                                      ELSE [on |-> a \in keep \ failed, secret |-> row[a].secret]]
        /\ row' = [a \in AddonIds |-> [row[a] EXCEPT !.on = @ /\ (a \in Registered => a \in keep)]]
        /\ troubled' = (failed # {})
  BY <1>1
<1>3. failed = {} /\ keep \subseteq {a \in Registered : row[a].on}
  BY <1>2 DEF Repair
<1>4. Registered' = Registered /\ Registered \subseteq AddonIds
  BY DEF Registered, AddonIds
<1>5. \A p \in Admins : save'[p] = NoSave
  BY DEF SettingInv, LoadAddons
<1>6. ASSUME NEW a \in Registered
      PROVE  (mem'[a].on <=> row'[a].on) /\ mem'[a].secret = row'[a].secret
  <2> DEFINE runs == a \in keep \ failed
             on   == row[a].on /\ (a \in Registered => a \in keep)
  <2>1. row[a] \in AddonRow /\ (~row[a].exists => Blank(row[a])) /\ a \in AddonIds
    BY <1>4 DEF SettingInv
  <2>2. mem'[a] = (IF ~row[a].exists THEN Off ELSE [on |-> runs, secret |-> row[a].secret])
        /\ row'[a] = [row[a] EXCEPT !.on = on]
    BY <1>2, <2>1
  <2>3. (runs <=> row[a].on /\ a \in keep) /\ (on <=> row[a].on /\ a \in keep) /\ on \in BOOLEAN
    BY <1>3
  <2> HIDE DEF runs, on
  <2>4. row'[a].on = on /\ row'[a].secret = row[a].secret
    BY <2>1, <2>2, <2>3, SwitchRow
  <2>5. CASE row[a].exists
    <3>1. mem'[a].on = runs /\ mem'[a].secret = row[a].secret
      BY <2>2, <2>5
    <3> QED
      BY <2>3, <2>4, <3>1
  <2>6. CASE ~row[a].exists
    <3>1. mem'[a].on = FALSE /\ mem'[a].secret = NoSecret
      BY <2>2, <2>6 DEF Off
    <3> QED
      BY <2>1, <2>3, <2>4, <2>6, <3>1 DEF Blank
  <2> QED
    BY <2>5, <2>6
<1>7. Alone'
  BY <1>5 DEF Alone
<1> QED
  BY <1>4, <1>5, <1>6, <1>7 DEF Settled

\* When no save is in progress a restart would change nothing: the registry holds what
\* the table does, for any number of addons and tabs.
THEOREM RegistryIsCoherent == Spec => []Coherent
<1>1. Init => CoherentInv
  <2> SUFFICES ASSUME Init PROVE Settled
    BY DEF CoherentInv
  <2>1. \A p \in Admins : save[p] = NoSave
    BY DEF Init, AddonsInit
  <2>2. \A a \in AddonIds : (mem[a].on <=> row[a].on) /\ mem[a].secret = row[a].secret
    BY DEF Init, AddonsInit
  <2>3. Alone /\ Registered \subseteq AddonIds
    BY <2>1 DEF Alone, Registered, AddonIds
  <2> QED
    BY <2>1, <2>2, <2>3 DEF Settled
<1>2. SettingInv /\ CoherentInv /\ [Next]_vars => CoherentInv'
  <2> SUFFICES ASSUME SettingInv, CoherentInv, [Next]_vars PROVE CoherentInv'
    OBVIOUS
  <2>2. CASE /\ \E p \in shop.admins : SaveStep(p)
             /\ server = "up" /\ UNCHANGED <<server, loaded>>
    <3>1. PICK p \in shop.admins : SaveStep(p)
      BY <2>2
    <3>2. p \in Admins
      BY ShopAssumption DEF SettingInv
    <3>3. CASE SaveApply(p)
      BY <2>2, <3>2, <3>3, ApplyCoherent
    <3>4. CASE SaveCommit(p) \/ SaveRefused(p) \/ SaveLost(p)
      BY <2>2, <3>2, <3>4, EndCoherent
    <3>5. CASE \E a \in shop.addons, on \in BOOLEAN, typed \in Secrets \cup {NoSecret} : SaveBegin(p, a, on, typed)
      <4>1. PICK a \in shop.addons, on \in BOOLEAN, typed \in Secrets \cup {NoSecret} : SaveBegin(p, a, on, typed)
        BY <3>5
      <4> QED
        BY <2>2, <3>2, <4>1, BeginCoherent
    <3> QED
      BY <3>1, <3>3, <3>4, <3>5 DEF SaveStep
  <2>3. CASE UNCHANGED addonVars /\ (server = "up" \/ server' = "up" => UNCHANGED <<server, loaded>>)
    BY <2>3 DEF addonVars, CoherentInv, Settled, Alone, HeldBy, Registered
  <2>4. CASE LoadAddons /\ server = "starting" /\ UNCHANGED loaded
    BY <2>4, LoadCoherent
  <2>5. CASE DropAddons /\ server' = "down"
    BY <2>5 DEF CoherentInv
  <2> QED
    BY <2>2, <2>3, <2>4, <2>5, NextAddons
<1>3. SettingInv /\ CoherentInv => Coherent
  <2> SUFFICES ASSUME SettingInv, CoherentInv, server = "up" /\ ~mixed /\ ~troubled, \A p \in Admins : save[p] = NoSave,
                      NEW a \in Registered
               PROVE  mem[a] = [on |-> row[a].on, secret |-> row[a].secret]
    BY DEF Coherent
  <2>1. a \in AddonIds /\ mem[a] \in Setting /\ row[a] \in AddonRow
    BY DEF Registered, AddonIds, SettingInv
  <2>2. (mem[a].on <=> row[a].on) /\ mem[a].secret = row[a].secret
    BY DEF CoherentInv, Settled
  <2>3. mem[a].on \in BOOLEAN /\ row[a].on \in BOOLEAN
    BY <2>1 DEF Setting, AddonRow
  <2>4. mem[a].on = row[a].on
    BY <2>2, <2>3
  <2>5. mem[a] = [on |-> mem[a].on, secret |-> mem[a].secret]
    BY <2>1 DEF Setting
  <2> QED
    BY <2>2, <2>4, <2>5
<1> QED
  BY <1>1, <1>2, <1>3, SettingStart, SettingStep, PTL DEF Spec
=============================================================================
