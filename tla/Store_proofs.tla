---------------------------- MODULE Store_proofs ----------------------------
(***************************************************************************)
(* Proofs about the parts that one server serves: archives of addons, the  *)
(* suppliers of a paid order, the webhook receiver, images, and sessions   *)
(* on D1.  Each part has an inductive invariant of its own, which its      *)
(* steps and the end of the process keep and the steps of the other parts  *)
(* leave alone.  The last section puts the types of all parts together.    *)
(***************************************************************************)
EXTENDS Server_proofs, Cart_proofs, Shelves_proofs

-----------------------------------------------------------------------------
(* Archives *)

LEMMA NextArchives ==
  [Next]_vars => UNCHANGED archiveVars \/ ArchivesStep \/ UNCHANGED package
BY DEF Next, vars, Requests, Served, DropRequests, Discover

\* A package is what the check accepted: one class, of the place it is in.
PlacedInv ==
  /\ DOMAIN package = Places
  /\ \A p \in Places : package[p] = NoPackage \/ package[p].classes = <<p>>

LEMMA InstallPlaced ==
  ASSUME PlacedInv, NEW a, NEW force, NEW url, Install(a, force, url)
  PROVE  PlacedInv'
<1> DEFINE p == <<a.cat, a.id>>
           after == [there |-> TRUE, classes |-> a.classes, init |-> a.init,
                   url |-> IF url = NoUrl THEN a.url ELSE url]
<1>1. after.classes = <<p>>
  BY DEF Install, Accepted, ClassVerified
<1>2. package' = [package EXCEPT ![p] = after]
  BY DEF Install
<1> HIDE DEF after, p
<1>3. DOMAIN package' = Places /\ \A q \in Places : package'[q] = IF q = p THEN after ELSE package[q]
  BY <1>2 DEF PlacedInv
<1> QED
  BY <1>1, <1>3 DEF PlacedInv

LEMMA PlacedAlways == Spec => []PlacedInv
<1>1. Init => PlacedInv
  BY DEF Init, ArchivesInit, PlacedInv
<1>2. PlacedInv /\ [Next]_vars => PlacedInv'
  <2> SUFFICES ASSUME PlacedInv, [Next]_vars PROVE PlacedInv'
    OBVIOUS
  <2>1. CASE UNCHANGED package
    BY <2>1 DEF PlacedInv
  <2>2. CASE ArchivesStep
    <3>1. PICK a, force, url : Install(a, force, url)
      BY <2>2 DEF ArchivesStep, InstallFromUrl, Update
    <3> QED
      BY <3>1, InstallPlaced
  <2> QED
    BY <2>1, <2>2, NextArchives DEF archiveVars
<1> QED
  BY <1>1, <1>2, PTL DEF Spec

\* Every package in place is registered by the next start under its own category, for
\* whatever archives were offered, installed and updated, from whatever URLs.
THEOREM PackagesRegister == Spec => []InstalledRegisters
<1>1. PlacedInv => InstalledRegisters
  <2> SUFFICES ASSUME PlacedInv, NEW p \in InPlace, p[2] \notin Underscored,
                      \A k \in Discovered : k[2] = p[2] => k[1] = p[1], NEW r \in Registrations
               PROVE  r[p[2]] = p[1]
    BY DEF InstalledRegisters
  <2>1. p \in Places /\ p[2] \in Ids /\ package[p].classes = <<p>>
    BY DEF InPlace, Places, PlacedInv
  <2>2. DOMAIN <<p>> = {1} /\ <<p>>[1] = p
    OBVIOUS
  <2>3. p \in ClassesIn(package[p].classes)
    BY <2>1, <2>2 DEF ClassesIn
  <2>4. p \in Discovered
    BY <2>3 DEF Discovered
  <2> DEFINE known == {k[1] : k \in {k \in Discovered : k[2] = p[2]}}
  <2>5. p[1] \in known
    BY <2>4
  <2>6. r[p[2]] \in known
    BY <2>1, <2>5 DEF Registrations
  <2> QED
    BY <2>6
<1> QED
  BY <1>1, PlacedAlways, PTL

-----------------------------------------------------------------------------
(* The suppliers of a paid order *)

LEMMA NextFulfil ==
  [Next]_vars => UNCHANGED shop /\ (UNCHANGED fulfilVars \/ FulfilStep \/ DropPayers)
BY DEF Next, vars, Requests, Served, DropRequests

PayState == [at : {"none", "read", "asking"}, todo : SUBSET Makers, record : [Makers -> Outcomes]]

PayTypes ==
  /\ shop \in Shops
  /\ supplier \subseteq Makers
  /\ parcel \in [paid : BOOLEAN, record : [Makers -> Outcomes]]
  /\ paying \in [Payers -> PayState]
  /\ placed \in [Makers -> Nat]

Resting == \A p \in Payers : paying[p].at = "none"

\* The outcome of a group tells how often its supplier has accepted it.
Told(outcome, n) == outcome \in {"ok", "failed"} /\ n = IF outcome = "ok" THEN 1 ELSE 0

\* Nothing is recorded or placed before the request that pays.
Untouched == \A g \in Makers : parcel.record[g] = "none" /\ placed[g] = 0

\* The request has an outcome of exactly the groups it is done with.
Half(p) ==
  /\ \A g \in Makers : parcel.record[g] = "none"
  /\ \A g \in paying[p].todo : paying[p].record[g] = "none" /\ placed[g] = 0
  /\ \A g \in Makers \ paying[p].todo : Told(paying[p].record[g], placed[g])
  /\ paying[p].at = "read" => paying[p].todo = Makers /\ ~parcel.paid

PayInv ==
  ~blurred =>
    /\ \A p, q \in Payers : paying[p].at # "none" /\ paying[q].at # "none" => p = q
    /\ \A p \in Payers : paying[p].at # "none" => Half(p)
    /\ Resting /\ ~parcel.paid => Untouched
    /\ Resting /\ parcel.paid => \A g \in Makers : Told(parcel.record[g], placed[g])

LEMMA NoPayingState == NoPaying \in PayState /\ NoPaying.at = "none"
BY DEF NoPaying, PayState, Outcomes

\* The outcome of one group.
LEMMA GroupPays ==
  ASSUME PayTypes, PayInv, UNCHANGED shop, NEW p \in Payers, NEW g \in paying[p].todo, paying[p].at = "asking",
         SkipGroup(p, g) \/ RefuseGroup(p, g) \/ SendGroup(p, g) \/ SendGroupWithUpdates(p, g) \/ LoseGroup(p, g)
  PROVE  PayTypes' /\ PayInv'
<1>1. paying[p] \in PayState /\ g \in Makers
  BY DEF PayTypes, PayState
<1>2. CASE SkipGroup(p, g)
  <2>1. /\ paying' = [paying EXCEPT ![p].todo = @ \ {g}] /\ paying[p].record[g] = "ok"
        /\ UNCHANGED <<supplier, parcel, placed, blurred>>
    BY <1>2 DEF SkipGroup
  <2>2. paying' \in [Payers -> PayState]
    BY <1>1, <2>1 DEF PayTypes, PayState
  <2>3. blurred
    BY <1>1, <2>1 DEF PayInv, Half
  <2> QED
    BY <2>1, <2>2, <2>3 DEF PayTypes, PayInv
<1>3. CASE ~SkipGroup(p, g)
  <2>1. PICK outcome \in {"ok", "failed"} :
          /\ GroupEnds(p, g, outcome)
          /\ placed' = placed \/ placed' = [placed EXCEPT ![g] = @ + 1]
          /\ ~blurred' => ~blurred /\ placed' = IF outcome = "ok" THEN [placed EXCEPT ![g] = @ + 1] ELSE placed
    BY <1>3 DEF RefuseGroup, SendGroup, SendGroupWithUpdates, LoseGroup
  <2>2. supplier' = supplier /\ (parcel' = parcel \/ parcel' = [parcel EXCEPT !.paid = TRUE])
    BY <1>3 DEF RefuseGroup, SendGroup, SendGroupWithUpdates, LoseGroup
  <2>3. parcel' \in [paid : BOOLEAN, record : [Makers -> Outcomes]] /\ parcel'.record = parcel.record
    BY <2>2 DEF PayTypes
  <2> DEFINE after == [paying[p] EXCEPT !.todo = @ \ {g}, !.record = [@ EXCEPT ![g] = outcome]]
  <2>4. paying' = [paying EXCEPT ![p] = after]
    BY <2>1 DEF GroupEnds, Noted, PayTypes
  <2>5. /\ after \in PayState /\ after.at = "asking" /\ after.todo = paying[p].todo \ {g} /\ after.record[g] = outcome
        /\ \A x \in Makers \ {g} : after.record[x] = paying[p].record[x]
    BY <1>1 DEF PayState, Outcomes
  <2> HIDE DEF after
  <2>6. paying' \in [Payers -> PayState] /\ paying'[p] = after /\ \A q \in Payers \ {p} : paying'[q] = paying[q]
    BY <2>4, <2>5 DEF PayTypes
  <2>7. placed' \in [Makers -> Nat]
    BY <1>1, <2>1 DEF PayTypes
  <2>8. PayTypes'
    BY <2>2, <2>3, <2>6, <2>7 DEF PayTypes
  <2>9. ASSUME ~blurred' PROVE Half(p)'
    <3>1. ~blurred /\ Half(p) /\ placed \in [Makers -> Nat]
      BY <2>1, <2>9 DEF PayInv, PayTypes
    <3>2. placed'[g] = (IF outcome = "ok" THEN 1 ELSE 0) /\ \A x \in Makers \ {g} : placed'[x] = placed[x]
      BY <1>1, <2>1, <2>9, <3>1 DEF Half
    <3>3. \A x \in Makers : parcel'.record[x] = "none"
      BY <2>3, <3>1 DEF Half
    <3>4. \A x \in paying'[p].todo : paying'[p].record[x] = "none" /\ placed'[x] = 0
      BY <1>1, <2>5, <2>6, <3>1, <3>2 DEF Half, PayState
    <3>5. \A x \in Makers \ paying'[p].todo : Told(paying'[p].record[x], placed'[x])
      BY <2>1, <2>5, <2>6, <3>1, <3>2 DEF Half, Told
    <3> QED
      BY <2>5, <2>6, <3>3, <3>4, <3>5 DEF Half
  <2>10. ~blurred' => \A q \in Payers : paying'[q].at # "none" => q = p
    BY <2>1, <2>6 DEF PayInv
  <2>11. ~Resting'
    BY <2>5, <2>6 DEF Resting
  <2> QED
    BY <2>8, <2>9, <2>10, <2>11 DEF PayInv
<1> QED
  BY <1>2, <1>3

\* A request that ends, with the order paid or not.
LEMMA PayerEnds ==
  ASSUME PayTypes, PayInv, UNCHANGED shop, NEW p \in Payers, PayEnd(p) \/ FulfilAborts(p) \/ PayFails(p)
  PROVE  PayTypes' /\ PayInv'
<1>1. paying[p].at # "none" /\ paying' = [paying EXCEPT ![p] = NoPaying] /\ UNCHANGED <<supplier, placed>>
  BY DEF PayEnd, FulfilAborts, PayFails
<1>2. /\ paying' \in [Payers -> PayState] /\ paying'[p] = NoPaying
      /\ \A q \in Payers \ {p} : paying'[q] = paying[q]
  BY <1>1, NoPayingState DEF PayTypes
<1>3. parcel' \in [paid : BOOLEAN, record : [Makers -> Outcomes]]
  <2>1. paying[p].record \in [Makers -> Outcomes]
    BY DEF PayTypes, PayState
  <2>2. \/ parcel' = [paid |-> TRUE, record |-> paying[p].record]
        \/ parcel' = [parcel EXCEPT !.paid = TRUE] \/ parcel' = parcel
    BY DEF PayEnd, FulfilAborts, PayFails
  <2>3. CASE parcel' = [paid |-> TRUE, record |-> paying[p].record]
    BY <2>1, <2>3
  <2>4. CASE parcel' = [parcel EXCEPT !.paid = TRUE] \/ parcel' = parcel
    BY <2>4 DEF PayTypes
  <2> QED
    BY <2>2, <2>3, <2>4
<1>4. PayTypes'
  BY <1>1, <1>2, <1>3 DEF PayTypes
<1>5. ASSUME ~blurred'
      PROVE  ~blurred /\ Half(p) /\ Resting'
  <2>1. ~blurred
    BY <1>5 DEF PayEnd, FulfilAborts, PayFails
  <2> QED
    BY <1>1, <1>2, <2>1, NoPayingState DEF PayInv, Resting
<1>6. CASE PayEnd(p)
  <2>1. parcel'.paid = TRUE /\ parcel'.record = paying[p].record /\ paying[p].todo = {}
    BY <1>6 DEF PayEnd
  <2> QED
    BY <1>1, <1>4, <1>5, <2>1 DEF PayInv, Half, Resting
<1>7. CASE FulfilAborts(p)
  BY <1>4, <1>7 DEF FulfilAborts, PayInv
<1>8. CASE PayFails(p)
  <2>1. ~blurred' => paying[p].at = "read" /\ parcel' = parcel
    BY <1>1, <1>8 DEF PayFails, PayTypes, PayState
  <2> QED
    BY <1>1, <1>4, <1>5, <2>1 DEF PayInv, Half, Resting, Untouched
<1> QED
  BY <1>6, <1>7, <1>8

LEMMA PayerBegins ==
  ASSUME PayTypes, PayInv, UNCHANGED shop, NEW p \in Payers, PayRead(p) \/ PayBegin(p)
  PROVE  PayTypes' /\ PayInv'
<1>1. UNCHANGED <<supplier, parcel, placed>>
  BY DEF PayRead, PayBegin
<1>2. CASE PayRead(p)
  <2> DEFINE after == [at |-> "read", todo |-> Makers, record |-> parcel.record]
  <2>1. after \in PayState /\ after.at = "read" /\ after.todo = Makers /\ after.record = parcel.record
    BY DEF PayTypes, PayState
  <2>2. paying' = [paying EXCEPT ![p] = after] /\ ~parcel.paid /\ paying[p].at = "none"
    BY <1>2 DEF PayRead
  <2> HIDE DEF after
  <2>3. /\ paying' \in [Payers -> PayState] /\ paying'[p] = after
        /\ \A q \in Payers \ {p} : paying'[q] = paying[q]
    BY <2>1, <2>2 DEF PayTypes
  <2>4. ~blurred' => ~blurred /\ Resting
    BY <1>2 DEF PayRead, Resting
  <2>5. ~blurred' => Half(p)'
    BY <1>1, <2>1, <2>2, <2>3, <2>4 DEF PayInv, Half, Untouched
  <2>6. ~Resting' /\ (~blurred' => \A q \in Payers \ {p} : paying'[q].at = "none")
    BY <2>1, <2>3, <2>4 DEF Resting
  <2> QED
    BY <1>1, <2>3, <2>5, <2>6 DEF PayInv, PayTypes
<1>3. CASE PayBegin(p)
  <2>1. /\ paying' = [paying EXCEPT ![p].at = "asking"] /\ blurred' = blurred
        /\ paying[p].at = "read" /\ paying[p] \in PayState
    BY <1>3 DEF PayBegin, PayTypes
  <2>2. /\ paying' \in [Payers -> PayState] /\ paying'[p].at = "asking"
        /\ paying'[p].todo = paying[p].todo /\ paying'[p].record = paying[p].record
        /\ \A q \in Payers \ {p} : paying'[q] = paying[q]
    BY <2>1 DEF PayTypes, PayState
  <2>3. ~blurred' => Half(p)'
    BY <1>1, <2>1, <2>2 DEF PayInv, Half
  <2>4. ~Resting' /\ (~blurred' => \A q \in Payers \ {p} : paying'[q].at = "none")
    BY <2>1, <2>2 DEF Resting, PayInv
  <2> QED
    BY <1>1, <2>2, <2>3, <2>4 DEF PayInv, PayTypes
<1> QED
  BY <1>2, <1>3

LEMMA PayersDrop ==
  ASSUME PayTypes, PayInv, UNCHANGED shop, DropPayers
  PROVE  PayTypes' /\ PayInv'
<1>1. /\ paying' \in [Payers -> PayState] /\ (\A p \in Payers : paying'[p].at = "none")
      /\ UNCHANGED <<supplier, parcel, placed>>
  BY NoPayingState DEF DropPayers
<1>2. ASSUME ~blurred', NEW p \in Payers, paying[p].at # "none"
      PROVE  ~blurred /\ Untouched /\ ~parcel.paid
  <2>1. ~blurred /\ paying[p].at = "read"
    BY <1>2 DEF DropPayers, PayTypes, PayState
  <2> QED
    BY <1>2, <2>1 DEF PayInv, Half, Untouched
<1>3. ~blurred' => ~blurred
  BY DEF DropPayers
<1> QED
  BY <1>1, <1>2, <1>3 DEF PayTypes, PayInv, Resting, Untouched

LEMMA PayStep ==
  ASSUME PayTypes, PayInv, [Next]_vars
  PROVE  PayTypes' /\ PayInv'
<1>1. UNCHANGED shop /\ (UNCHANGED fulfilVars \/ FulfilStep \/ DropPayers)
  BY NextFulfil
<1>2. CASE UNCHANGED fulfilVars
  BY <1>1, <1>2 DEF fulfilVars, PayTypes, PayInv, Resting, Untouched, Half
<1>3. CASE DropPayers
  BY <1>1, <1>3, PayersDrop
<1>4. CASE FulfilStep
  <2>1. CASE \E g \in Makers : /\ shop.payers # {} /\ (DefineSupplier(g) \/ RemoveSupplier(g))
                               /\ UNCHANGED <<parcel, paying, placed, blurred, faults>>
    <3>1. supplier' \subseteq Makers /\ UNCHANGED <<parcel, paying, placed, blurred>>
      BY <2>1 DEF DefineSupplier, RemoveSupplier, PayTypes
    <3> QED
      BY <1>1, <3>1 DEF PayTypes, PayInv, Resting, Untouched, Half
  <2>2. ASSUME NEW p \in Payers,
               \/ PayRead(p) \/ PayBegin(p)
               \/ paying[p].at = "asking" /\ \E g \in paying[p].todo :
                    SkipGroup(p, g) \/ RefuseGroup(p, g) \/ SendGroup(p, g) \/ SendGroupWithUpdates(p, g) \/ LoseGroup(p, g)
               \/ PayEnd(p) \/ FulfilAborts(p) \/ PayFails(p)
        PROVE  PayTypes' /\ PayInv'
    <3>1. CASE PayRead(p) \/ PayBegin(p)
      BY <1>1, <3>1, PayerBegins
    <3>2. CASE PayEnd(p) \/ FulfilAborts(p) \/ PayFails(p)
      BY <1>1, <3>2, PayerEnds
    <3>3. CASE paying[p].at = "asking" /\ \E g \in paying[p].todo :
                 SkipGroup(p, g) \/ RefuseGroup(p, g) \/ SendGroup(p, g) \/ SendGroupWithUpdates(p, g) \/ LoseGroup(p, g)
      BY <1>1, <3>3, GroupPays
    <3> QED
      BY <2>2, <3>1, <3>2, <3>3
  <2>3. shop.payers \subseteq Payers
    BY ShopAssumption DEF PayTypes
  <2> QED
    BY <1>4, <2>1, <2>2, <2>3 DEF FulfilStep
<1> QED
  BY <1>1, <1>2, <1>3, <1>4

LEMMA PayAlways == Spec => [](PayTypes /\ PayInv)
<1>1. Init => PayTypes /\ PayInv
  <2> SUFFICES ASSUME Init PROVE PayTypes /\ PayInv
    OBVIOUS
  <2>1. /\ shop \in Shops /\ supplier = {} /\ parcel = [paid |-> FALSE, record |-> NoPaying.record]
        /\ paying = [p \in Payers |-> NoPaying] /\ placed = [g \in Makers |-> 0]
    BY DEF Init, FulfilInit
  <2>2. NoPaying.record = [g \in Makers |-> "none"] /\ NoPaying.record \in [Makers -> Outcomes]
    BY DEF NoPaying, Outcomes
  <2>3. PayTypes
    BY <2>1, <2>2, NoPayingState DEF PayTypes
  <2>4. Resting /\ Untouched /\ ~parcel.paid
    BY <2>1, <2>2, NoPayingState DEF Resting, Untouched
  <2> QED
    BY <2>3, <2>4 DEF PayInv, Resting
<1>2. PayTypes /\ PayInv /\ [Next]_vars => PayTypes' /\ PayInv'
  BY PayStep
<1> QED
  BY <1>1, <1>2, PTL DEF Spec

\* A paid order tells of every group what its supplier did with it, for any number of
\* suppliers and requests, while addons and suppliers come and go between the calls.
THEOREM GroupsAreRecorded == Spec => []GroupsRecorded
<1>1. PayTypes /\ PayInv => GroupsRecorded
  BY DEF PayInv, GroupsRecorded, Resting, Told
<1> QED
  BY <1>1, PayAlways, PTL

-----------------------------------------------------------------------------
(* The webhook receiver *)

LEMMA NextWebhooks ==
  [Next]_vars => UNCHANGED shop /\ (UNCHANGED webhookVars \/ WebhooksStep \/ DropHooks)
BY DEF Next, vars, Requests, Served, DropRequests

HookRow  == [exists : BOOLEAN, enabled : BOOLEAN, secret : Nat]
HookBusy == [op : {"save", "reveal", "record"}, row : HookRow, to : HookRow]

\* A request keeps the secret of the row it read, unless it makes a new one, which
\* no row has had.
HookSound(h) ==
  /\ hook[h] \in HookBusy /\ hook[h].row.secret <= made
  /\ hook[h].op # "reveal" => hook[h].to.secret = hook[h].row.secret

\* On D1 a request that met no other has read the secret that is in the row.
HookInv ==
  /\ shop \in Shops
  /\ endpoint \in HookRow /\ made \in Nat /\ shown \in Nat
  /\ endpoint.secret <= made /\ shown <= made
  /\ hook \in [Hooks -> HookBusy \cup {NoHook}]
  /\ \A h \in Hooks : hook[h] # NoHook => HookSound(h)
  /\ ~crowded => \A h, k \in Hooks : hook[h] # NoHook /\ hook[k] # NoHook => h = k
  /\ shop.backend = "d1" /\ ~crowded =>
       \A h \in Hooks : hook[h] # NoHook => hook[h].row.secret = endpoint.secret
  /\ SecretIsShown

LEMMA HookBeginInv ==
  ASSUME HookInv, UNCHANGED shop, NEW h \in Hooks, NEW op \in {"save", "reveal", "record"},
         NEW to \in HookRow, op # "reveal" => to.secret = endpoint.secret, HookBegin(h, op, to)
  PROVE  HookInv'
<1> DEFINE busy == [op |-> op, row |-> endpoint, to |-> [to EXCEPT !.exists = TRUE]]
<1>1. hook[h] = NoHook /\ hook' = [hook EXCEPT ![h] = busy] /\ UNCHANGED <<made, shown>>
  BY DEF HookBegin
<1>2. busy \in HookBusy /\ busy # NoHook /\ busy.row.secret = endpoint.secret
      /\ (op # "reveal" => busy.to.secret = busy.row.secret) /\ busy.op = op
  BY DEF HookInv, HookBusy, HookRow, NoHook
<1>3. endpoint' \in HookRow /\ endpoint'.secret = endpoint.secret
  BY DEF HookBegin, HookInv, HookRow
<1> HIDE DEF busy
<1>4. hook'[h] = busy /\ (\A k \in Hooks \ {h} : hook'[k] = hook[k]) /\ hook' \in [Hooks -> HookBusy \cup {NoHook}]
  BY <1>1, <1>2 DEF HookInv
<1>5. \A k \in Hooks : hook'[k] # NoHook => HookSound(k)'
  BY <1>1, <1>2, <1>4 DEF HookInv, HookSound
<1>6. ~crowded' => ~crowded /\ \A k \in Hooks : hook[k] = NoHook
  BY DEF HookBegin
<1> QED
  BY <1>1, <1>2, <1>3, <1>4, <1>5, <1>6 DEF HookInv, SecretIsShown

LEMMA HookWriteInv ==
  ASSUME HookInv, UNCHANGED shop, NEW h \in Hooks, HookWrite(h)
  PROVE  HookInv'
<1> DEFINE reveals == hook[h].op = "reveal"
           to == IF reveals THEN [hook[h].to EXCEPT !.secret = made + 1] ELSE hook[h].to
<1>1. hook[h] # NoHook /\ HookSound(h)
  BY DEF HookWrite, HookInv
<1>2. /\ made' = (IF reveals THEN made + 1 ELSE made) /\ shown' = (IF reveals THEN made + 1 ELSE shown)
      /\ endpoint' = Written(hook[h].row, to) /\ hook' = [hook EXCEPT ![h] = NoHook] /\ crowded' = crowded
  BY DEF HookWrite
<1>3. to \in HookRow /\ to.secret = IF reveals THEN made + 1 ELSE hook[h].row.secret
  BY <1>1 DEF HookSound, HookBusy, HookRow, HookInv
<1>4. hook[h].row \in HookRow /\ hook[h].row.secret <= made
  BY <1>1 DEF HookSound, HookBusy
<1> HIDE DEF to
<1>5. /\ endpoint' \in HookRow
      /\ endpoint'.secret = IF shop.backend = "d1" \/ to.secret # hook[h].row.secret THEN to.secret ELSE endpoint.secret
  BY <1>2, <1>3, <1>4 DEF Written, HookRow, HookInv
<1>6. made \in Nat /\ shown \in Nat /\ shown <= made /\ endpoint.secret <= made /\ endpoint.secret \in Nat
  BY DEF HookInv, HookRow
<1>7. made' \in Nat /\ shown' \in Nat /\ shown' <= made' /\ endpoint'.secret <= made' /\ made <= made'
  BY <1>2, <1>3, <1>4, <1>5, <1>6 DEF HookRow
<1>8. SecretIsShown'
  <2>1. shop.backend = "sqlite" \/ shop.backend = "d1"
    BY ShopAssumption DEF HookInv
  <2>2. CASE shop.backend = "sqlite"
    BY <1>2, <1>3, <1>4, <1>5, <1>6, <2>2 DEF HookInv, SecretIsShown, HookRow
  <2>3. CASE shop.backend = "d1"
    BY <1>1, <1>2, <1>3, <1>5, <2>3 DEF HookInv, SecretIsShown
  <2> QED
    BY <2>1, <2>2, <2>3
<1>9. /\ hook' \in [Hooks -> HookBusy \cup {NoHook}]
      /\ \A k \in Hooks : hook'[k] # NoHook => hook[k] # NoHook /\ k # h /\ hook'[k] = hook[k]
  BY <1>2 DEF HookInv
<1>10. \A k \in Hooks : hook'[k] # NoHook => HookSound(k)'
  <2> SUFFICES ASSUME NEW k \in Hooks, hook'[k] # NoHook PROVE HookSound(k)'
    OBVIOUS
  <2>1. HookSound(k) /\ hook'[k] = hook[k]
    BY <1>9 DEF HookInv
  <2> QED
    BY <1>6, <1>7, <2>1 DEF HookSound, HookBusy, HookRow
<1>11. ~crowded' => \A k \in Hooks : hook'[k] = NoHook
  BY <1>1, <1>2, <1>9 DEF HookInv
<1> QED
  BY <1>5, <1>7, <1>8, <1>9, <1>10, <1>11 DEF HookInv

LEMMA HookDropInv ==
  ASSUME HookInv, UNCHANGED <<shop, endpoint, made, shown, crowded>>,
         hook' \in [Hooks -> HookBusy \cup {NoHook}], \A h \in Hooks : hook'[h] \in {hook[h], NoHook}
  PROVE  HookInv'
BY DEF HookInv, HookSound, SecretIsShown

LEMMA HookAlways == Spec => []HookInv
<1>1. Init => HookInv
  BY DEF Init, WebhooksInit, HookInv, HookRow, NoEndpoint, SecretIsShown
<1>2. HookInv /\ [Next]_vars => HookInv'
  <2> SUFFICES ASSUME HookInv, [Next]_vars PROVE HookInv'
    OBVIOUS
  <2>1. UNCHANGED shop /\ (UNCHANGED webhookVars \/ WebhooksStep \/ DropHooks)
    BY NextWebhooks
  <2>2. CASE UNCHANGED webhookVars
    BY <2>1, <2>2 DEF webhookVars, HookInv, HookSound, SecretIsShown
  <2>3. CASE DropHooks
    BY <2>1, <2>3, HookDropInv DEF DropHooks
  <2>4. CASE WebhooksStep
    <3>1. PICK h \in shop.hooks : SaveHook(h) \/ RotateHook(h) \/ Emit(h) \/ HookWrite(h) \/ HookFails(h)
      BY <2>4 DEF WebhooksStep
    <3>2. h \in Hooks
      BY ShopAssumption DEF HookInv
    <3>3. CASE SaveHook(h)
      <4>1. PICK enabled \in BOOLEAN :
              HookBegin(h, IF endpoint.secret = 0 THEN "reveal" ELSE "save", [endpoint EXCEPT !.enabled = enabled])
        BY <3>3 DEF SaveHook
      <4>2. [endpoint EXCEPT !.enabled = enabled] \in HookRow /\ [endpoint EXCEPT !.enabled = enabled].secret = endpoint.secret
        BY DEF HookInv, HookRow
      <4> QED
        BY <2>1, <3>2, <4>1, <4>2, HookBeginInv
    <3>4. CASE RotateHook(h) \/ Emit(h)
      <4>1. endpoint \in HookRow
        BY DEF HookInv
      <4> QED
        BY <2>1, <3>2, <3>4, <4>1, HookBeginInv DEF RotateHook, Emit
    <3>5. CASE HookWrite(h)
      BY <2>1, <3>2, <3>5, HookWriteInv
    <3>6. CASE HookFails(h)
      BY <2>1, <3>2, <3>6, HookDropInv DEF HookFails, HookInv
    <3> QED
      BY <3>1, <3>3, <3>4, <3>5, <3>6
  <2> QED
    BY <2>1, <2>2, <2>3, <2>4
<1> QED
  BY <1>1, <1>2, PTL DEF Spec

\* Deliveries are signed with the secret shown last, for any number of requests: on
\* SQLite whatever overlaps, on D1 while nothing has.
THEOREM SignedAsShown == Spec => []SecretIsShown
<1>1. HookInv => SecretIsShown
  BY DEF HookInv
<1> QED
  BY <1>1, HookAlways, PTL

-----------------------------------------------------------------------------
(* Images *)

LEMMA NextMedia ==
  [Next]_vars => UNCHANGED shop /\ (UNCHANGED mediaVars \/ MediaStep \/ DropEdits)
BY DEF Next, vars, Requests, Served, DropRequests

EditState == [op : {"none", "store", "import", "delete"}, a : Assets \cup {"none"}, todo : SUBSET (Assets \X Sizes),
              next : SUBSET Images, flushed : SUBSET Images]

\* What a request will write rows of: on D1 a flushed row is there already.
Kept(backend, e)   == IF backend = "d1" THEN {} ELSE e.flushed
Unborn(backend, e) == e.next \cup Kept(backend, e) \cup (IF e.op \in {"store", "import"} THEN {e.a} \ {Logo, "none"} ELSE {})

\* What a request of each kind has at hand.
Shaped(e) ==
  /\ e.op = "none" => e.a = "none"
  /\ e.op \in {"store", "delete"} => e.a # "none"
  /\ e.op = "import" => e.a # Logo
  /\ e.todo \subseteq IF e.a = "none" THEN {} ELSE Files(e.a)

MediaTypes ==
  /\ shop \in Shops
  /\ rows \subseteq Assets /\ fresh \subseteq Images
  /\ edit \in [Editors -> EditState]
  /\ \A p \in Editors : Shaped(edit[p])

\* An image that has no row yet is one request's, or nobody's.
ApartInv ==
  /\ \A p \in Editors : /\ edit[p].next \cap Kept(shop.backend, edit[p]) = {}
                        /\ edit[p].op = "import" => edit[p].a \notin edit[p].next \cup Kept(shop.backend, edit[p])
                        /\ Unborn(shop.backend, edit[p]) \cap (fresh \cup rows) = {}
  /\ fresh \cap rows = {}
  /\ \A p, q \in Editors : edit[p].op = "delete" => edit[p].a \notin Unborn(shop.backend, edit[q]) \cup fresh
  /\ \A p, q \in Editors : p # q => /\ Unborn(shop.backend, edit[p]) \cap Unborn(shop.backend, edit[q]) = {}
                                    /\ edit[p].a = edit[q].a => edit[p].a \in spoilt \cup {"none"}

\* What a request has stored so far is there until its row is.
StoredInv ==
  /\ \A p \in Editors : edit[p].op \in {"store", "import"} /\ edit[p].a \notin spoilt \cup {"none"} =>
       Files(edit[p].a) \ edit[p].todo \subseteq files
  /\ \A p \in Editors : \A x \in Kept(shop.backend, edit[p]) \ spoilt : Files(x) \subseteq files
  /\ MediaServed

LEMMA FilesApart ==
  /\ \A a \in Assets : Files(a) \subseteq Assets \X Sizes
  /\ \A a, b \in Assets : a # b => Files(a) \cap Files(b) = {}
<1>1. (CHOOSE s \in Sizes : TRUE) \in Sizes
  BY MediaAssumption
<1>2. ASSUME NEW a \in Assets PROVE \A f \in Files(a) : f \in Assets \X Sizes /\ f[1] = a
  BY <1>1 DEF Files, Assets
<1> QED
  BY <1>2

\* A request that moves on: what it will store it had, or takes from what nobody has.
LEMMA EditorMoves ==
  ASSUME MediaTypes, ApartInv, UNCHANGED shop, NEW p \in Editors, NEW e \in EditState,
         edit' = [edit EXCEPT ![p] = e], fresh' \subseteq fresh, spoilt \subseteq spoilt',
         Shaped(e),
         e.next \cap Kept(shop.backend, e) = {}, e.op = "import" => e.a \notin e.next \cup Kept(shop.backend, e),
         Unborn(shop.backend, e) \subseteq Unborn(shop.backend, edit[p]) \cup (fresh \ fresh'),
         rows' \subseteq rows \cup (Unborn(shop.backend, edit[p]) \ Unborn(shop.backend, e)) \cup {Logo},
         e.op = "delete" => e.a \in rows \/ (edit[p].op = "delete" /\ e.a = edit[p].a),
         \/ e.a \in {edit[p].a, "none"} \cup spoilt'
         \/ \A q \in Editors \ {p} : edit[q].a # e.a
  PROVE  MediaTypes' /\ ApartInv'
<1>1. edit'[p] = e /\ (\A q \in Editors \ {p} : edit'[q] = edit[q]) /\ edit' \in [Editors -> EditState]
  BY DEF MediaTypes
<1>2. \A q \in Editors : edit[q] \in EditState /\ Unborn(shop.backend, edit[q]) \subseteq Images
  BY DEF MediaTypes, EditState, Unborn, Kept, Assets
<1>3. Logo \notin Images /\ Images \subseteq Assets /\ Logo \in Assets
  BY MediaAssumption DEF Assets
<1>4. rows' \subseteq Assets /\ fresh' \subseteq Images
  BY <1>2, <1>3 DEF MediaTypes
<1>5. MediaTypes'
  BY <1>1, <1>4 DEF MediaTypes
<1>6. shop'.backend = shop.backend
  OBVIOUS
<1>7. \A q \in Editors : /\ edit'[q].next \cap Kept(shop.backend, edit'[q]) = {}
                         /\ edit'[q].op = "import" => edit'[q].a \notin edit'[q].next \cup Kept(shop.backend, edit'[q])
  BY <1>1 DEF ApartInv
<1>8. fresh' \cap rows' = {}
  BY <1>2, <1>3 DEF ApartInv, MediaTypes
<1>9. \A q \in Editors : Unborn(shop.backend, edit'[q]) \cap (fresh' \cup rows') = {}
  <2>1. Unborn(shop.backend, e) \cap (fresh' \cup rows') = {}
    BY <1>2, <1>3 DEF ApartInv, MediaTypes
  <2>2. \A q \in Editors \ {p} : Unborn(shop.backend, edit[q]) \cap (fresh' \cup rows') = {}
    BY <1>2, <1>3 DEF ApartInv, MediaTypes
  <2> QED
    BY <1>1, <2>1, <2>2
<1>10. \A q, r \in Editors : q # r => Unborn(shop.backend, edit'[q]) \cap Unborn(shop.backend, edit'[r]) = {}
  <2>1. \A q \in Editors \ {p} : Unborn(shop.backend, edit[q]) \cap Unborn(shop.backend, e) = {}
    BY DEF ApartInv
  <2>2. \A q, r \in Editors : q # r => Unborn(shop.backend, edit[q]) \cap Unborn(shop.backend, edit[r]) = {}
    BY DEF ApartInv
  <2> QED
    BY <1>1, <2>1, <2>2
<1>11. \A q, r \in Editors : edit'[q].op = "delete" => edit'[q].a \notin Unborn(shop.backend, edit'[r]) \cup fresh'
  <2>1. \A q, r \in Editors : edit[q].op = "delete" => edit[q].a \notin Unborn(shop.backend, edit[r]) \cup fresh
    BY DEF ApartInv
  <2>2. \A q \in Editors : edit[q].op = "delete" => edit[q].a \notin Unborn(shop.backend, e) \cup fresh'
    BY <2>1
  <2>3. e.op = "delete" => \A q \in Editors : e.a \notin Unborn(shop.backend, edit[q]) \cup fresh
    BY <2>1 DEF ApartInv
  <2>4. e.op = "delete" => e.a \notin Unborn(shop.backend, e) \cup fresh'
    BY <2>3
  <2> QED
    BY <1>1, <2>1, <2>2, <2>3, <2>4
<1>12. \A q, r \in Editors : q # r /\ edit'[q].a = edit'[r].a => edit'[q].a \in spoilt' \cup {"none"}
  <2>1. \A q, r \in Editors : q # r /\ edit[q].a = edit[r].a => edit[q].a \in spoilt \cup {"none"}
    BY DEF ApartInv
  <2>2. \A q \in Editors \ {p} : edit[q].a = e.a => e.a \in spoilt' \cup {"none"}
    BY <2>1
  <2> QED
    BY <1>1, <2>1, <2>2
<1> QED
  BY <1>5, <1>6, <1>7, <1>8, <1>9, <1>10, <1>11, <1>12 DEF ApartInv

\* What it leaves of the files: it loses only files of the asset it works on, whose
\* other readers are apart, and it writes rows only of what it has stored.
LEMMA EditorStores ==
  ASSUME MediaTypes, ApartInv, StoredInv, UNCHANGED shop, NEW p \in Editors, NEW e \in EditState,
         edit' = [edit EXCEPT ![p] = e], spoilt \subseteq spoilt', rows' \subseteq Assets,
         \/ files \subseteq files'
         \/ /\ files \ Files(e.a) \subseteq files' /\ e.a \in Assets
            /\ \A q \in Editors \ {p} : edit[q].a = e.a => e.a \in spoilt'
            /\ \A q \in Editors : e.a \notin Kept(shop.backend, edit[q]),
         e.op \in {"store", "import"} /\ e.a \notin spoilt' \cup {"none"} => Files(e.a) \ e.todo \subseteq files',
         \A x \in Kept(shop.backend, e) \ spoilt' : x \in Kept(shop.backend, edit[p]) \/ Files(x) \subseteq files',
         \A x \in rows' \ spoilt' : (x \in rows /\ x \notin {edit[p].a} \ {e.a}) \/ Files(x) \subseteq files'
  PROVE  StoredInv'
<1>1. edit'[p] = e /\ \A q \in Editors \ {p} : edit'[q] = edit[q]
  BY DEF MediaTypes
<1>2. \A q \in Editors : edit[q] \in EditState /\ Kept(shop.backend, edit[q]) \subseteq Assets
  BY DEF MediaTypes, EditState, Kept, Assets
<1>3. \A x \in Assets : Files(x) \subseteq files => Files(x) \subseteq files' \/ x = e.a
  BY FilesApart
<1>4. ASSUME NEW q \in Editors, edit'[q].op \in {"store", "import"}, edit'[q].a \notin spoilt' \cup {"none"}
      PROVE  Files(edit'[q].a) \ edit'[q].todo \subseteq files'
  <2>1. CASE q = p
    BY <1>1, <1>4, <2>1
  <2>2. CASE q # p
    <3>1. edit'[q] = edit[q] /\ edit[q].a \in Assets /\ edit[q].a \notin spoilt
      BY <1>1, <1>2, <1>4, <2>2 DEF EditState
    <3>2. Files(edit[q].a) \ edit[q].todo \subseteq files
      BY <1>4, <3>1 DEF StoredInv
    <3>3. files \subseteq files' \/ (files \ Files(e.a) \subseteq files' /\ e.a \in Assets /\ edit[q].a # e.a)
      BY <1>4, <2>2, <3>1
    <3> QED
      BY <3>1, <3>2, <3>3, FilesApart
  <2> QED
    BY <2>1, <2>2
<1>5. ASSUME NEW q \in Editors, NEW x \in Kept(shop.backend, edit[q]), x \notin spoilt'
      PROVE  Files(x) \subseteq files'
  <2>1. Files(x) \subseteq files /\ x \in Assets
    BY <1>2, <1>5 DEF StoredInv
  <2> QED
    BY <1>3, <1>5, <2>1
<1>6. \A q \in Editors : \A x \in Kept(shop.backend, edit'[q]) \ spoilt' : Files(x) \subseteq files'
  BY <1>1, <1>5
<1>7. ASSUME NEW x \in rows', x \notin spoilt', \A q \in Editors : edit'[q].a # x
      PROVE  Files(x) \subseteq files'
  <2>1. CASE x \in rows /\ x \notin {edit[p].a} \ {e.a}
    <3>1. x # e.a /\ \A q \in Editors : edit[q].a # x
      BY <1>1, <1>7, <2>1
    <3>2. Files(x) \subseteq files
      BY <1>7, <2>1, <3>1 DEF StoredInv, MediaServed
    <3> QED
      BY <1>3, <3>1, <3>2
  <2> QED
    BY <1>7, <2>1
<1> QED
  BY <1>4, <1>6, <1>7 DEF StoredInv, MediaServed

LEMMA NoEditState ==
  /\ NoEdit \in EditState /\ Shaped(NoEdit) /\ NoEdit.a = "none" /\ NoEdit.op = "none"
  /\ \A b : Unborn(b, NoEdit) = {} /\ Kept(b, NoEdit) = {}
BY DEF NoEdit, EditState, Shaped, Unborn, Kept

MediaInv == MediaTypes /\ ApartInv /\ StoredInv

\* A request that ends.
LEMMA EditorEnds ==
  ASSUME MediaInv, UNCHANGED shop, NEW p \in Editors, StoreRow(p) \/ ImportCommit(p) \/ DeleteRow(p) \/ EditFails(p)
  PROVE  MediaInv'
<1> DEFINE s == edit[p]
<1>1. edit' = [edit EXCEPT ![p] = NoEdit] /\ files' = files /\ fresh' = fresh /\ spoilt \subseteq spoilt'
  BY DEF StoreRow, ImportCommit, DeleteRow, EditFails
<1>2. s \in EditState /\ Shaped(s)
  BY DEF MediaInv, MediaTypes
<1>3. Logo \notin Images /\ "none" \notin Assets
  BY MediaAssumption DEF Assets
<1>4. s.op \in {"store", "import"} /\ s.a # "none" => s.a = Logo \/ s.a \in Unborn(shop.backend, s)
  BY DEF Unborn
<1>5. s.op \in {"store", "import"} /\ s.a \in rows => s.a = Logo
  BY <1>3, <1>4 DEF MediaInv, ApartInv, MediaTypes
<1>6. rows' \subseteq rows \cup Unborn(shop.backend, s) \cup {Logo}
      /\ \A x \in rows' \ spoilt' : (x \in rows /\ x # s.a) \/ Files(x) \subseteq files
  <2>1. CASE StoreRow(p)
    <3>1. s.op = "store" /\ s.todo = {} /\ rows' = rows \cup {s.a} /\ spoilt' = spoilt
      BY <2>1 DEF StoreRow, AllStored
    <3>2. s.a # "none"
      BY <1>2, <3>1 DEF Shaped
    <3>3. s.a \notin spoilt => Files(s.a) \subseteq files
      BY <3>1, <3>2 DEF MediaInv, StoredInv
    <3> QED
      BY <1>4, <3>1, <3>2, <3>3
  <2>2. CASE ImportCommit(p)
    <3>1. s.op = "import" /\ rows' = rows \cup Kept(shop.backend, s) /\ spoilt' = spoilt
      BY <2>2 DEF ImportCommit, Kept
    <3>2. \A x \in Kept(shop.backend, s) \ spoilt : Files(x) \subseteq files
      BY DEF MediaInv, StoredInv
    <3>3. s.a \notin rows
      BY <1>2, <1>5, <3>1 DEF Shaped
    <3> QED
      BY <3>1, <3>2, <3>3 DEF Unborn
  <2>3. CASE DeleteRow(p)
    BY <2>3 DEF DeleteRow
  <2>4. CASE EditFails(p)
    <3>1. rows' = rows /\ spoilt' = spoilt \cup LeftBehind(p)
      BY <2>4 DEF EditFails
    <3>2. s.a \in rows => s.op = "delete" \/ s.a = Logo
      BY <1>2, <1>3, <1>5 DEF Shaped, EditState, MediaInv, MediaTypes
    <3>3. s.a \in rows => s.a \in LeftBehind(p)
      BY <3>2 DEF LeftBehind, MediaInv, MediaTypes
    <3> QED
      BY <3>1, <3>3
  <2> QED
    BY <2>1, <2>2, <2>3, <2>4
<1> HIDE DEF s
<1>7. MediaTypes' /\ ApartInv'
  BY <1>1, <1>6, NoEditState, EditorMoves DEF s, MediaInv
<1>8. StoredInv'
  <2>1. rows' \subseteq Assets
    BY <1>7 DEF MediaTypes
  <2>2. \A x \in rows' \ spoilt' : (x \in rows /\ x \notin {edit[p].a} \ {NoEdit.a}) \/ Files(x) \subseteq files'
    BY <1>1, <1>6 DEF s
  <2> QED
    BY <1>1, <2>1, <2>2, NoEditState, EditorStores DEF MediaInv
<1> QED
  BY <1>7, <1>8 DEF MediaInv

\* A request that begins.
LEMMA EditorBegins ==
  ASSUME MediaInv, UNCHANGED shop, NEW p \in Editors,
         \/ UploadLogo(p)
         \/ \E a \in Assets : UploadImage(p, a) \/ Delete(p, a)
         \/ \E list \in SUBSET fresh \ {{}} : ImportImages(p, list)
  PROVE  MediaInv'
<1>1. edit[p] = NoEdit /\ spoilt \subseteq spoilt' /\ rows' = rows /\ rows' \subseteq Assets
  BY DEF UploadLogo, UploadImage, Delete, ImportImages, EditBegin, MediaInv, MediaTypes
<1>2. Logo \notin Images /\ "none" \notin Assets /\ Logo \in Assets /\ Images \subseteq Assets /\ fresh \subseteq Images
  BY MediaAssumption DEF Assets, MediaInv, MediaTypes
<1> DEFINE begun(op, a) == [NoEdit EXCEPT !.op = op, !.a = a, !.todo = Files(a)]
<1>0. NoEdit.next = {} /\ NoEdit.flushed = {} /\ NoEdit.a = "none" /\ NoEdit.todo = {} /\ NoEdit \in EditState
  BY NoEditState DEF NoEdit
<1>3. ASSUME NEW op \in {"store", "delete"}, NEW a \in Assets
      PROVE  /\ begun(op, a) \in EditState /\ Shaped(begun(op, a)) /\ Kept(shop.backend, begun(op, a)) = {}
             /\ Unborn(shop.backend, begun(op, a)) = IF op = "store" THEN {a} \ {Logo} ELSE {}
             /\ begun(op, a).op = op /\ begun(op, a).a = a /\ begun(op, a).next = {} /\ begun(op, a).todo = Files(a)
  <2>1. Files(a) \subseteq Assets \X Sizes
    BY FilesApart
  <2>2. /\ begun(op, a) \in EditState /\ begun(op, a).op = op /\ begun(op, a).a = a
        /\ begun(op, a).next = {} /\ begun(op, a).flushed = {} /\ begun(op, a).todo = Files(a)
    BY <1>0, <2>1 DEF EditState
  <2> HIDE DEF begun
  <2>3. Shaped(begun(op, a)) /\ Kept(shop.backend, begun(op, a)) = {}
    BY <1>2, <2>2 DEF Shaped, Kept
  <2>4. Unborn(shop.backend, begun(op, a)) = IF op = "store" THEN {a} \ {Logo} ELSE {}
    BY <1>2, <2>2, <2>3 DEF Unborn
  <2> QED
    BY <2>2, <2>3, <2>4
<1>4. ASSUME NEW op \in {"store", "delete"}, NEW a \in Assets, EditBegin(p, op, a, Files(a))
      PROVE  /\ edit' = [edit EXCEPT ![p] = begun(op, a)]
             /\ a \in spoilt' \/ \A q \in Editors \ {p} : edit[q].a # a
  <2>2. edit' = [edit EXCEPT ![p] = begun(op, a)]
    BY <1>4 DEF EditBegin
  <2>3. (\E q \in Editors : edit[q].a = a) => spoilt' = spoilt \cup {a}
    BY <1>4 DEF EditBegin
  <2> QED
    BY <2>2, <2>3
<1> HIDE DEF begun
<1>5. CASE UploadLogo(p)
  <2>1. EditBegin(p, "store", Logo, Files(Logo)) /\ files' = files \ OldLogo /\ fresh' = fresh
    BY <1>5 DEF UploadLogo
  <2>2. MediaTypes' /\ ApartInv'
    BY <1>1, <1>2, <1>3, <1>4, <2>1, EditorMoves DEF MediaInv
  <2>3. files \ Files(Logo) \subseteq files'
    BY <2>1 DEF OldLogo
  <2>4. \A q \in Editors : Logo \notin Kept(shop.backend, edit[q])
    BY <1>2 DEF Kept, MediaInv, MediaTypes, EditState
  <2>5. \A x \in rows' \ spoilt' : x \in rows /\ x \notin {edit[p].a} \ {Logo}
    BY <1>1, <1>2, NoEditState
  <2>6. StoredInv'
    BY <1>1, <1>2, <1>3, <1>4, <2>1, <2>3, <2>4, <2>5, EditorStores DEF MediaInv
  <2> QED
    BY <2>2, <2>6 DEF MediaInv
<1>6. ASSUME NEW a \in Assets, UploadImage(p, a) \/ Delete(p, a)
      PROVE  MediaInv'
  <2>1. PICK op \in {"store", "delete"} :
          /\ EditBegin(p, op, a, Files(a)) /\ files' = files
          /\ IF op = "store" THEN a \in fresh /\ fresh' = fresh \ {a} ELSE a \in rows /\ fresh' = fresh
    BY <1>6 DEF UploadImage, Delete
  <2>2. MediaTypes' /\ ApartInv'
    BY <1>1, <1>2, <1>3, <1>4, <2>1, EditorMoves DEF MediaInv
  <2>3. \A x \in rows' \ spoilt' : x \in rows /\ x \notin {edit[p].a} \ {a}
    BY <1>1, <1>2, NoEditState
  <2>4. StoredInv'
    BY <1>1, <1>2, <1>3, <1>4, <2>1, <2>3, EditorStores DEF MediaInv
  <2> QED
    BY <2>2, <2>4 DEF MediaInv
<1>7. ASSUME NEW list \in SUBSET fresh, ImportImages(p, list)
      PROVE  MediaInv'
  <2> DEFINE e == [NoEdit EXCEPT !.op = "import", !.next = list]
  <2>1. edit' = [edit EXCEPT ![p] = e] /\ files' = files /\ fresh' = fresh \ list
    BY <1>7 DEF ImportImages
  <2>2. e \in EditState /\ Shaped(e) /\ Kept(shop.backend, e) = {} /\ Unborn(shop.backend, e) = list
        /\ e.op = "import" /\ e.a = "none" /\ e.next = list
    <3>1. /\ e \in EditState /\ e.op = "import" /\ e.a = "none" /\ e.next = list
          /\ e.flushed = {} /\ e.todo = {}
      BY <1>0, <1>2 DEF EditState
    <3> HIDE DEF e
    <3>2. Shaped(e) /\ Kept(shop.backend, e) = {}
      BY <1>2, <3>1 DEF Shaped, Kept, Assets
    <3> QED
      BY <3>1, <3>2 DEF Unborn
  <2> HIDE DEF e
  <2>3. MediaTypes' /\ ApartInv'
    BY <1>1, <1>2, <2>1, <2>2, EditorMoves DEF MediaInv
  <2>4. \A x \in rows' \ spoilt' : x \in rows /\ x \notin {edit[p].a} \ {e.a}
    BY <1>1, <1>2, <2>2, NoEditState
  <2>5. StoredInv'
    BY <1>1, <2>1, <2>2, <2>4, EditorStores DEF MediaInv
  <2> QED
    BY <2>3, <2>5 DEF MediaInv
<1> QED
  BY <1>5, <1>6, <1>7

\* A file is stored.
LEMMA EditorFile ==
  ASSUME MediaInv, UNCHANGED shop, NEW p \in Editors, StoreOne(p) \/ StoreLogo(p) \/ DeleteOne(p)
  PROVE  MediaInv'
<1> DEFINE s == edit[p]
<1>1. /\ s.op \in {"store", "import", "delete"} /\ UNCHANGED <<rows, fresh, spoilt>>
      /\ \E f \in s.todo : /\ edit' = [edit EXCEPT ![p].todo = @ \ {f}]
                           /\ IF s.op = "delete" THEN files' \in {files, files \ {f}} ELSE files' = files \cup {f}
  BY DEF StoreOne, StoreLogo, DeleteOne, Store
<1>2. PICK f \in s.todo : /\ edit' = [edit EXCEPT ![p].todo = @ \ {f}]
                          /\ IF s.op = "delete" THEN files' \in {files, files \ {f}} ELSE files' = files \cup {f}
  BY <1>1
<1> DEFINE e == [s EXCEPT !.todo = @ \ {f}]
<1>3. s \in EditState /\ Shaped(s)
  BY DEF MediaInv, MediaTypes
<1>4. edit' = [edit EXCEPT ![p] = e]
  BY <1>2
<1>5. /\ e \in EditState /\ e.op = s.op /\ e.a = s.a /\ e.next = s.next /\ e.flushed = s.flushed
      /\ e.todo = s.todo \ {f}
  BY <1>3 DEF EditState
<1> HIDE DEF e
<1>6. Shaped(e) /\ Kept(shop.backend, e) = Kept(shop.backend, s) /\ Unborn(shop.backend, e) = Unborn(shop.backend, s)
  BY <1>3, <1>5 DEF Shaped, Kept, Unborn
<1>7. MediaTypes' /\ ApartInv'
  <2>1. e.next \cap Kept(shop.backend, e) = {} /\ (e.op = "import" => e.a \notin e.next \cup Kept(shop.backend, e))
    BY <1>5, <1>6 DEF MediaInv, ApartInv
  <2> HIDE DEF s
  <2> QED
    BY <1>1, <1>4, <1>5, <1>6, <2>1, EditorMoves DEF MediaInv, s
<1>8. /\ \A q \in Editors \ {p} : edit[q].a = s.a => s.a \in spoilt \cup {"none"}
      /\ s.op = "delete" => \A q \in Editors : s.a \notin Kept(shop.backend, edit[q])
  BY DEF MediaInv, ApartInv, Unborn
<1>9. s.op = "delete" => s.a \in Assets /\ files \ Files(s.a) \subseteq files'
  BY <1>2, <1>3 DEF Shaped, EditState
<1>10. s.op \in {"store", "import"} /\ s.a \notin spoilt \cup {"none"} => Files(s.a) \ e.todo \subseteq files'
  BY <1>2, <1>5 DEF MediaInv, StoredInv
<1>11. "none" \notin Assets
  BY MediaAssumption DEF Assets
<1>12. s.op # "delete" => files \subseteq files'
  BY <1>2
<1> HIDE DEF s
<1>13. rows' \subseteq Assets
  BY <1>7 DEF MediaTypes
<1>14. StoredInv'
  <2>1. /\ e.op \in {"store", "import"} /\ e.a \notin spoilt' \cup {"none"} => Files(e.a) \ e.todo \subseteq files'
        /\ spoilt' = spoilt
    BY <1>1, <1>5, <1>10
  <2>2. \A x \in Kept(shop.backend, e) \ spoilt' : x \in Kept(shop.backend, edit[p])
    BY <1>6 DEF s
  <2>3. \A x \in rows' \ spoilt' : x \in rows /\ x \notin {edit[p].a} \ {e.a}
    BY <1>1, <1>5 DEF s
  <2>4. \/ files \subseteq files'
        \/ /\ files \ Files(e.a) \subseteq files' /\ e.a \in Assets
           /\ \A q \in Editors \ {p} : edit[q].a = e.a => e.a \in spoilt'
           /\ \A q \in Editors : e.a \notin Kept(shop.backend, edit[q])
    BY <1>1, <1>5, <1>8, <1>9, <1>11, <1>12
  <2> QED
    BY <1>4, <1>5, <1>13, <2>1, <2>2, <2>3, <2>4, EditorStores DEF MediaInv
<1> QED
  BY <1>7, <1>14 DEF MediaInv

\* An import looks at its next image, or has stored one.
LEMMA EditorImports ==
  ASSUME MediaInv, UNCHANGED shop, NEW p \in Editors,
         StoreImported(p) \/ \E a \in Assets : DownloadImage(p, a)
  PROVE  MediaInv'
<1> DEFINE s == edit[p]
<1>1. s \in EditState /\ Shaped(s) /\ s.op = "import" /\ UNCHANGED <<files, fresh, spoilt>>
  BY DEF MediaInv, MediaTypes, StoreImported, DownloadImage
<1>2. Logo \notin Images /\ "none" \notin Assets /\ Images \subseteq Assets /\ rows \subseteq Assets
  BY MediaAssumption DEF Assets, MediaInv, MediaTypes
<1>3. /\ s.next \subseteq Images /\ s.a # Logo
      /\ Unborn(shop.backend, s) = s.next \cup Kept(shop.backend, s) \cup ({s.a} \ {"none"})
      /\ Unborn(shop.backend, s) \cap rows = {} /\ s.next \cap Kept(shop.backend, s) = {}
      /\ s.a \notin s.next \cup Kept(shop.backend, s)
  <2>1. s.next \subseteq Images /\ s.a # Logo
    BY <1>1 DEF EditState, Shaped
  <2>2. Unborn(shop.backend, s) = s.next \cup Kept(shop.backend, s) \cup ({s.a} \ {"none"})
    BY <1>1, <2>1 DEF Unborn
  <2> QED
    BY <1>1, <2>1, <2>2 DEF MediaInv, ApartInv
<1>4. CASE StoreImported(p)
  <2> DEFINE e == [s EXCEPT !.a = "none", !.flushed = @ \cup {s.a}]
  <2>1. /\ s.a \in Images \cup {Logo} /\ s.a # "none" /\ s.todo = {} /\ edit' = [edit EXCEPT ![p] = e]
        /\ rows' = IF shop.backend = "d1" THEN rows \cup {s.a} ELSE rows
    BY <1>1, <1>4 DEF StoreImported, AllStored, EditState, Assets
  <2>2. /\ e \in EditState /\ e.op = "import" /\ e.a = "none" /\ e.next = s.next
        /\ e.flushed = s.flushed \cup {s.a} /\ e.todo = {}
    BY <1>1, <1>3, <2>1 DEF EditState
  <2> HIDE DEF e
  <2>3. Shaped(e)
    BY <1>2, <2>2 DEF Shaped, Assets
  <2>4. Kept(shop.backend, e) = IF shop.backend = "d1" THEN {} ELSE Kept(shop.backend, s) \cup {s.a}
    BY <2>2 DEF Kept
  <2>5. Unborn(shop.backend, e) = e.next \cup Kept(shop.backend, e)
    BY <2>2 DEF Unborn
  <2>6. /\ e.next \cap Kept(shop.backend, e) = {} /\ e.a \notin e.next \cup Kept(shop.backend, e)
        /\ Unborn(shop.backend, e) \subseteq Unborn(shop.backend, s)
    <3>1. e.next \cap Kept(shop.backend, e) = {}
      BY <1>3, <2>2, <2>4
    <3>2. Unborn(shop.backend, e) \subseteq Unborn(shop.backend, s)
      BY <1>3, <2>1, <2>2, <2>4, <2>5
    <3>3. "none" \notin Kept(shop.backend, s) /\ "none" \notin s.next
      BY <1>1, <1>2 DEF Kept, EditState
    <3> QED
      BY <2>1, <2>2, <2>4, <3>1, <3>2, <3>3
  <2>7. rows' \subseteq rows \cup (Unborn(shop.backend, s) \ Unborn(shop.backend, e))
    BY <1>3, <2>1, <2>2, <2>4, <2>5
  <2>8. s.a \notin spoilt => Files(s.a) \subseteq files
    BY <1>1, <2>1 DEF MediaInv, StoredInv
  <2>9. MediaTypes' /\ ApartInv'
    <3> HIDE DEF s
    <3> QED
      BY <1>1, <2>1, <2>2, <2>3, <2>6, <2>7, EditorMoves DEF MediaInv, s
  <2>10. /\ \A x \in Kept(shop.backend, e) \ spoilt' : x \in Kept(shop.backend, edit[p]) \/ Files(x) \subseteq files'
         /\ \A x \in rows' \ spoilt' : (x \in rows /\ x \notin {edit[p].a} \ {e.a}) \/ Files(x) \subseteq files'
    BY <1>1, <1>3, <2>1, <2>4, <2>8
  <2>11. rows' \subseteq Assets
    BY <2>9 DEF MediaTypes
  <2>12. StoredInv'
    BY <1>1, <2>1, <2>2, <2>10, <2>11, EditorStores DEF MediaInv
  <2> QED
    BY <2>9, <2>12 DEF MediaInv
<1>5. ASSUME NEW a \in Assets, DownloadImage(p, a)
      PROVE  MediaInv'
  <2>1. /\ s.a = "none" /\ a \in s.next /\ a \in Images /\ UNCHANGED rows
        /\ Kept(shop.backend, s) \cap {a} = {}
    BY <1>3, <1>5 DEF DownloadImage
  <2>2. \A q \in Editors \ {p} : edit[q].a # a
    <3> SUFFICES ASSUME NEW q \in Editors \ {p}, edit[q].a = a PROVE FALSE
      OBVIOUS
    <3>1. a \in Unborn(shop.backend, s) /\ a # "none" /\ a # Logo
      BY <1>2, <1>3, <2>1
    <3>2. edit[q].op # "delete" /\ a \notin Unborn(shop.backend, edit[q])
      BY <3>1 DEF MediaInv, ApartInv
    <3>3. edit[q].op \in {"store", "import"}
      BY <3>1, <3>2 DEF MediaInv, MediaTypes, EditState, Shaped
    <3> QED
      BY <3>1, <3>2, <3>3 DEF Unborn
  <2>3. ASSUME NEW e, edit' = [edit EXCEPT ![p] = e], e \in EditState, e.op = "import", e.next = s.next \ {a},
               e.flushed = s.flushed, \/ e.a = a /\ e.todo = Files(a)
                                      \/ e.a = "none" /\ e.todo = s.todo
        PROVE  MediaInv'
    <3>1. Kept(shop.backend, e) = Kept(shop.backend, s)
      BY <2>3 DEF Kept
    <3>2. Unborn(shop.backend, e) = e.next \cup Kept(shop.backend, e) \cup ({e.a} \ {"none", Logo})
      BY <2>3 DEF Unborn
    <3>3. Shaped(e) /\ e.next \cap Kept(shop.backend, e) = {} /\ e.a \notin e.next \cup Kept(shop.backend, e)
          /\ Unborn(shop.backend, e) \subseteq Unborn(shop.backend, s)
      <4>1. Shaped(e)
        <5>1. s.todo \subseteq {} /\ a # "none" /\ a # Logo /\ e.op = "import"
          BY <1>1, <1>2, <2>1, <2>3 DEF Shaped
        <5>2. CASE e.a = a /\ e.todo = Files(a)
          BY <5>1, <5>2 DEF Shaped
        <5>3. CASE e.a = "none" /\ e.todo = s.todo
          BY <5>1, <5>3, MediaAssumption DEF Shaped
        <5> QED
          BY <2>3, <5>2, <5>3
      <4>2. e.next \cap Kept(shop.backend, e) = {} /\ e.a \notin e.next \cup Kept(shop.backend, e)
        BY <1>3, <2>1, <2>3, <3>1
      <4>3. Unborn(shop.backend, e) \subseteq Unborn(shop.backend, s)
        BY <1>3, <2>1, <2>3, <3>1, <3>2
      <4> QED
        BY <4>1, <4>2, <4>3
    <3>4. MediaTypes' /\ ApartInv'
      <4> HIDE DEF s
      <4> QED
        BY <1>1, <2>1, <2>2, <2>3, <3>3, EditorMoves DEF MediaInv, s
    <3>5. /\ \A x \in rows' \ spoilt' : x \in rows /\ x \notin {edit[p].a} \ {e.a}
          /\ \A x \in Kept(shop.backend, e) \ spoilt' : x \in Kept(shop.backend, edit[p])
          /\ e.op \in {"store", "import"} /\ e.a \notin spoilt' \cup {"none"} => Files(e.a) \ e.todo \subseteq files'
      BY <1>2, <2>1, <2>3, <3>1
    <3>6. StoredInv'
      BY <1>1, <1>2, <2>1, <2>3, <3>5, EditorStores DEF MediaInv
    <3> QED
      BY <3>4, <3>6 DEF MediaInv
  <2>4. CASE edit' = [edit EXCEPT ![p].next = @ \ {a}, ![p].a = a, ![p].todo = Files(a)]
    <3> DEFINE e == [s EXCEPT !.next = @ \ {a}, !.a = a, !.todo = Files(a)]
    <3>1. edit' = [edit EXCEPT ![p] = e]
      BY <2>4 DEF MediaInv, MediaTypes
    <3>2. e \in EditState /\ e.op = "import" /\ e.next = s.next \ {a} /\ e.flushed = s.flushed /\ e.a = a /\ e.todo = Files(a)
      BY <1>1, FilesApart DEF EditState
    <3> HIDE DEF e
    <3> QED
      BY <2>3, <3>1, <3>2
  <2>5. CASE edit' = [edit EXCEPT ![p].next = @ \ {a}]
    <3> DEFINE e == [s EXCEPT !.next = @ \ {a}]
    <3>1. edit' = [edit EXCEPT ![p] = e]
      BY <2>5
    <3>2. e \in EditState /\ e.op = "import" /\ e.next = s.next \ {a} /\ e.flushed = s.flushed /\ e.a = "none" /\ e.todo = s.todo
      BY <1>1, <2>1 DEF EditState
    <3> HIDE DEF e
    <3> QED
      BY <2>3, <3>1, <3>2
  <2> QED
    BY <1>5, <2>4, <2>5 DEF DownloadImage
<1> QED
  BY <1>4, <1>5

\* The process ends under every request.
LEMMA EditorsDrop ==
  ASSUME MediaInv, UNCHANGED shop, DropEdits
  PROVE  MediaInv'
<1>1. edit' = [p \in Editors |-> NoEdit] /\ UNCHANGED <<files, rows, fresh>> /\ spoilt \subseteq spoilt'
  BY DEF DropEdits
<1>2. MediaTypes'
  BY <1>1, NoEditState DEF MediaInv, MediaTypes
<1>3. ApartInv'
  <2>1. fresh \cap rows = {} /\ shop'.backend = shop.backend
    BY DEF MediaInv, ApartInv
  <2>2. \A p \in Editors : /\ edit'[p].next = {} /\ edit'[p].op = "none" /\ edit'[p].a = "none"
                           /\ Unborn(shop.backend, edit'[p]) = {} /\ Kept(shop.backend, edit'[p]) = {}
    BY <1>1, NoEditState DEF NoEdit
  <2> QED
    BY <1>1, <2>1, <2>2 DEF ApartInv
<1>4. ASSUME NEW x \in rows, x \notin spoilt' PROVE Files(x) \subseteq files
  <2>1. Logo \notin Images /\ "none" \notin Assets /\ x \in Assets
    BY MediaAssumption DEF Assets, MediaInv, MediaTypes
  <2>2. ASSUME NEW p \in Editors, edit[p].a = x PROVE x \in LeftBehind(p)
    <3>1. edit[p].op \in {"store", "import"} => x = Logo
      BY <2>1, <2>2 DEF MediaInv, ApartInv, MediaTypes, Unborn
    <3>2. edit[p].op \in {"store", "import", "delete"}
      BY <2>1, <2>2 DEF MediaInv, MediaTypes, EditState, Shaped
    <3> QED
      BY <2>1, <2>2, <3>1, <3>2 DEF LeftBehind
  <2>3. \A p \in Editors : edit[p].a # x
    BY <1>4, <2>2 DEF DropEdits
  <2> QED
    BY <1>1, <1>4, <2>3 DEF MediaInv, StoredInv, MediaServed
<1>5. StoredInv'
  <2>1. \A p \in Editors : edit'[p].op = "none" /\ Kept(shop'.backend, edit'[p]) = {}
    BY <1>1, NoEditState
  <2> QED
    BY <1>1, <1>4, <2>1 DEF StoredInv, MediaServed
<1> QED
  BY <1>2, <1>3, <1>5 DEF MediaInv

LEMMA EditStep ==
  MediaInv /\ [Next]_vars => MediaInv'
<1> SUFFICES ASSUME MediaInv, [Next]_vars PROVE MediaInv'
  OBVIOUS
<1>1. UNCHANGED shop /\ (UNCHANGED mediaVars \/ MediaStep \/ DropEdits)
  BY NextMedia
<1>2. CASE UNCHANGED mediaVars
  BY <1>1, <1>2 DEF mediaVars, MediaInv, MediaTypes, ApartInv, StoredInv, MediaServed
<1>3. CASE DropEdits
  BY <1>1, <1>3, EditorsDrop
<1>4. CASE MediaStep
  <2>1. shop.editors \subseteq Editors
    BY ShopAssumption DEF MediaInv, MediaTypes
  <2>2. PICK p \in Editors :
          \/ UploadLogo(p) \/ StoreOne(p) \/ StoreLogo(p) \/ StoreRow(p) \/ StoreImported(p) \/ ImportCommit(p)
          \/ DeleteOne(p) \/ DeleteRow(p) \/ EditFails(p)
          \/ \E a \in Assets : UploadImage(p, a) \/ DownloadImage(p, a) \/ Delete(p, a)
          \/ \E list \in SUBSET fresh \ {{}} : ImportImages(p, list)
    BY <1>4, <2>1 DEF MediaStep
  <2> QED
    BY <1>1, <2>2, EditorBegins, EditorFile, EditorImports, EditorEnds
<1> QED
  BY <1>1, <1>2, <1>3, <1>4

LEMMA MediaAlways == Spec => []MediaInv
<1>1. Init => MediaInv
  <2> SUFFICES ASSUME Init PROVE MediaInv
    OBVIOUS
  <2>1. shop \in Shops /\ files = {} /\ rows = {} /\ edit = [p \in Editors |-> NoEdit] /\ fresh = shop.images /\ spoilt = {}
    BY DEF Init, MediaInit
  <2>2. MediaTypes
    BY <2>1, NoEditState, ShopAssumption DEF MediaTypes
  <2>3. \A p \in Editors : /\ edit[p].next = {} /\ edit[p].op = "none" /\ edit[p].a = "none"
                           /\ Unborn(shop.backend, edit[p]) = {} /\ Kept(shop.backend, edit[p]) = {}
    BY <2>1, NoEditState DEF NoEdit
  <2> QED
    BY <2>1, <2>2, <2>3 DEF MediaInv, ApartInv, StoredInv, MediaServed
<1>2. MediaInv /\ [Next]_vars => MediaInv'
  BY EditStep
<1> QED
  BY <1>1, <1>2, PTL DEF Spec

\* Every row of an image or the logo points to files that are all stored, for any number
\* of images, sizes and requests, though uploads, imports and the process stop half way.
THEOREM RowsAreServed == Spec => []MediaServed
<1>1. MediaInv => MediaServed
  BY DEF MediaInv, StoredInv
<1> QED
  BY <1>1, MediaAlways, PTL

-----------------------------------------------------------------------------
(* Sessions on D1 *)

LEMMA NextSessions ==
  [Next]_vars => UNCHANGED shop /\ (UNCHANGED sessionVars \/ SessionStep \/ DropSessions)
BY DEF Next, vars, Requests, Served, DropRequests

\* A key is given out before a row or an instance has it.
StoredRow == [key : 1 .. lastKey, content : Contents]
HeldRow   == [key : 0 .. lastKey, content : Contents]

SessionTypes ==
  /\ shop \in Shops
  /\ lastKey \in 0 .. MaxRows
  /\ table \in [Keys -> StoredRow \cup {Vacant}] /\ \A r \in Rows : table[r].key = r
  /\ held \in [Writers -> Seq(HeldRow)]
  /\ {new, dirty, deleted} \subseteq [Writers -> Seq(Nat)]

\* What is pending is held, and an instance is inserted once.
Queued ==
  \A w \in Writers :
    /\ \A s \in {new[w], dirty[w], deleted[w]} : \A n \in DOMAIN s : s[n] \in Instances(w)
    /\ \A m, n \in DOMAIN new[w] : new[w][m] = new[w][n] => m = n

SyncedHeld ==
  /\ \A x \in synced : \E w \in Writers : \E i \in Instances(w) : x = <<w, i>>
  /\ HeldAsStored

SessionInv == SessionTypes /\ Queued /\ SyncedHeld

LEMMA RowsStored ==
  ASSUME SessionTypes
  PROVE  /\ MaxRows \in Nat /\ Keys = 1 .. MaxRows /\ NoKey = 0 /\ lastKey \in Nat /\ lastKey <= MaxRows
         /\ Rows \subseteq Keys /\ Rows \subseteq 1 .. lastKey
         /\ \A r \in Rows : table[r] \in StoredRow /\ table[r] \in HeldRow
         /\ \A r : r # NoKey => \A c : Instance(r, c) # Vacant
         /\ \A w \in Writers : \A i \in Instances(w) : held[w][i] \in HeldRow
         /\ \A w \in Writers : Instances(w) = 1 .. Len(held[w]) /\ Len(held[w]) \in Nat
<1>1. MaxRows \in Nat /\ Keys = 1 .. MaxRows /\ NoKey = 0 /\ lastKey \in Nat /\ lastKey <= MaxRows
  BY SessionAssumption DEF Keys, NoKey, SessionTypes
<1>2. Rows \subseteq Keys /\ \A r \in Rows : table[r] \in StoredRow /\ table[r].key = r
  BY DEF Rows, SessionTypes
<1>3. \A o \in StoredRow : o \in HeldRow /\ o.key \in 1 .. lastKey
  BY <1>1 DEF StoredRow, HeldRow
<1>4. Rows \subseteq 1 .. lastKey
  BY <1>2, <1>3
<1>5. \A r : r # NoKey => \A c : Instance(r, c) # Vacant
  <2>1. \A r, c : Instance(r, c).key = r
    BY DEF Instance
  <2>2. Vacant.key = NoKey
    BY DEF Vacant
  <2> QED BY <2>1, <2>2
<1>6. \A w \in Writers : held[w] \in Seq(HeldRow)
  BY DEF SessionTypes
<1>7. \A s \in Seq(HeldRow) : Len(s) \in Nat /\ DOMAIN s = 1 .. Len(s) /\ \A i \in DOMAIN s : s[i] \in HeldRow
  OBVIOUS
<1> QED
  BY <1>1, <1>2, <1>3, <1>4, <1>5, <1>6, <1>7 DEF Instances

\* Only what is pending changes, of one session.
LEMMA QueueStep ==
  ASSUME SessionInv, UNCHANGED <<shop, table, lastKey, held, synced>>, NEW w \in Writers,
         NEW a \in Seq(Nat), NEW b \in Seq(Nat), NEW c \in Seq(Nat),
         new' = [new EXCEPT ![w] = a], dirty' = [dirty EXCEPT ![w] = b], deleted' = [deleted EXCEPT ![w] = c],
         \A n \in DOMAIN a : a[n] \in Instances(w),
         \A n \in DOMAIN b : b[n] \in Instances(w),
         \A n \in DOMAIN c : c[n] \in Instances(w),
         \A m, n \in DOMAIN a : a[m] = a[n] => m = n
  PROVE  SessionInv'
<1>1. SessionTypes'
  <2>1. {new', dirty', deleted'} \subseteq [Writers -> Seq(Nat)]
    BY DEF SessionInv, SessionTypes
  <2>2. StoredRow' = StoredRow /\ HeldRow' = HeldRow /\ Rows' = Rows
    BY DEF StoredRow, HeldRow, Rows
  <2> QED
    BY <2>1, <2>2 DEF SessionInv, SessionTypes
<1>2. /\ new'[w] = a /\ dirty'[w] = b /\ deleted'[w] = c
      /\ \A v \in Writers \ {w} : new'[v] = new[v] /\ dirty'[v] = dirty[v] /\ deleted'[v] = deleted[v]
  BY DEF SessionInv, SessionTypes
<1>3. \A v \in Writers : Instances(v)' = Instances(v)
  BY DEF Instances
<1>4. Queued'
  <2> SUFFICES ASSUME NEW v \in Writers
               PROVE  /\ \A s \in {new'[v], dirty'[v], deleted'[v]} : \A n \in DOMAIN s : s[n] \in Instances(v)
                      /\ \A m, n \in DOMAIN new'[v] : new'[v][m] = new'[v][n] => m = n
    BY <1>3 DEF Queued
  <2>1. CASE v = w
    BY <1>2, <2>1
  <2>2. CASE v # w
    BY <1>2, <2>2 DEF SessionInv, Queued
  <2> QED BY <2>1, <2>2
<1>5. SyncedHeld'
  BY <1>3 DEF SessionInv, SyncedHeld, HeldAsStored, Rows
<1> QED
  BY <1>1, <1>4, <1>5 DEF SessionInv

LEMMA QueuedPositions ==
  ASSUME SessionInv, NEW w \in Writers
  PROVE  /\ new[w] \in Seq(Nat) /\ dirty[w] \in Seq(Nat) /\ deleted[w] \in Seq(Nat)
         /\ \A n \in DOMAIN new[w] : new[w][n] \in Instances(w)
         /\ \A n \in DOMAIN dirty[w] : dirty[w][n] \in Instances(w)
         /\ \A n \in DOMAIN deleted[w] : deleted[w][n] \in Instances(w)
         /\ \A m, n \in DOMAIN new[w] : new[w][m] = new[w][n] => m = n
         /\ new \in [Writers -> Seq(Nat)] /\ dirty \in [Writers -> Seq(Nat)] /\ deleted \in [Writers -> Seq(Nat)]
BY DEF SessionInv, SessionTypes, Queued

LEMMA Appended ==
  ASSUME NEW s \in Seq(Nat), NEW i \in Nat, NEW S, i \in S, \A n \in DOMAIN s : s[n] \in S
  PROVE  /\ Append(s, i) \in Seq(Nat)
         /\ \A n \in DOMAIN Append(s, i) : Append(s, i)[n] \in S
         /\ (i \notin Range(s) /\ \A m, n \in DOMAIN s : s[m] = s[n] => m = n)
              => \A m, n \in DOMAIN Append(s, i) : Append(s, i)[m] = Append(s, i)[n] => m = n
<1>1. /\ Append(s, i) \in Seq(Nat) /\ Len(Append(s, i)) = Len(s) + 1 /\ Len(s) \in Nat
      /\ DOMAIN s = 1 .. Len(s) /\ DOMAIN Append(s, i) = 1 .. Len(s) + 1
      /\ Append(s, i)[Len(s) + 1] = i /\ \A n \in 1 .. Len(s) : Append(s, i)[n] = s[n]
  OBVIOUS
<1>2. \A n \in 1 .. Len(s) + 1 : n \in 1 .. Len(s) \/ n = Len(s) + 1
  BY <1>1
<1>3. i \notin Range(s) => \A n \in DOMAIN s : s[n] # i
  BY DEF Range
<1> QED
  BY <1>1, <1>2, <1>3

LEMMA QueueActions ==
  ASSUME SessionInv, UNCHANGED shop, NEW w \in Writers, NEW i \in Instances(w),
         AddLoaded(w, i) \/ MarkDirty(w, i) \/ DeleteHeld(w, i)
  PROVE  SessionInv'
<1>1. i \in Nat
  BY RowsStored DEF SessionInv
<1>2. new = [new EXCEPT ![w] = new[w]] /\ dirty = [dirty EXCEPT ![w] = dirty[w]] /\ deleted = [deleted EXCEPT ![w] = deleted[w]]
  BY QueuedPositions
<1>6. /\ new[w] \in Seq(Nat) /\ dirty[w] \in Seq(Nat) /\ deleted[w] \in Seq(Nat)
      /\ \A n \in DOMAIN new[w] : new[w][n] \in Instances(w)
      /\ \A n \in DOMAIN dirty[w] : dirty[w][n] \in Instances(w)
      /\ \A n \in DOMAIN deleted[w] : deleted[w][n] \in Instances(w)
      /\ \A m, n \in DOMAIN new[w] : new[w][m] = new[w][n] => m = n
  BY QueuedPositions
<1>3. CASE AddLoaded(w, i)
  <2>1. /\ new' = [new EXCEPT ![w] = Append(new[w], i)] /\ i \notin Range(new[w])
        /\ UNCHANGED <<table, lastKey, held, synced, dirty, deleted>>
    BY <1>3 DEF AddLoaded
  <2>2. /\ Append(new[w], i) \in Seq(Nat)
        /\ \A n \in DOMAIN Append(new[w], i) : Append(new[w], i)[n] \in Instances(w)
        /\ \A m, n \in DOMAIN Append(new[w], i) : Append(new[w], i)[m] = Append(new[w], i)[n] => m = n
    BY <1>1, <2>1, QueuedPositions, Appended
  <2> DEFINE a == Append(new[w], i)
  <2> HIDE DEF a
  <2>3. /\ a \in Seq(Nat) /\ new' = [new EXCEPT ![w] = a]
        /\ \A n \in DOMAIN a : a[n] \in Instances(w)
        /\ \A m, n \in DOMAIN a : a[m] = a[n] => m = n
    BY <2>1, <2>2 DEF a
  <2>4. dirty' = [dirty EXCEPT ![w] = dirty[w]] /\ deleted' = [deleted EXCEPT ![w] = deleted[w]]
    BY <1>2, <2>1
  <2>5. UNCHANGED <<table, lastKey, held, synced>>
    BY <2>1
  <2> QED
    BY <1>6, <2>3, <2>4, <2>5, QueueStep
<1>4. CASE MarkDirty(w, i)
  <2> DEFINE a == Append(dirty[w], i)
  <2>1. /\ dirty' = [dirty EXCEPT ![w] = a]
        /\ UNCHANGED <<table, lastKey, held, synced, new, deleted>>
    BY <1>4 DEF MarkDirty
  <2>2. a \in Seq(Nat) /\ \A n \in DOMAIN a : a[n] \in Instances(w)
    BY <1>1, QueuedPositions, Appended
  <2> HIDE DEF a
  <2>3. new' = [new EXCEPT ![w] = new[w]] /\ deleted' = [deleted EXCEPT ![w] = deleted[w]]
    BY <1>2, <2>1
  <2>4. UNCHANGED <<table, lastKey, held, synced>>
    BY <2>1
  <2>5. dirty' = [dirty EXCEPT ![w] = a]
    BY <2>1
  <2> QED
    BY <1>6, <2>2, <2>3, <2>4, <2>5, QueueStep
<1>5. CASE DeleteHeld(w, i)
  <2> DEFINE a == Append(deleted[w], i)
  <2>1. /\ deleted' = [deleted EXCEPT ![w] = a]
        /\ UNCHANGED <<table, lastKey, held, synced, new, dirty>>
    BY <1>5 DEF DeleteHeld
  <2>2. a \in Seq(Nat) /\ \A n \in DOMAIN a : a[n] \in Instances(w)
    BY <1>1, QueuedPositions, Appended
  <2> HIDE DEF a
  <2>3. new' = [new EXCEPT ![w] = new[w]] /\ dirty' = [dirty EXCEPT ![w] = dirty[w]]
    BY <1>2, <2>1
  <2>4. UNCHANGED <<table, lastKey, held, synced>>
    BY <2>1
  <2>5. deleted' = [deleted EXCEPT ![w] = a]
    BY <2>1
  <2> QED
    BY <1>6, <2>2, <2>3, <2>4, <2>5, QueueStep
<1> QED
  BY <1>3, <1>4, <1>5

LEMMA RollbackSession ==
  ASSUME SessionInv, UNCHANGED shop, NEW w \in Writers, Rollback(w)
  PROVE  SessionInv'
<1>1. <<>> \in Seq(Nat) /\ DOMAIN <<>> = {}
  OBVIOUS
<1>2. PICK e \in Seq(Nat) : e = <<>>
  BY <1>1
<1> QED
  BY <1>1, <1>2, QueueStep DEF Rollback

\* An instance that will be synced was and is as it was, or is its row.
SyncedStep(w, s) ==
  \A x \in synced' : \/ x \in synced /\ (x[1] = w => s[x[2]] = held[w][x[2]])
                     \/ \E i \in DOMAIN s : x = <<w, i>> /\ s[i].key \in Rows /\ s[i] = table[s[i].key]

\* The instances of one session change, or come.
LEMMA HeldStep ==
  ASSUME SessionInv, UNCHANGED <<shop, table, lastKey, dirty, deleted>>, NEW w \in Writers,
         NEW s \in Seq(HeldRow), held' = [held EXCEPT ![w] = s], Instances(w) \subseteq DOMAIN s,
         new' = new \/ (s = Append(held[w], s[Len(s)]) /\ new' = [new EXCEPT ![w] = Append(@, Len(s))]),
         SyncedStep(w, s)
  PROVE  SessionInv'
<1>1. held'[w] = s /\ \A v \in Writers \ {w} : held'[v] = held[v]
  BY DEF SessionInv, SessionTypes
<1>2. \A v \in Writers : Instances(v) \subseteq Instances(v)'
  BY <1>1 DEF Instances
<1>3. new' \in [Writers -> Seq(Nat)] /\ \A v \in Writers :
        /\ \A n \in DOMAIN new'[v] : new'[v][n] \in Instances(v)'
        /\ \A m, n \in DOMAIN new'[v] : new'[v][m] = new'[v][n] => m = n
  <2>1. CASE new' = new
    BY <1>2, <2>1, QueuedPositions
  <2>2. CASE s = Append(held[w], s[Len(s)]) /\ new' = [new EXCEPT ![w] = Append(@, Len(s))]
    <3>1. Len(s) \in Nat /\ Len(s) \in DOMAIN s /\ Len(s) \notin Instances(w)
      <4>1. held[w] \in Seq(HeldRow) /\ s \in Seq(HeldRow)
        BY DEF SessionInv, SessionTypes
      <4>2. \A t \in Seq(HeldRow) : s = Append(t, s[Len(s)]) => Len(s) \in Nat /\ Len(s) \in DOMAIN s /\ Len(s) \notin DOMAIN t
        BY <4>1
      <4> QED BY <2>2, <4>1, <4>2 DEF Instances
    <3>2. Len(s) \notin Range(new[w])
      BY <3>1, QueuedPositions DEF Range
    <3> DEFINE a == Append(new[w], Len(s))
    <3>3. \A n \in DOMAIN new[w] : new[w][n] \in Instances(w)'
      BY <1>2, QueuedPositions
    <3>4. Len(s) \in Instances(w)'
      BY <1>1, <3>1 DEF Instances
    <3>5. /\ a \in Seq(Nat) /\ \A n \in DOMAIN a : a[n] \in Instances(w)'
          /\ \A m, n \in DOMAIN a : a[m] = a[n] => m = n
      BY <3>1, <3>2, <3>3, <3>4, QueuedPositions, Appended
    <3>6. new' = [new EXCEPT ![w] = a]
      BY <2>2
    <3> HIDE DEF a
    <3>7. new'[w] = a /\ \A v \in Writers \ {w} : new'[v] = new[v]
      BY <3>6, QueuedPositions
    <3>8. new' \in [Writers -> Seq(Nat)]
      BY <3>5, <3>6, QueuedPositions
    <3>9. ASSUME NEW v \in Writers
          PROVE  /\ \A n \in DOMAIN new'[v] : new'[v][n] \in Instances(v)'
                 /\ \A m, n \in DOMAIN new'[v] : new'[v][m] = new'[v][n] => m = n
      <4>1. CASE v = w
        BY <3>5, <3>7, <4>1
      <4>2. CASE v # w
        BY <1>2, <3>7, <4>2, QueuedPositions
      <4> QED BY <4>1, <4>2
    <3> QED
      BY <3>8, <3>9
  <2> QED
    BY <2>1, <2>2
<1>4. SessionTypes'
  <2>1. held' \in [Writers -> Seq(HeldRow)]
    BY DEF SessionInv, SessionTypes
  <2> QED
    BY <1>3, <2>1 DEF SessionInv, SessionTypes, Rows, HeldRow, StoredRow
<1>5. Queued'
  <2> SUFFICES ASSUME NEW v \in Writers
               PROVE  \A t \in {new'[v], dirty'[v], deleted'[v]} : \A n \in DOMAIN t : t[n] \in Instances(v)'
    BY <1>3 DEF Queued
  <2>1. \A t \in {dirty[v], deleted[v]} : \A n \in DOMAIN t : t[n] \in Instances(v)'
    BY <1>2, QueuedPositions
  <2> QED
    BY <1>3, <2>1
<1>6. SyncedHeld'
  <2> SUFFICES ASSUME NEW x \in synced'
               PROVE  /\ \E v \in Writers : \E i \in Instances(v)' : x = <<v, i>>
                      /\ held'[x[1]][x[2]].key \in Rows /\ held'[x[1]][x[2]] = table[held'[x[1]][x[2]].key]
    BY DEF SyncedHeld, HeldAsStored, Rows
  <2>3. \/ x \in synced /\ (x[1] = w => s[x[2]] = held[w][x[2]])
        \/ \E i \in DOMAIN s : x = <<w, i>> /\ s[i].key \in Rows /\ s[i] = table[s[i].key]
    BY DEF SyncedStep
  <2>1. CASE x \in synced /\ (x[1] = w => s[x[2]] = held[w][x[2]])
    <3>1. PICK v, i : v \in Writers /\ i \in Instances(v) /\ x = <<v, i>>
      BY <2>1 DEF SessionInv, SyncedHeld
    <3>2. held'[v][i] = held[v][i]
      BY <1>1, <2>1, <3>1
    <3>3. held[v][i].key \in Rows /\ held[v][i] = table[held[v][i].key]
      BY <2>1, <3>1 DEF SessionInv, SyncedHeld, HeldAsStored
    <3> QED
      BY <1>2, <3>1, <3>2, <3>3
  <2>2. CASE \E i \in DOMAIN s : x = <<w, i>> /\ s[i].key \in Rows /\ s[i] = table[s[i].key]
    BY <1>1, <2>2 DEF Instances
  <2> QED
    BY <2>1, <2>2, <2>3
<1> QED
  BY <1>4, <1>5, <1>6 DEF SessionInv

LEMMA SequencesJoined ==
  ASSUME NEW S, NEW a \in Seq(S), NEW b \in Seq(S)
  PROVE  /\ a \o b \in Seq(S) /\ Len(a \o b) = Len(a) + Len(b) /\ DOMAIN (a \o b) = 1 .. Len(a) + Len(b)
         /\ \A i \in 1 .. Len(a) : (a \o b)[i] = a[i]
         /\ \A n \in 1 .. Len(b) : (a \o b)[Len(a) + n] = b[n]
<1>1. Len(a) \in Nat /\ Len(b) \in Nat
  OBVIOUS
<1>2. a \o b \in Seq(S) /\ Len(a \o b) = Len(a) + Len(b)
  OBVIOUS
<1>3. \A i \in 1 .. Len(a) + Len(b) : (a \o b)[i] = IF i <= Len(a) THEN a[i] ELSE b[i - Len(a)]
  BY <1>1
<1> QED
  BY <1>1, <1>2, <1>3

LEMMA HoldSession ==
  ASSUME SessionInv, UNCHANGED shop, NEW w \in Writers, NEW keys \in Seq(Rows), Hold(w, keys)
  PROVE  SessionInv'
<1> DEFINE got == [n \in DOMAIN keys |-> table[keys[n]]]
           s == held[w] \o got
<1>1. /\ Len(keys) \in Nat /\ DOMAIN keys = 1 .. Len(keys) /\ \A n \in 1 .. Len(keys) : keys[n] \in Rows
  OBVIOUS
<1>2. got \in Seq(HeldRow) /\ Len(got) = Len(keys) /\ \A n \in 1 .. Len(keys) : got[n] = table[keys[n]]
  <2>1. got = [n \in 1 .. Len(keys) |-> table[keys[n]]] /\ \A n \in 1 .. Len(keys) : table[keys[n]] \in HeldRow
    BY <1>1, RowsStored DEF SessionInv
  <2> HIDE DEF got
  <2> QED BY <1>1, <2>1
<1>3. held[w] \in Seq(HeldRow)
  BY DEF SessionInv, SessionTypes
<1> HIDE DEF got
<1>4. /\ s \in Seq(HeldRow) /\ Len(s) = Len(held[w]) + Len(keys) /\ DOMAIN s = 1 .. Len(held[w]) + Len(keys)
      /\ \A i \in 1 .. Len(held[w]) : s[i] = held[w][i]
      /\ \A n \in 1 .. Len(keys) : s[Len(held[w]) + n] = table[keys[n]]
  <2>1. PICK P : P = HeldRow
    OBVIOUS
  <2>2. held[w] \in Seq(P) /\ got \in Seq(P)
    BY <1>2, <1>3, <2>1
  <2>3. /\ s \in Seq(P) /\ Len(s) = Len(held[w]) + Len(got) /\ DOMAIN s = 1 .. Len(held[w]) + Len(got)
        /\ \A i \in 1 .. Len(held[w]) : s[i] = held[w][i]
        /\ \A n \in 1 .. Len(got) : s[Len(held[w]) + n] = got[n]
    BY <2>2, SequencesJoined
  <2> HIDE DEF s
  <2> QED
    BY <1>2, <2>1, <2>3
<1>5. /\ held' = [held EXCEPT ![w] = s] /\ UNCHANGED <<table, lastKey, new, dirty, deleted>>
      /\ synced' = synced \cup {<<w, Len(held[w]) + n>> : n \in DOMAIN keys}
  BY DEF Hold, got
<1>6. Instances(w) = 1 .. Len(held[w]) /\ Len(held[w]) \in Nat
  BY <1>3 DEF Instances
<1> HIDE DEF s
<1>7. ASSUME NEW x \in synced'
      PROVE  \/ x \in synced /\ (x[1] = w => s[x[2]] = held[w][x[2]])
             \/ \E i \in DOMAIN s : x = <<w, i>> /\ s[i].key \in Rows /\ s[i] = table[s[i].key]
  <2>1. CASE x \in synced
    <3>1. PICK v, i : v \in Writers /\ i \in Instances(v) /\ x = <<v, i>>
      BY <2>1 DEF SessionInv, SyncedHeld
    <3> QED BY <1>4, <1>6, <2>1, <3>1
  <2>2. CASE x \notin synced
    <3>1. PICK n \in 1 .. Len(keys) : x = <<w, Len(held[w]) + n>>
      BY <1>1, <1>5, <2>2
    <3>2. keys[n] \in Rows /\ table[keys[n]].key = keys[n]
      BY <1>1 DEF SessionInv, SessionTypes
    <3>3. Len(held[w]) + n \in DOMAIN s
      BY <1>1, <1>4, <1>6
    <3> QED BY <1>4, <3>1, <3>2, <3>3
  <2> QED BY <2>1, <2>2
<1>8. Instances(w) \subseteq DOMAIN s
  BY <1>1, <1>4, <1>6
<1>9. SyncedStep(w, s)
  BY <1>7 DEF SyncedStep
<1> QED
  BY <1>4, <1>5, <1>8, <1>9, HeldStep

LEMMA ReadSession ==
  ASSUME SessionInv, UNCHANGED shop, NEW w \in Writers, Select(w) \/ \E r \in Keys : Get(w, r)
  PROVE  SessionInv'
<1>1. CASE Select(w)
  <2>1. PICK keys \in SetToSeqs(Rows) : Hold(w, keys)
    BY <1>1 DEF Select
  <2>2. Cardinality(Rows) \in Nat
    <3>1. IsFiniteSet(1 .. MaxRows)
      BY RowsStored, FS_Interval DEF SessionInv
    <3> QED BY <3>1, RowsStored, FS_Subset, FS_CardinalityType DEF SessionInv
  <2>3. keys \in [1 .. Cardinality(Rows) -> Rows]
    BY <2>1 DEF SetToSeqs
  <2>4. keys \in Seq(Rows)
    BY <2>2, <2>3
  <2> QED BY <2>1, <2>4, HoldSession
<1>2. ASSUME NEW r \in Keys, Get(w, r) PROVE SessionInv'
  <2>1. r \in Rows /\ Hold(w, <<r>>)
    BY <1>2 DEF Get
  <2>2. <<r>> \in Seq(Rows)
    BY <2>1
  <2> QED BY <2>1, <2>2, HoldSession
<1> QED
  BY <1>1, <1>2

LEMMA AddSession ==
  ASSUME SessionInv, UNCHANGED shop, NEW w \in Writers, NEW c \in Contents, AddNew(w, c)
  PROVE  SessionInv'
<1> DEFINE o == Instance(NoKey, c)
           s == Append(held[w], o)
<1>1. o \in HeldRow /\ held[w] \in Seq(HeldRow)
  <2>1. 0 \in 0 .. lastKey /\ NoKey = 0
    BY RowsStored DEF SessionInv
  <2> QED BY <2>1 DEF Instance, HeldRow, SessionInv, SessionTypes
<1> HIDE DEF o
<1>2. /\ s \in Seq(HeldRow) /\ s = Append(held[w], s[Len(s)]) /\ DOMAIN held[w] \subseteq DOMAIN s
      /\ \A i \in DOMAIN held[w] : s[i] = held[w][i]
  BY <1>1
<1>3. /\ held' = [held EXCEPT ![w] = s] /\ UNCHANGED <<table, lastKey, dirty, deleted, synced>>
      /\ new' = [new EXCEPT ![w] = Append(@, Len(held'[w]))]
  BY DEF AddNew, o
<1> HIDE DEF s
<1>4. held'[w] = s
  BY <1>3 DEF SessionInv, SessionTypes
<1>5. \A x \in synced : x[1] = w => s[x[2]] = held[w][x[2]]
  BY <1>2 DEF SessionInv, SyncedHeld, Instances
<1>6. SyncedStep(w, s)
  BY <1>3, <1>5 DEF SyncedStep
<1>7. Instances(w) \subseteq DOMAIN s /\ new' = [new EXCEPT ![w] = Append(@, Len(s))]
  BY <1>2, <1>3, <1>4 DEF Instances
<1> QED
  BY <1>2, <1>3, <1>6, <1>7, HeldStep

LEMMA OneInstance ==
  ASSUME SessionInv, UNCHANGED <<shop, table, lastKey, new, dirty, deleted>>,
         NEW w \in Writers, NEW i \in Instances(w), NEW o \in HeldRow, held' = [held EXCEPT ![w] = [@ EXCEPT ![i] = o]],
         synced' \subseteq synced \cup {<<w, i>>}, <<w, i>> \notin synced' \/ (o.key \in Rows /\ o = table[o.key])
  PROVE  SessionInv'
<1> DEFINE s == [held[w] EXCEPT ![i] = o]
<1>1. held[w] \in Seq(HeldRow)
  BY DEF SessionInv, SessionTypes
<1>2. s \in Seq(HeldRow) /\ DOMAIN s = DOMAIN held[w] /\ s[i] = o /\ \A j \in DOMAIN s \ {i} : s[j] = held[w][j]
  BY <1>1 DEF Instances
<1>3. held' = [held EXCEPT ![w] = s]
  OBVIOUS
<1> HIDE DEF s
<1>4. ASSUME NEW x \in synced'
      PROVE  \/ x \in synced /\ (x[1] = w => s[x[2]] = held[w][x[2]])
             \/ \E j \in DOMAIN s : x = <<w, j>> /\ s[j].key \in Rows /\ s[j] = table[s[j].key]
  <2>1. CASE x = <<w, i>>
    BY <1>2, <2>1 DEF Instances
  <2>2. CASE x # <<w, i>>
    <3>1. x \in synced
      BY <2>2
    <3>2. PICK v, j : v \in Writers /\ j \in Instances(v) /\ x = <<v, j>>
      BY <3>1 DEF SessionInv, SyncedHeld
    <3>3. x[1] = w => s[x[2]] = held[w][x[2]]
      BY <1>2, <2>2, <3>2 DEF Instances
    <3> QED BY <3>1, <3>3
  <2> QED BY <2>1, <2>2
<1>5. SyncedStep(w, s)
  BY <1>4 DEF SyncedStep
<1>6. Instances(w) \subseteq DOMAIN s
  BY <1>2 DEF Instances
<1> QED
  BY <1>2, <1>3, <1>5, <1>6, HeldStep

LEMMA EditSession ==
  ASSUME SessionInv, UNCHANGED shop, NEW w \in Writers, NEW i \in Instances(w),
         Refresh(w, i) \/ \E c \in Contents : Edit(w, i, c)
  PROVE  SessionInv'
<1>1. held[w][i] \in HeldRow
  BY RowsStored DEF SessionInv
<1>2. ASSUME NEW c \in Contents, Edit(w, i, c) PROVE SessionInv'
  <2> DEFINE o == [held[w][i] EXCEPT !.content = c]
  <2>1. o \in HeldRow
    BY <1>1 DEF HeldRow
  <2>2. /\ held' = [held EXCEPT ![w] = [@ EXCEPT ![i] = o]] /\ synced' = synced \ {<<w, i>>}
        /\ UNCHANGED <<table, lastKey, new, dirty, deleted>>
    BY <1>2 DEF Edit
  <2> HIDE DEF o
  <2> QED BY <2>1, <2>2, OneInstance
<1>3. CASE Refresh(w, i)
  <2> DEFINE o == table[held[w][i].key]
  <2>1. held[w][i].key \in Rows
    BY <1>3 DEF Refresh
  <2>2. o \in HeldRow /\ o.key = held[w][i].key
    BY <2>1, RowsStored DEF SessionInv, SessionTypes
  <2>3. /\ held' = [held EXCEPT ![w] = [@ EXCEPT ![i] = o]] /\ synced' = synced \cup {<<w, i>>}
        /\ UNCHANGED <<table, lastKey, new, dirty, deleted>>
    BY <1>3 DEF Refresh
  <2>4. o.key \in Rows /\ o = table[o.key]
    BY <2>1, <2>2
  <2> HIDE DEF o
  <2> QED BY <2>2, <2>3, <2>4, OneInstance
<1> QED
  BY <1>2, <1>3

LEMMA RawSession ==
  ASSUME SessionInv, UNCHANGED shop, NEW w \in Writers, NEW r \in Keys, NEW c \in Contents, ExecuteRaw(w, r, c)
  PROVE  SessionInv'
<1> DEFINE o == [table[r] EXCEPT !.content = c]
<1>1. r \in Rows /\ table' = [table EXCEPT ![r] = o] /\ synced' = synced \ Of({r})
      /\ UNCHANGED <<lastKey, held, new, dirty, deleted>>
  BY DEF ExecuteRaw
<1>2. table[r] \in StoredRow /\ table[r].key = r
  BY <1>1, RowsStored DEF SessionInv, SessionTypes
<1>3. o \in StoredRow /\ o.key = r
  BY <1>2 DEF StoredRow
<1>4. o # Vacant
  BY <1>3, RowsStored DEF Vacant, SessionInv
<1> HIDE DEF o
<1>5. table'[r] = o /\ \A q \in Keys \ {r} : table'[q] = table[q]
  BY <1>1 DEF SessionInv, SessionTypes
<1>6. Rows' = Rows
  BY <1>1, <1>4, <1>5 DEF Rows
<1>7. SessionTypes'
  <2>1. table' \in [Keys -> StoredRow \cup {Vacant}]
    BY <1>1, <1>3 DEF SessionInv, SessionTypes
  <2>2. \A q \in Rows : table'[q].key = q
    BY <1>3, <1>5, RowsStored DEF SessionInv, SessionTypes
  <2> QED BY <1>1, <1>6, <2>1, <2>2 DEF SessionInv, SessionTypes, HeldRow, StoredRow
<1>8. \A v \in Writers : Instances(v)' = Instances(v)
  BY <1>1 DEF Instances
<1>9. Queued'
  BY <1>1, <1>8 DEF SessionInv, Queued
<1>10. SyncedHeld'
  <2> SUFFICES ASSUME NEW x \in synced' PROVE held[x[1]][x[2]] = table'[held[x[1]][x[2]].key]
    BY <1>1, <1>6, <1>8 DEF SessionInv, SyncedHeld, HeldAsStored
  <2>1. x \in synced /\ held[x[1]][x[2]].key # r
    BY <1>1 DEF Of
  <2>2. held[x[1]][x[2]].key \in Rows /\ held[x[1]][x[2]] = table[held[x[1]][x[2]].key]
    BY <2>1 DEF SessionInv, SyncedHeld, HeldAsStored
  <2> QED BY <1>5, <2>1, <2>2, RowsStored DEF SessionInv
<1> QED
  BY <1>7, <1>9, <1>10 DEF SessionInv

LEMMA CloseSession ==
  ASSUME SessionInv, UNCHANGED shop, NEW w \in Writers, Close(w)
  PROVE  SessionInv'
<1>1. /\ held' = [held EXCEPT ![w] = <<>>] /\ synced' = {x \in synced : x[1] # w}
      /\ UNCHANGED <<table, lastKey, new, dirty, deleted>> /\ new[w] \o dirty[w] \o deleted[w] = <<>>
  BY DEF Close, Pending
<1>2. new[w] = <<>> /\ dirty[w] = <<>> /\ deleted[w] = <<>>
  <2>1. \A a, b, c \in Seq(Nat) : a \o b \o c = <<>> => a = <<>> /\ b = <<>> /\ c = <<>>
    <3> SUFFICES ASSUME NEW a \in Seq(Nat), NEW b \in Seq(Nat), NEW c \in Seq(Nat), a \o b \o c = <<>>
                 PROVE  a = <<>> /\ b = <<>> /\ c = <<>>
      OBVIOUS
    <3>1. a \o b \in Seq(Nat) /\ Len(a \o b) = Len(a) + Len(b) /\ Len((a \o b) \o c) = Len(a \o b) + Len(c)
      OBVIOUS
    <3>2. Len(a) = 0 /\ Len(b) = 0 /\ Len(c) = 0
      BY <3>1
    <3> QED BY <3>2
  <2> QED BY <1>1, <2>1, QueuedPositions
<1>3. <<>> \in Seq(HeldRow) /\ DOMAIN <<>> = {}
  OBVIOUS
<1>4. held' \in [Writers -> Seq(HeldRow)] /\ \A v \in Writers \ {w} : held'[v] = held[v]
  BY <1>1, <1>3 DEF SessionInv, SessionTypes
<1>5. SessionTypes'
  BY <1>1, <1>4 DEF SessionInv, SessionTypes, Rows, HeldRow, StoredRow
<1>6. Queued'
  <2> SUFFICES ASSUME NEW v \in Writers
               PROVE  /\ \A s \in {new[v], dirty[v], deleted[v]} : \A n \in DOMAIN s : s[n] \in Instances(v)'
                      /\ \A m, n \in DOMAIN new[v] : new[v][m] = new[v][n] => m = n
    BY <1>1 DEF Queued
  <2>1. CASE v = w
    BY <1>2, <1>3, <2>1
  <2>2. CASE v # w
    BY <1>4, <2>2 DEF SessionInv, Queued, Instances
  <2> QED BY <2>1, <2>2
<1>7. SyncedHeld'
  <2> SUFFICES ASSUME NEW x \in synced, x[1] # w
               PROVE  /\ \E v \in Writers : \E i \in Instances(v)' : x = <<v, i>>
                      /\ held'[x[1]][x[2]].key \in Rows /\ held'[x[1]][x[2]] = table[held'[x[1]][x[2]].key]
    BY <1>1 DEF SyncedHeld, HeldAsStored, Rows
  <2>1. PICK v, i : v \in Writers /\ i \in Instances(v) /\ x = <<v, i>>
    BY DEF SessionInv, SyncedHeld
  <2>2. v # w /\ held'[v] = held[v]
    BY <1>4, <2>1
  <2>3. held[v][i].key \in Rows /\ held[v][i] = table[held[v][i].key]
    BY <2>1 DEF SessionInv, SyncedHeld, HeldAsStored
  <2> QED BY <2>1, <2>2, <2>3 DEF Instances
<1> QED
  BY <1>5, <1>6, <1>7 DEF SessionInv

LEMMA DropSession ==
  ASSUME SessionInv, UNCHANGED shop, DropSessions
  PROVE  SessionInv'
<1>1. /\ held' = Nothing /\ new' = Nothing /\ dirty' = Nothing /\ deleted' = Nothing
      /\ synced' = {} /\ UNCHANGED <<table, lastKey>>
  BY DEF DropSessions
<1>2. Nothing \in [Writers -> Seq(HeldRow)] /\ Nothing \in [Writers -> Seq(Nat)] /\ \A w \in Writers : DOMAIN Nothing[w] = {}
  BY DEF Nothing
<1>3. SessionTypes'
  BY <1>1, <1>2 DEF SessionInv, SessionTypes, Rows, HeldRow, StoredRow
<1> QED
  BY <1>1, <1>2, <1>3 DEF SessionInv, Queued, SyncedHeld, HeldAsStored

\* The last write of a row in the batch of w, 0 if there is none, and the key w knows
\* an instance by after it.
LastWrite(w, r) ==
  LET ns == {n \in DOMAIN Writes(w) : Writes(w)[n][1] = r}
  IN IF ns = {} THEN 0 ELSE Writes(w)[CHOOSE n \in ns : \A m \in ns : m <= n][2]
KeyTold(w, i) ==
  LET ns == {n \in DOMAIN new[w] : new[w][n] = i}
  IN IF ns = {} \/ held[w][i].key # NoKey THEN held[w][i].key ELSE Returned(w, CHOOSE n \in ns : TRUE)

Unkeyed(w) == {n \in DOMAIN Inserted(w) : held[w][new[w][n]].key = NoKey}

\* An insert uses the instance's key or one that was not given out yet.
LEMMA InsertedKeys ==
  ASSUME SessionInv, NEW w \in Writers
  PROVE  /\ DOMAIN Inserted(w) = DOMAIN new[w] /\ Cardinality(Unkeyed(w)) \in Nat
         /\ \A n \in DOMAIN new[w] :
              /\ held[w][new[w][n]].key # NoKey => Inserted(w)[n] = held[w][new[w][n]].key
              /\ Inserted(w)[n] \in 1 .. lastKey + Cardinality(Unkeyed(w))
<1>1. DOMAIN Inserted(w) = DOMAIN new[w]
  BY DEF Inserted
<1>2. DOMAIN new[w] = 1 .. Len(new[w]) /\ Len(new[w]) \in Nat
  BY QueuedPositions
<1>3. IsFiniteSet(Unkeyed(w)) /\ Cardinality(Unkeyed(w)) \in Nat
  <2>1. IsFiniteSet(1 .. Len(new[w])) /\ Unkeyed(w) \subseteq 1 .. Len(new[w])
    BY <1>1, <1>2, FS_Interval DEF Unkeyed
  <2> QED BY <2>1, FS_Subset, FS_CardinalityType
<1>4. ASSUME NEW n \in DOMAIN new[w]
      PROVE  /\ held[w][new[w][n]].key # NoKey => Inserted(w)[n] = held[w][new[w][n]].key
             /\ Inserted(w)[n] \in 1 .. lastKey + Cardinality(Unkeyed(w))
  <2> DEFINE before == {m \in 1 .. n : held[w][new[w][m]].key = NoKey}
             own == held[w][new[w][n]].key
  <2>1. Inserted(w)[n] = IF own # NoKey THEN own ELSE lastKey + Cardinality(before)
    BY DEF Inserted
  <2>2. own \in 0 .. lastKey /\ lastKey \in Nat /\ NoKey = 0
    BY QueuedPositions, RowsStored DEF SessionInv, HeldRow
  <2>3. before \subseteq Unkeyed(w)
    BY <1>1, <1>2 DEF Unkeyed
  <2>4. own = NoKey => n \in before
    BY <1>2
  <2> HIDE DEF before, own
  <2>5. IsFiniteSet(before) /\ Cardinality(before) \in Nat /\ Cardinality(before) <= Cardinality(Unkeyed(w))
    BY <1>3, <2>3, FS_Subset, FS_CardinalityType
  <2>6. own = NoKey => Cardinality(before) # 0
    BY <2>4, <2>5, FS_EmptySet
  <2>7. Inserted(w)[n] \in 1 .. lastKey + Cardinality(Unkeyed(w))
    BY <1>3, <2>1, <2>2, <2>5, <2>6
  <2> QED
    BY <2>1, <2>7 DEF own
<1> QED
  BY <1>1, <1>3, <1>4

\* The answers of the batch are paired with the instances they are about.
LEMMA ToldKeys ==
  ASSUME SessionInv, NEW w \in Writers, NEW i \in Instances(w)
  PROVE  /\ held[w][i].key # NoKey => KeyTold(w, i) = held[w][i].key
         /\ \A n \in DOMAIN new[w] : new[w][n] = i => KeyTold(w, i) = Inserted(w)[n]
         /\ KeyTold(w, i) \in 0 .. lastKey + Cardinality(Unkeyed(w))
<1> DEFINE ns == {n \in DOMAIN new[w] : new[w][n] = i}
           k == held[w][i].key
<1>1. KeyTold(w, i) = IF ns = {} \/ k # NoKey THEN k ELSE Returned(w, CHOOSE n \in ns : TRUE)
  BY DEF KeyTold
<1>2. \A n \in ns : ns = {n} /\ n \in DOMAIN new[w] /\ new[w][n] = i
  BY QueuedPositions
<1>3. \A n \in DOMAIN new[w] : Returned(w, n) = Inserted(w)[n]
  <2>1. \A n \in DOMAIN new[w] : n \in Nat
    BY QueuedPositions
  <2> QED BY <2>1 DEF Returned, FirstInsert
<1>4. k \in 0 .. lastKey /\ NoKey = 0 /\ lastKey \in Nat
  BY RowsStored DEF SessionInv, HeldRow
<1>5. k # NoKey => KeyTold(w, i) = k
  BY <1>1
<1>6. ASSUME NEW n \in DOMAIN new[w], new[w][n] = i PROVE KeyTold(w, i) = Inserted(w)[n]
  <2>1. n \in ns /\ ns = {n}
    BY <1>2, <1>6
  <2>2. (CHOOSE m \in ns : TRUE) = n
    BY <2>1
  <2>3. k # NoKey => Inserted(w)[n] = k
    BY <1>6, InsertedKeys
  <2> HIDE DEF ns, k
  <2>4. CASE k # NoKey
    BY <1>5, <2>3, <2>4
  <2>5. CASE k = NoKey
    BY <1>1, <1>3, <2>1, <2>2, <2>5
  <2> QED BY <2>4, <2>5
<1>7. KeyTold(w, i) \in 0 .. lastKey + Cardinality(Unkeyed(w))
  <2>1. Cardinality(Unkeyed(w)) \in Nat /\ \A n \in DOMAIN new[w] : Inserted(w)[n] \in 1 .. lastKey + Cardinality(Unkeyed(w))
    BY InsertedKeys
  <2>2. CASE ns = {}
    BY <1>1, <1>4, <2>1, <2>2
  <2>3. CASE ns # {}
    BY <1>6, <2>1, <2>3
  <2> QED BY <2>2, <2>3
<1> QED
  BY <1>5, <1>6, <1>7

LEMMA Joined ==
  ASSUME NEW S, NEW a \in Seq(S), NEW b \in Seq(S)
  PROVE  /\ a \o b \in Seq(S) /\ DOMAIN (a \o b) = 1 .. Len(a) + Len(b)
         /\ \A n \in 1 .. Len(a) : n \in DOMAIN (a \o b) /\ (a \o b)[n] = a[n]
         /\ \A n \in DOMAIN (a \o b) : n \notin 1 .. Len(a) => \E m \in 1 .. Len(b) : (a \o b)[n] = b[m]
<1>1. /\ a \o b \in Seq(S) /\ DOMAIN (a \o b) = 1 .. Len(a) + Len(b) /\ Len(a) \in Nat /\ Len(b) \in Nat
      /\ (\A n \in 1 .. Len(a) : (a \o b)[n] = a[n]) /\ \A m \in 1 .. Len(b) : (a \o b)[Len(a) + m] = b[m]
  BY SequencesJoined
<1>2. \A n \in 1 .. Len(a) + Len(b) : n \notin 1 .. Len(a) => n - Len(a) \in 1 .. Len(b) /\ n = Len(a) + (n - Len(a))
  BY <1>1
<1>3. \A n \in 1 .. Len(a) : n \in 1 .. Len(a) + Len(b)
  BY <1>1
<1> QED
  BY <1>1, <1>2, <1>3

\* A statement writes the row that its instance is told, if it writes one.
LEMMA WritesTold ==
  ASSUME SessionInv, NEW w \in Writers
  PROVE  /\ Writes(w) \in Seq(Nat \X Nat)
         /\ \A n \in DOMAIN Writes(w) : /\ Writes(w)[n][2] \in Instances(w)
                                        /\ Writes(w)[n][1] \in {NoKey, KeyTold(w, Writes(w)[n][2])}
         /\ \A n \in DOMAIN new[w] : \E m \in DOMAIN Writes(w) : Writes(w)[m][1] = Inserted(w)[n]
<1> DEFINE a == [n \in DOMAIN new[w] |-> <<Inserted(w)[n], new[w][n]>>]
           b == [n \in DOMAIN dirty[w] |-> <<held[w][dirty[w][n]].key, dirty[w][n]>>]
<1>1. /\ DOMAIN new[w] = 1 .. Len(new[w]) /\ Len(new[w]) \in Nat
      /\ DOMAIN dirty[w] = 1 .. Len(dirty[w]) /\ Len(dirty[w]) \in Nat
  BY QueuedPositions
<1>2. \A n \in DOMAIN new[w] : Inserted(w)[n] \in Nat /\ new[w][n] \in Nat /\ new[w][n] \in Instances(w)
  <2>1. \A n \in DOMAIN new[w] : Inserted(w)[n] \in 1 .. lastKey + Cardinality(Unkeyed(w)) /\ lastKey \in Nat /\ Cardinality(Unkeyed(w)) \in Nat
    BY InsertedKeys, RowsStored DEF SessionInv
  <2> QED BY <2>1, QueuedPositions
<1>3. \A n \in DOMAIN dirty[w] : held[w][dirty[w][n]].key \in Nat /\ dirty[w][n] \in Nat /\ dirty[w][n] \in Instances(w)
  BY QueuedPositions, RowsStored DEF SessionInv, HeldRow
<1>4. a \in Seq(Nat \X Nat) /\ Len(a) = Len(new[w]) /\ \A n \in DOMAIN new[w] : a[n] = <<Inserted(w)[n], new[w][n]>>
  <2>1. a \in [1 .. Len(new[w]) -> Nat \X Nat] /\ \A n \in DOMAIN new[w] : a[n] = <<Inserted(w)[n], new[w][n]>>
    BY <1>1, <1>2
  <2> HIDE DEF a
  <2> QED BY <1>1, <2>1
<1>5. b \in Seq(Nat \X Nat) /\ Len(b) = Len(dirty[w]) /\ \A n \in DOMAIN dirty[w] : b[n] = <<held[w][dirty[w][n]].key, dirty[w][n]>>
  <2>1. b \in [1 .. Len(dirty[w]) -> Nat \X Nat] /\ \A n \in DOMAIN dirty[w] : b[n] = <<held[w][dirty[w][n]].key, dirty[w][n]>>
    BY <1>1, <1>3
  <2> HIDE DEF b
  <2> QED BY <1>1, <2>1
<1>6. Writes(w) = a \o b
  BY DEF Writes
<1> HIDE DEF a, b
<1>7. /\ a \o b \in Seq(Nat \X Nat)
      /\ \A n \in DOMAIN new[w] : n \in DOMAIN (a \o b) /\ (a \o b)[n] = a[n]
      /\ \A n \in DOMAIN (a \o b) : n \notin DOMAIN new[w] => \E m \in DOMAIN dirty[w] : (a \o b)[n] = b[m]
  <2>1. PICK P : P = Nat \X Nat
    OBVIOUS
  <2>2. a \in Seq(P) /\ b \in Seq(P)
    BY <1>4, <1>5, <2>1
  <2>3. /\ a \o b \in Seq(P)
        /\ \A n \in 1 .. Len(a) : n \in DOMAIN (a \o b) /\ (a \o b)[n] = a[n]
        /\ \A n \in DOMAIN (a \o b) : n \notin 1 .. Len(a) => \E m \in 1 .. Len(b) : (a \o b)[n] = b[m]
    BY <2>2, Joined
  <2> QED
    BY <1>1, <1>4, <1>5, <2>1, <2>3
<1>8. ASSUME NEW n \in DOMAIN Writes(w)
      PROVE  Writes(w)[n][2] \in Instances(w) /\ Writes(w)[n][1] \in {NoKey, KeyTold(w, Writes(w)[n][2])}
  <2>1. CASE n \in DOMAIN new[w]
    <3>1. Writes(w)[n] = <<Inserted(w)[n], new[w][n]>>
      BY <1>4, <1>6, <1>7, <2>1
    <3> QED BY <1>2, <2>1, <3>1, ToldKeys
  <2>2. CASE n \notin DOMAIN new[w]
    <3>1. PICK m \in DOMAIN dirty[w] : Writes(w)[n] = b[m]
      BY <1>6, <1>7, <2>2
    <3>2. Writes(w)[n] = <<held[w][dirty[w][m]].key, dirty[w][m]>>
      BY <1>5, <3>1
    <3> QED BY <1>3, <3>2, ToldKeys
  <2> QED BY <2>1, <2>2
<1>9. ASSUME NEW n \in DOMAIN new[w] PROVE n \in DOMAIN Writes(w) /\ Writes(w)[n][1] = Inserted(w)[n]
  BY <1>4, <1>6, <1>7
<1> QED
  BY <1>6, <1>7, <1>8, <1>9

LEMMA LastWrites ==
  ASSUME SessionInv, NEW w \in Writers, NEW r
  PROVE  \/ LastWrite(w, r) = 0 /\ \A n \in DOMAIN Writes(w) : Writes(w)[n][1] # r
         \/ \E n \in DOMAIN Writes(w) : LastWrite(w, r) = Writes(w)[n][2] /\ Writes(w)[n][1] = r
<1> DEFINE ns == {n \in DOMAIN Writes(w) : Writes(w)[n][1] = r}
           top == CHOOSE n \in ns : \A m \in ns : m <= n
<1>1. LastWrite(w, r) = IF ns = {} THEN 0 ELSE Writes(w)[top][2]
  BY DEF LastWrite
<1>2. ns # {} => top \in ns
  <2> SUFFICES ASSUME ns # {} PROVE \E n \in ns : \A m \in ns : m <= n
    OBVIOUS
  <2>1. Len(Writes(w)) \in Nat /\ DOMAIN Writes(w) = 1 .. Len(Writes(w))
    BY WritesTold
  <2>2. ns \in SUBSET (0 .. Len(Writes(w)))
    BY <2>1
  <2> HIDE DEF ns
  <2> QED BY <2>1, <2>2, Greatest
<1> HIDE DEF top
<1> QED
  BY <1>1, <1>2

LEMMA FlushSession ==
  ASSUME SessionInv, UNCHANGED shop, NEW w \in Writers, Flush(w)
  PROVE  SessionInv'
<1> DEFINE keys  == Inserted(w)
           wr    == Writes(w)
           gone  == {held[w][i].key : i \in Range(deleted[w])}
           live  == (Rows \cup Range(keys)) \ gone
           grown == Cardinality(Unkeyed(w))
           wrote == {wr[n][1] : n \in DOMAIN wr}
           told  == [i \in DOMAIN held[w] |-> [held[w][i] EXCEPT !.key = KeyTold(w, i)]]
<1>1. /\ lastKey + grown <= MaxRows /\ lastKey' = lastKey + grown
      /\ table' = [r \in Keys |-> IF r \notin live THEN Vacant
                                  ELSE IF LastWrite(w, r) = 0 THEN table[r]
                                  ELSE Instance(r, held[w][LastWrite(w, r)].content)]
      /\ held' = [held EXCEPT ![w] = told]
      /\ synced' = (synced \ Of(wrote \cup gone)) \cup {<<w, LastWrite(w, r)>> : r \in {s \in live : LastWrite(w, s) # 0}}
      /\ new' = [new EXCEPT ![w] = <<>>] /\ dirty' = [dirty EXCEPT ![w] = <<>>] /\ deleted' = [deleted EXCEPT ![w] = <<>>]
  BY DEF Flush, LastWrite, KeyTold, Unkeyed
<1>2. /\ grown \in Nat /\ lastKey \in Nat /\ lastKey' \in Nat /\ lastKey <= lastKey' /\ lastKey' \in 0 .. MaxRows
      /\ Keys = 1 .. MaxRows /\ MaxRows \in Nat /\ NoKey = 0
  BY <1>1, InsertedKeys, RowsStored DEF SessionInv
<1>3. live \subseteq 1 .. lastKey' /\ live \subseteq Keys
  <2>1. \A n \in DOMAIN new[w] : keys[n] \in 1 .. lastKey'
    BY <1>1, InsertedKeys
  <2>2. Range(keys) \subseteq 1 .. lastKey'
    BY <2>1, InsertedKeys DEF Range
  <2>3. Rows \subseteq 1 .. lastKey'
    BY <1>2, RowsStored DEF SessionInv
  <2>4. 1 .. lastKey' \subseteq Keys
    BY <1>2
  <2>5. live \subseteq Rows \cup Range(keys)
    OBVIOUS
  <2> HIDE DEF live
  <2> QED BY <2>2, <2>3, <2>4, <2>5
\* What is written of a row is the instance that was told its key.
<1>4. ASSUME NEW r \in live
      PROVE  \/ LastWrite(w, r) = 0 /\ r \in Rows /\ r \notin wrote
             \/ LastWrite(w, r) # 0 /\ LastWrite(w, r) \in Instances(w) /\ KeyTold(w, LastWrite(w, r)) = r
  <2>1. CASE LastWrite(w, r) = 0 /\ \A n \in DOMAIN wr : wr[n][1] # r
    <3>1. r \notin wrote
      BY <2>1
    <3>2. r \notin Range(keys)
      BY <2>1, WritesTold, InsertedKeys DEF Range
    <3> QED BY <2>1, <3>1, <3>2
  <2>2. CASE \E n \in DOMAIN wr : LastWrite(w, r) = wr[n][2] /\ wr[n][1] = r
    <3>1. LastWrite(w, r) \in Instances(w) /\ r \in {NoKey, KeyTold(w, LastWrite(w, r))}
      BY <2>2, WritesTold
    <3>2. r # NoKey
      BY <1>2, <1>3
    <3>3. LastWrite(w, r) # 0
      BY <3>1, RowsStored DEF SessionInv
    <3> QED BY <3>1, <3>2, <3>3
  <2> QED
    BY <2>1, <2>2, LastWrites
<1>5. /\ DOMAIN told = DOMAIN held[w]
      /\ \A i \in Instances(w) : told[i] = Instance(KeyTold(w, i), held[w][i].content) /\ told[i] \in HeldRow'
  <2>1. \A i \in Instances(w) : held[w][i] \in HeldRow /\ told[i] = [held[w][i] EXCEPT !.key = KeyTold(w, i)]
    BY RowsStored DEF SessionInv, Instances
  <2>2. \A i \in Instances(w) : KeyTold(w, i) \in 0 .. lastKey'
    BY <1>1, ToldKeys
  <2>3. DOMAIN told = DOMAIN held[w]
    OBVIOUS
  <2> HIDE DEF told
  <2> QED BY <2>1, <2>2, <2>3 DEF HeldRow, Instance
<1>6. /\ held'[w] = told /\ \A v \in Writers \ {w} : held'[v] = held[v]
      /\ held' \in [Writers -> Seq(HeldRow')]
  <2>1. /\ held'[w] = told /\ \A v \in Writers \ {w} : held'[v] = held[v]
        /\ held' = [v \in Writers |-> held'[v]]
    <3> HIDE DEF told
    <3> QED BY <1>1 DEF SessionInv, SessionTypes
  <2>2. HeldRow \subseteq HeldRow'
    BY <1>2 DEF HeldRow
  <2>3. told \in Seq(HeldRow')
    <3>1. DOMAIN held[w] = 1 .. Len(held[w]) /\ Len(held[w]) \in Nat
      BY RowsStored DEF SessionInv, Instances
    <3>2. told = [i \in 1 .. Len(held[w]) |-> told[i]] /\ \A i \in 1 .. Len(held[w]) : told[i] \in HeldRow'
      BY <1>5, <3>1 DEF Instances
    <3> HIDE DEF told
    <3>3. told \in [1 .. Len(held[w]) -> HeldRow']
      BY <3>2
    <3> QED BY <3>1, <3>3
  <2>4. \A v \in Writers : held[v] \in Seq(HeldRow')
    BY <2>2 DEF SessionInv, SessionTypes
  <2> HIDE DEF told
  <2> QED BY <2>1, <2>3, <2>4
<1>7. \A v \in Writers : Instances(v)' = Instances(v)
  BY <1>5, <1>6 DEF Instances
<1>8. \A r \in live : /\ table'[r].key = r /\ table'[r] \in StoredRow' /\ table'[r] # Vacant
                      /\ LastWrite(w, r) # 0 => table'[r] = told[LastWrite(w, r)]
                      /\ LastWrite(w, r) = 0 => table'[r] = table[r]
  <2> SUFFICES ASSUME NEW r \in live
               PROVE  /\ table'[r].key = r /\ table'[r] \in StoredRow' /\ table'[r] # Vacant
                      /\ LastWrite(w, r) # 0 => table'[r] = told[LastWrite(w, r)]
                      /\ LastWrite(w, r) = 0 => table'[r] = table[r]
    OBVIOUS
  <2>1. /\ LastWrite(w, r) = 0 => table'[r] = table[r]
        /\ LastWrite(w, r) # 0 => table'[r] = Instance(r, held[w][LastWrite(w, r)].content)
        /\ r \in 1 .. lastKey' /\ r # NoKey
    <3> HIDE DEF live
    <3> QED BY <1>1, <1>2, <1>3
  <2>2. CASE LastWrite(w, r) = 0
    <3>1. r \in Rows
      BY <1>4, <2>2
    <3>2. table[r] \in StoredRow /\ table[r].key = r /\ table[r] # Vacant
      BY <3>1, RowsStored DEF SessionInv, SessionTypes, Rows
    <3>3. StoredRow \subseteq StoredRow'
      BY <1>2 DEF StoredRow
    <3> QED BY <2>1, <2>2, <3>2, <3>3
  <2>3. CASE LastWrite(w, r) # 0
    <3>1. PICK i \in Instances(w) : i = LastWrite(w, r) /\ KeyTold(w, i) = r
      BY <1>4, <2>3
    <3>2. held[w][i].content \in Contents
      BY RowsStored DEF SessionInv, HeldRow
    <3>3. told[i] = Instance(r, held[w][i].content)
      BY <1>5, <3>1
    <3>4. Instance(r, held[w][i].content) # Vacant
      BY <2>1, RowsStored DEF SessionInv
    <3>5. Instance(r, held[w][i].content).key = r /\ Instance(r, held[w][i].content) \in StoredRow'
      BY <2>1, <3>2 DEF Instance, StoredRow
    <3> HIDE DEF told
    <3> QED BY <2>1, <2>3, <3>1, <3>3, <3>4, <3>5
  <2> QED BY <2>2, <2>3
<1>9. Rows' = live
  <2>1. \A r \in Keys \ live : table'[r] = Vacant
    <3> HIDE DEF live
    <3> QED BY <1>1
  <2> HIDE DEF live
  <2> QED BY <1>3, <1>8, <2>1 DEF Rows
<1> HIDE DEF told, live, keys, wr, grown
<1>10. SessionTypes'
  <2>1. {new', dirty', deleted'} \subseteq [Writers -> Seq(Nat)]
    <3>1. <<>> \in Seq(Nat)
      OBVIOUS
    <3> QED BY <1>1, <3>1, QueuedPositions
  <2>2. table' \in [Keys -> StoredRow' \cup {Vacant}]
    <3>1. \A r \in Keys : table'[r] \in StoredRow' \cup {Vacant}
      BY <1>8, <1>9 DEF Rows
    <3>2. table' = [r \in Keys |-> table'[r]]
      BY <1>1
    <3> QED BY <3>1, <3>2
  <2>3. \A r \in Rows' : table'[r].key = r
    BY <1>8, <1>9
  <2> QED
    BY <1>2, <1>6, <2>1, <2>2, <2>3 DEF SessionInv, SessionTypes
<1>11. Queued'
  <2> SUFFICES ASSUME NEW v \in Writers
               PROVE  /\ \A s \in {new'[v], dirty'[v], deleted'[v]} : \A n \in DOMAIN s : s[n] \in Instances(v)
                      /\ \A m, n \in DOMAIN new'[v] : new'[v][m] = new'[v][n] => m = n
    BY <1>7 DEF Queued
  <2>1. CASE v = w
    <3>1. new'[v] = <<>> /\ dirty'[v] = <<>> /\ deleted'[v] = <<>> /\ DOMAIN <<>> = {}
      BY <1>1, <2>1, QueuedPositions
    <3> QED BY <3>1
  <2>2. CASE v # w
    <3>1. new'[v] = new[v] /\ dirty'[v] = dirty[v] /\ deleted'[v] = deleted[v]
      BY <1>1, <2>2, QueuedPositions
    <3> QED BY <3>1 DEF SessionInv, Queued
  <2> QED BY <2>1, <2>2
<1>12. SyncedHeld'
  <2> SUFFICES ASSUME NEW x \in synced'
               PROVE  /\ \E v \in Writers : \E i \in Instances(v) : x = <<v, i>>
                      /\ held'[x[1]][x[2]].key \in live /\ held'[x[1]][x[2]] = table'[held'[x[1]][x[2]].key]
    BY <1>7, <1>9 DEF SyncedHeld, HeldAsStored
  <2>1. CASE x \in synced /\ x \notin Of(wrote \cup gone)
    <3>1. PICK v, i : v \in Writers /\ i \in Instances(v) /\ x = <<v, i>>
      BY <2>1 DEF SessionInv, SyncedHeld
    <3> DEFINE o == held[v][i]
    <3>2. o.key \in Rows /\ o = table[o.key] /\ o.key \notin wrote /\ o.key \notin gone
      BY <2>1, <3>1 DEF SessionInv, SyncedHeld, HeldAsStored, Of
    <3>3. o.key \in live
      BY <3>2 DEF live
    <3>4. LastWrite(w, o.key) = 0
      <4>1. \A n \in DOMAIN wr : wr[n][1] # o.key
        BY <3>2
      <4>2. LastWrite(w, o.key) = 0 \/ \E n \in DOMAIN wr : wr[n][1] = o.key
        BY LastWrites DEF wr
      <4> QED BY <4>1, <4>2
    <3>5. held'[v][i] = o
      <4>1. CASE v # w
        BY <1>6, <3>1, <4>1
      <4>2. CASE v = w
        <5>1. o \in HeldRow /\ o.key # NoKey
          BY <3>2, RowsStored DEF SessionInv
        <5>2. KeyTold(w, i) = o.key
          BY <3>1, <4>2, <5>1, ToldKeys
        <5>3. Instance(o.key, o.content) = o
          BY <5>1 DEF Instance, HeldRow
        <5> QED BY <1>5, <1>6, <3>1, <4>2, <5>2, <5>3
      <4> QED BY <4>1, <4>2
    <3> HIDE DEF o
    <3> QED
      BY <1>8, <3>1, <3>2, <3>3, <3>4, <3>5
  <2>2. CASE \E r \in live : LastWrite(w, r) # 0 /\ x = <<w, LastWrite(w, r)>>
    <3>1. PICK r \in live : LastWrite(w, r) # 0 /\ x = <<w, LastWrite(w, r)>>
      BY <2>2
    <3>2. LastWrite(w, r) \in Instances(w)
      BY <1>4, <3>1
    <3>3. held'[w][LastWrite(w, r)] = table'[r] /\ table'[r].key = r
      BY <1>6, <1>8, <3>1
    <3> QED
      BY <3>1, <3>2, <3>3
  <2> QED
    BY <1>1, <2>1, <2>2
<1> QED
  BY <1>10, <1>11, <1>12 DEF SessionInv

LEMMA SessionStays == SessionInv /\ [Next]_vars => SessionInv'
<1> SUFFICES ASSUME SessionInv, [Next]_vars PROVE SessionInv'
  OBVIOUS
<1>1. UNCHANGED shop /\ (UNCHANGED sessionVars \/ SessionStep \/ DropSessions)
  BY NextSessions
<1>2. CASE UNCHANGED sessionVars
  <2>1. UNCHANGED <<table, lastKey, held, new, dirty, deleted, synced>>
    BY <1>2 DEF sessionVars
  <2>2. SessionTypes'
    BY <1>1, <2>1 DEF SessionInv, SessionTypes, Rows, HeldRow, StoredRow
  <2> QED
    BY <2>1, <2>2 DEF SessionInv, Queued, SyncedHeld, HeldAsStored, Instances, Rows
<1>3. CASE SessionStep
  <2>1. shop.writers \subseteq Writers
    BY ShopAssumption DEF SessionInv, SessionTypes
  <2>2. PICK w \in shop.writers :
          \/ Select(w) \/ Flush(w) \/ Rollback(w) \/ Close(w)
          \/ \E r \in Keys : Get(w, r) \/ \E c \in Contents : ExecuteRaw(w, r, c)
          \/ \E c \in Contents : AddNew(w, c)
          \/ \E i \in Instances(w) \ Range(deleted[w]) :
               \/ AddLoaded(w, i) \/ MarkDirty(w, i) \/ DeleteHeld(w, i) \/ Refresh(w, i)
               \/ \E c \in Contents : Edit(w, i, c)
    BY <1>3 DEF SessionStep
  <2>3. w \in Writers
    BY <2>1
  <2>4. CASE Select(w) \/ \E r \in Keys : Get(w, r)
    BY <1>1, <2>3, <2>4, ReadSession
  <2>5. CASE Flush(w) \/ Rollback(w) \/ Close(w)
    BY <1>1, <2>3, <2>5, FlushSession, RollbackSession, CloseSession
  <2>6. ASSUME NEW c \in Contents, AddNew(w, c) \/ \E r \in Keys : ExecuteRaw(w, r, c) PROVE SessionInv'
    BY <1>1, <2>3, <2>6, AddSession, RawSession
  <2>7. ASSUME NEW i \in Instances(w), AddLoaded(w, i) \/ MarkDirty(w, i) \/ DeleteHeld(w, i) PROVE SessionInv'
    BY <1>1, <2>3, <2>7, QueueActions
  <2>8. ASSUME NEW i \in Instances(w), Refresh(w, i) \/ \E c \in Contents : Edit(w, i, c) PROVE SessionInv'
    BY <1>1, <2>3, <2>8, EditSession
  <2> QED
    BY <2>2, <2>4, <2>5, <2>6, <2>7, <2>8
<1>4. CASE DropSessions
  BY <1>1, <1>4, DropSession
<1> QED
  BY <1>1, <1>2, <1>3, <1>4

LEMMA SessionStarts == Init => SessionInv
<1> SUFFICES ASSUME Init PROVE SessionInv
  OBVIOUS
<1>1. /\ shop \in Shops /\ table = [r \in Keys |-> Vacant] /\ lastKey = 0 /\ synced = {}
      /\ held = Nothing /\ new = Nothing /\ dirty = Nothing /\ deleted = Nothing
  BY DEF Init, SessionInit
<1>2. Nothing \in [Writers -> Seq(HeldRow)] /\ Nothing \in [Writers -> Seq(Nat)] /\ \A w \in Writers : DOMAIN Nothing[w] = {}
  BY DEF Nothing
<1>3. Rows = {} /\ lastKey \in 0 .. MaxRows
  BY <1>1, SessionAssumption DEF Rows
<1> QED
  BY <1>1, <1>2, <1>3 DEF SessionInv, SessionTypes, Queued, SyncedHeld, HeldAsStored

\* An instance that a request has read or written, and that neither it nor anyone else has
\* changed since, is its row, whatever the batches held it was sent with and whichever
\* were refused (D1HTTPAsyncSession.flush).
THEOREM InstancesAreRows == Spec => []HeldAsStored
<1>1. Spec => []SessionInv
  BY SessionStarts, SessionStays, PTL DEF Spec
<1>2. SessionInv => HeldAsStored
  BY DEF SessionInv, SyncedHeld
<1> QED
  BY <1>1, <1>2, PTL

LEMMA SessionsTyped == Spec => []SessionTypeOK
<1>1. SessionInv => SessionTypeOK
  <2> SUFFICES ASSUME SessionInv PROVE SessionTypeOK
    OBVIOUS
  <2>1. \A r \in Keys : table[r] # Vacant => table[r] \in StoredRow /\ table[r].key = r
    BY DEF SessionInv, SessionTypes, Rows
  <2>2. \A r \in Keys : table[r] # Vacant => table[r].key = r /\ r <= lastKey
    BY <2>1 DEF StoredRow, SessionInv, SessionTypes, Keys
  <2>3. ASSUME NEW w \in Writers
        PROVE  Range(new[w]) \cup Range(dirty[w]) \cup Range(deleted[w]) \subseteq Instances(w)
    BY DEF SessionInv, Queued, Range
  <2> QED
    BY <2>2, <2>3 DEF SessionInv, SessionTypes, SessionTypeOK
<1> QED
  BY <1>1, SessionStarts, SessionStays, PTL DEF Spec

-----------------------------------------------------------------------------
(* The types of the whole shop *)

LEMMA NextMessages ==
  [Next]_vars => UNCHANGED shop /\ (UNCHANGED template \/ MessagesStep)
BY DEF Next, vars, Requests, Served, DropRequests, messageVars

LEMMA MessagesTyped == Spec => []MessagesTypeOK
<1> DEFINE Inv == shop \in Shops /\ MessagesTypeOK
<1>1. Init => Inv
  BY DEF Init, MessagesInit, MessagesTypeOK
<1>2. Inv /\ [Next]_vars => Inv'
  <2> SUFFICES ASSUME Inv, [Next]_vars PROVE Inv'
    OBVIOUS
  <2>1. UNCHANGED shop /\ (UNCHANGED template \/ MessagesStep)
    BY NextMessages
  <2>2. CASE UNCHANGED template
    BY <2>1, <2>2 DEF MessagesTypeOK
  <2>3. CASE MessagesStep
    <3>1. PICK m \in Templates : ResetTemplate(m) \/ \E on \in BOOLEAN : SaveTemplate(m, on)
      BY <2>3, ShopAssumption DEF MessagesStep
    <3> QED
      BY <2>1, <3>1 DEF ResetTemplate, SaveTemplate, MessagesTypeOK
  <2> QED
    BY <2>1, <2>2, <2>3
<1>3. Inv => MessagesTypeOK
  OBVIOUS
<1> QED
  BY <1>1, <1>2, <1>3, PTL DEF Spec

LEMMA WebhooksTyped == Spec => []WebhooksTypeOK
<1> DEFINE Bounded == made \in 0 .. MaxSecrets
<1>1. Init => Bounded
  BY WebhooksAssumption DEF Init, WebhooksInit
<1>2. HookInv /\ Bounded /\ [Next]_vars => Bounded'
  <2> SUFFICES ASSUME HookInv, Bounded, [Next]_vars PROVE Bounded'
    OBVIOUS
  <2>1. made' = made \/ (made < MaxSecrets /\ made' = made + 1)
    BY NextWebhooks DEF webhookVars, WebhooksStep, SaveHook, RotateHook, Emit, HookBegin, HookWrite, HookFails, DropHooks
  <2> QED
    BY <2>1, WebhooksAssumption
<1>3. HookInv /\ Bounded => WebhooksTypeOK
  <2> SUFFICES ASSUME HookInv, Bounded PROVE WebhooksTypeOK
    OBVIOUS
  <2>1. \A h \in Hooks : hook[h].op \in {"none", "save", "reveal", "record"}
    BY DEF HookInv, HookBusy, NoHook
  <2>2. endpoint \in [exists : BOOLEAN, enabled : BOOLEAN, secret : 0 .. MaxSecrets]
    BY WebhooksAssumption DEF HookInv, HookRow
  <2>3. shown \in 0 .. made
    BY DEF HookInv
  <2> QED
    BY <2>1, <2>2, <2>3 DEF WebhooksTypeOK
<1> QED
  BY <1>1, <1>2, <1>3, HookAlways, PTL DEF Spec

\* A file that is stored is an asset's.
LEMMA MediaTyped == Spec => []MediaTypeOK
<1> DEFINE Known == files \subseteq UNION {Files(a) : a \in Assets}
<1>1. Init => Known
  BY DEF Init, MediaInit
<1>2. MediaInv /\ Known /\ [Next]_vars => Known'
  <2> SUFFICES ASSUME MediaInv, Known, [Next]_vars PROVE Known'
    OBVIOUS
  <2>1. ASSUME NEW p \in Editors, Store(p), edit[p].op \in {"store", "import"}
        PROVE  Known'
    <3>1. PICK f \in edit[p].todo : files' = files \cup {f}
      BY <2>1 DEF Store
    <3>2. edit[p].a \in Assets /\ edit[p].todo \subseteq Files(edit[p].a)
      BY <3>1 DEF MediaInv, MediaTypes, EditState, Shaped
    <3> QED
      BY <3>1, <3>2
  <2>2. CASE files' \subseteq files
    BY <2>2
  <2>3. shop.editors \subseteq Editors
    BY ShopAssumption DEF MediaInv, MediaTypes
  <2>4. files' \subseteq files \/ \E p \in Editors : Store(p) /\ edit[p].op \in {"store", "import"}
    BY <2>3, NextMedia
       DEF mediaVars, MediaStep, DropEdits, UploadLogo, StoreOne, StoreLogo, StoreRow, StoreImported, ImportCommit,
           DeleteOne, DeleteRow, EditFails, UploadImage, DownloadImage, Delete, ImportImages
  <2> QED
    BY <2>1, <2>2, <2>4
<1>3. MediaInv /\ Known => MediaTypeOK
  BY DEF MediaInv, MediaTypes, EditState, Shaped, MediaTypeOK
<1> QED
  BY <1>1, <1>2, <1>3, MediaAlways, PTL DEF Spec

LEMMA FulfilTyped == Spec => []FulfilTypeOK
<1>1. PayTypes => FulfilTypeOK
  BY DEF PayTypes, PayState, FulfilTypeOK
<1> QED
  BY <1>1, PayAlways, PTL

\* One more redirect than those that g has followed.
Follow(n, g) ==
  [u \in Urls |->
     IF u \notin Allowed THEN {}
     ELSE IF LeadsTo[u] \in Archives THEN {LeadsTo[u]}
     ELSE IF n = 0 THEN {} ELSE g[LeadsTo[u]]]

Follows(F, n) == F = [k \in 0 .. n |-> Follow(k, F[k - 1])]

LEMMA FollowsExists ==
  ASSUME NEW m \in Nat
  PROVE  \E F : Follows(F, m)
<1> DEFINE N == {n \in Nat : \E F : Follows(F, n)}
<1>1. \A g, h : Follow(0, g) = Follow(0, h)
  BY DEF Follow
<1>2. 0 \in N
  <2> DEFINE F == [k \in 0 .. 0 |-> Follow(0, {})]
  <2>1. \A k \in 0 .. 0 : k = 0
    OBVIOUS
  <2>2. \A k \in 0 .. 0 : Follow(k, F[k - 1]) = Follow(0, {})
    BY <1>1, <2>1
  <2>3. F = [k \in 0 .. 0 |-> Follow(k, F[k - 1])]
    BY <2>2
  <2> QED
    BY <2>3 DEF Follows
<1>3. ASSUME NEW n \in Nat, n \in N
      PROVE  n + 1 \in N
  <2>1. PICK F : Follows(F, n)
    BY <1>3
  <2> DEFINE G == [k \in 0 .. n + 1 |-> Follow(k, F[k - 1])]
  <2>2. \A k \in 0 .. n : G[k] = F[k]
    <3> SUFFICES ASSUME NEW k \in 0 .. n PROVE G[k] = F[k]
      OBVIOUS
    <3>1. G[k] = Follow(k, F[k - 1])
      OBVIOUS
    <3> HIDE DEF G
    <3> QED
      BY <2>1, <3>1 DEF Follows
  <2>3. \A k \in 0 .. n + 1 : Follow(k, G[k - 1]) = Follow(k, F[k - 1])
    <3>1. \A k \in 0 .. n + 1 : k = 0 \/ k - 1 \in 0 .. n
      OBVIOUS
    <3> HIDE DEF G
    <3> QED
      BY <1>1, <2>2, <3>1
  <2>4. G = [k \in 0 .. n + 1 |-> Follow(k, F[k - 1])]
    OBVIOUS
  <2> HIDE DEF G
  <2>5. Follows(G, n + 1)
    BY <2>3, <2>4 DEF Follows
  <2> QED
    BY <2>5
<1> HIDE DEF N
<1>4. Nat \subseteq N
  BY <1>2, <1>3, NumbersByInduction
<1> QED
  BY <1>4 DEF N

\* Whatever a URL leads to, it is an archive.
LEMMA DownloadsArchives ==
  \A u \in Urls : Download[MaxRedirects][u] \subseteq Archives
<1> DEFINE Def(F) == F = [n \in 0 .. MaxRedirects |->
                            [u \in Urls |->
                               IF u \notin Allowed THEN {}
                               ELSE IF LeadsTo[u] \in Archives THEN {LeadsTo[u]}
                               ELSE IF n = 0 THEN {} ELSE F[n - 1][LeadsTo[u]]]]
           I == CHOOSE F : Def(F)
<1>1. MaxRedirects \in Nat /\ LeadsTo \in [Urls -> Urls \cup Archives]
  BY ArchivesAssumption
<1>2. \E F : Def(F)
  <2>1. PICK F : Follows(F, MaxRedirects)
    BY <1>1, FollowsExists
  <2>2. Def(F)
    BY <2>1 DEF Follows, Follow
  <2> QED
    BY <2>2
<1>3. Def(I)
  <2> HIDE DEF Def
  <2> QED
    BY <1>2
<1>4. Download = I
  BY DEF Download
<1>5. Def(Download)
  <2> HIDE DEF Def, I
  <2> QED
    BY <1>3, <1>4
<1> HIDE DEF I
<1>6. \A n \in 0 .. MaxRedirects, u \in Urls :
        Download[n][u] = IF u \notin Allowed THEN {}
                         ELSE IF LeadsTo[u] \in Archives THEN {LeadsTo[u]}
                         ELSE IF n = 0 THEN {} ELSE Download[n - 1][LeadsTo[u]]
  <2> SUFFICES ASSUME NEW n \in 0 .. MaxRedirects, NEW u \in Urls
               PROVE  Download[n][u] = IF u \notin Allowed THEN {}
                         ELSE IF LeadsTo[u] \in Archives THEN {LeadsTo[u]}
                         ELSE IF n = 0 THEN {} ELSE Download[n - 1][LeadsTo[u]]
    OBVIOUS
  <2> DEFINE D == Download
  <2>1. Def(D)
    BY <1>5
  <2> HIDE DEF D
  <2>2. D[n][u] = IF u \notin Allowed THEN {}
                  ELSE IF LeadsTo[u] \in Archives THEN {LeadsTo[u]}
                  ELSE IF n = 0 THEN {} ELSE D[n - 1][LeadsTo[u]]
    <3>1. Follows(D, MaxRedirects)
      BY <2>1 DEF Follows, Follow
    <3>2. D[n] = Follow(n, D[n - 1])
      BY <3>1 DEF Follows
    <3> QED
      BY <3>2 DEF Follow
  <2> QED
    BY <2>2 DEF D
<1> HIDE DEF Def
<1> DEFINE N == {n \in Nat : n \in 0 .. MaxRedirects => \A u \in Urls : Download[n][u] \subseteq Archives}
<1>7. 0 \in N
  <2> SUFFICES ASSUME 0 \in 0 .. MaxRedirects, NEW u \in Urls
               PROVE  Download[0][u] \subseteq Archives
    OBVIOUS
  <2>1. Download[0][u] = IF u \notin Allowed THEN {}
                         ELSE IF LeadsTo[u] \in Archives THEN {LeadsTo[u]} ELSE {}
    BY <1>6
  <2> QED
    BY <2>1
<1>8. ASSUME NEW n \in Nat, n \in N
      PROVE  n + 1 \in N
  <2> SUFFICES ASSUME n + 1 \in 0 .. MaxRedirects, NEW u \in Urls
               PROVE  Download[n + 1][u] \subseteq Archives
    OBVIOUS
  <2>1. n \in 0 .. MaxRedirects /\ n + 1 # 0 /\ (n + 1) - 1 = n
    BY <1>1
  <2>2. \A v \in Urls : Download[n][v] \subseteq Archives
    BY <1>8, <2>1
  <2>3. Download[n + 1][u] \in {{}, {LeadsTo[u]}, Download[n][LeadsTo[u]]}
    BY <1>6, <2>1
  <2>4. Download[n + 1][u] = IF u \notin Allowed THEN {}
                             ELSE IF LeadsTo[u] \in Archives THEN {LeadsTo[u]} ELSE Download[n][LeadsTo[u]]
    BY <1>6, <2>1
  <2> QED
    BY <1>1, <2>2, <2>4
<1> HIDE DEF N
<1>9. Nat \subseteq N
  BY <1>7, <1>8, NumbersByInduction
<1> QED
  BY <1>1, <1>9 DEF N

LEMMA InstallTyped ==
  ASSUME DOMAIN package = Places, ArchivesTypeOK, NEW a \in Archives, NEW force, NEW u \in Urls \cup {NoUrl},
         Install(a, force, u)
  PROVE  ArchivesTypeOK'
<1> DEFINE p == <<a.cat, a.id>>
           after == [there |-> TRUE, classes |-> a.classes, init |-> a.init,
                     url |-> IF u = NoUrl THEN a.url ELSE u]
<1>1. package' = [package EXCEPT ![p] = after] /\ running' = running
  BY DEF Install
<1>2. after.url \in Urls \cup {NoUrl}
  BY ArchivesAssumption
<1> HIDE DEF p, after
<1>3. \A q \in Places : package'[q].url \in Urls \cup {NoUrl}
  BY <1>1, <1>2 DEF ArchivesTypeOK
<1> QED
  BY <1>1, <1>3 DEF ArchivesTypeOK

LEMMA ArchivesTyped == Spec => []ArchivesTypeOK
<1>1. Init => ArchivesTypeOK
  BY DEF Init, ArchivesInit, ArchivesTypeOK, NoPackage
<1>2. PlacedInv /\ ArchivesTypeOK /\ [Next]_vars => ArchivesTypeOK'
  <2> SUFFICES ASSUME PlacedInv, ArchivesTypeOK, [Next]_vars PROVE ArchivesTypeOK'
    OBVIOUS
  <2>1. UNCHANGED archiveVars \/ ArchivesStep \/ Discover
    BY DEF Next, vars, Requests, Served, DropRequests
  <2>2. CASE UNCHANGED archiveVars
    BY <2>2 DEF archiveVars, ArchivesTypeOK
  <2>3. CASE Discover
    BY <2>3 DEF Discover, Registrations, ArchivesTypeOK
  <2>4. ASSUME NEW u \in Urls, NEW force, InstallFromUrl(u, force)
        PROVE  ArchivesTypeOK'
    BY <2>4, DownloadsArchives, InstallTyped DEF InstallFromUrl, PlacedInv
  <2>5. ASSUME NEW i \in Ids, Update(i)
        PROVE  ArchivesTypeOK'
    <3> DEFINE u == package[<<running[i], i>>].url
    <3>1. u # NoUrl /\ InstallFromUrl(u, TRUE) /\ running[i] # "none"
      BY <2>5 DEF Update
    <3>2. <<running[i], i>> \in Places
      BY <3>1 DEF ArchivesTypeOK, Places
    <3>3. u \in Urls
      BY <3>1, <3>2 DEF ArchivesTypeOK
    <3> HIDE DEF u
    <3> QED
      BY <2>4, <3>1, <3>3
  <2>6. CASE ArchivesStep
    BY <2>4, <2>5, <2>6, InstallTyped DEF ArchivesStep, PlacedInv
  <2> QED
    BY <2>1, <2>2, <2>3, <2>6
<1> QED
  BY <1>1, <1>2, PlacedAlways, PTL DEF Spec

\* Every variable of the shop keeps its type and its bounds, for any number of everything,
\* whatever requests overlap, however often they fail and the process dies.
THEOREM ShopTyped == Spec => []TypeOK
<1>1. ServerInv => shop \in Shops /\ ServerTypeOK
  <2> SUFFICES ASSUME ServerInv PROVE shop \in Shops /\ ServerTypeOK
    OBVIOUS
  <2>1. /\ tree \in [Trees -> [v : 0 .. MaxVersion, whole : BOOLEAN]]
        /\ install.at \in {"none", "moved", "copying", "copied"} /\ install.t \in Trees
    BY DEF ServerInv, Tree, Installation
  <2>2. \A t \in Packages : \A i \in DOMAIN aside[t] : aside[t][i].v \in Versions
    <3> SUFFICES ASSUME NEW t \in Packages, NEW i \in DOMAIN aside[t] PROVE aside[t][i].v \in Versions
      OBVIOUS
    <3>1. PICK S : S = [v : Versions, whole : BOOLEAN]
      OBVIOUS
    <3>2. aside[t] \in Seq(S)
      BY <3>1 DEF ServerInv
    <3>3. i \in 1 .. Len(aside[t]) /\ aside[t][i] \in S
      BY <3>2
    <3> QED
      BY <3>1, <3>3
  <2>3. watcher.at \in {"poll", "handle", "command", "starts"} /\ watcher.last \in 0 .. flags
    <3>1. watcher.at \in {"poll", "handle", "command", "starts"} /\ watcher.last \in Nat
          /\ watcher.last <= flags /\ flags \in Nat
      BY DEF ServerInv, Watcher
    <3> QED
      BY <3>1
  <2>4. {db, kept} \subseteq Schema
    BY DEF ServerInv
  <2> QED
    BY <2>1, <2>2, <2>3, <2>4 DEF ServerInv, ServerTypeOK
<1> QED
  BY <1>1, ServerTyped, AddonsTyped, MessagesTyped, SettingsTyped, CartTyped, RemindersTyped, WebhooksTyped,
     MediaTyped, ShelvesTyped, FulfilTyped, ArchivesTyped, SessionsTyped, PTL DEF TypeOK
=============================================================================
