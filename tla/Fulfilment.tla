----------------------------- MODULE Fulfilment -----------------------------
(***************************************************************************)
(* A paid order is sent to its suppliers, one shipping group after the     *)
(* other, by the request that marks it paid; what became of each group is  *)
(* written to the order when the last has answered.                        *)
(*                                                                         *)
(* The groups of one order.  A group is one supplier: an addon with an     *)
(* external service, or a supplier the merchant has defined, whom the      *)
(* built-in addon looks up in a session of its own.  The merchant's own    *)
(* lines form no such group.  Notes follow the record and are left out.    *)
(*                                                                         *)
(* The form of a merchant's supplier cannot make it inactive: a box that   *)
(* is not ticked is not sent, and its default is "on".                     *)
(***************************************************************************)
EXTENDS Addons

CONSTANTS Makers,   \* the groups of the order, one for each supplier
          AddonOf,  \* [Makers -> addons]
          Manual,   \* the built-in addon of the merchant's suppliers
          Payers    \* requests that mark the order paid at a time

ASSUME FulfilmentAssumption ==
  /\ Manual \in AddonIds
  /\ AddonOf \in [Makers -> AddonIds]

VARIABLES
  supplier,  \* the groups whose merchant's supplier has a row
  parcel,    \* the order: paid, and what is recorded of each group
  paying,    \* the request in progress of each payer
  \* History, read by the properties only:
  placed,    \* orders the supplier of each group has accepted
  blurred    \* an answer, a record or a commit was lost, or two requests paid at once

fulfilVars == <<supplier, parcel, paying, placed, blurred>>

Outcomes == {"none", "ok", "failed"}
NoPaying == [at |-> "none", todo |-> {}, record |-> [g \in Makers |-> "none"]]

\* manual_supplier_create, manual_supplier_delete: no product is asked about.
DefineSupplier(g) == AddonOf[g] = Manual /\ supplier' = supplier \cup {g}
RemoveSupplier(g) == g \in supplier /\ supplier' = supplier \ {g}

-----------------------------------------------------------------------------
(* Paying and sending *)

\* The request loads a pending order.
PayRead(p) ==
  /\ paying[p].at = "none" /\ ~parcel.paid
  /\ paying' = [paying EXCEPT ![p] = [at |-> "read", todo |-> Makers, record |-> parcel.record]]
  /\ blurred' = (blurred \/ \E q \in Payers : paying[q].at # "none")
  /\ UNCHANGED <<supplier, parcel, placed>>

\* apply_order_status_change counts the units sold, and with that SQLite locks out
\* every other writer until the commit.
PayBegin(p) ==
  /\ paying[p].at = "read"
  /\ shop.backend = "sqlite" => \A q \in Payers : paying[q].at # "asking"
  /\ paying' = [paying EXCEPT ![p].at = "asking"]
  /\ UNCHANGED <<supplier, parcel, placed, blurred>>

\* Faulty form: a supplier that is switched off leaves no record.
NotedAnswers(record, g, outcome) ==
  IF AddonOf[g] \in Enabled THEN [record EXCEPT ![g] = outcome] ELSE record

\* supplier_orders[key] = ...
Noted(record, g, outcome) == [record EXCEPT ![g] = outcome]

\* The group is done with this outcome.
GroupEnds(p, g, outcome) ==
  paying' = [paying EXCEPT ![p].todo = @ \ {g}, ![p].record = Noted(@, g, outcome)]

\* A group an earlier request recorded as sent.
SkipGroup(p, g) ==
  /\ paying[p].record[g] = "ok"
  /\ paying' = [paying EXCEPT ![p].todo = @ \ {g}]
  /\ UNCHANGED <<supplier, parcel, placed, blurred, faults>>

\* The addon is off, the merchant's supplier is gone, or the service says no.
RefuseGroup(p, g) ==
  /\ paying[p].record[g] # "ok"
  /\ AddonOf[g] = Manual /\ Manual \in Enabled => g \notin supplier
  /\ GroupEnds(p, g, "failed")
  /\ UNCHANGED <<supplier, parcel, placed, blurred, faults>>

\* create_order succeeds.
SendGroup(p, g) ==
  /\ paying[p].record[g] # "ok"
  /\ AddonOf[g] \in Enabled /\ (AddonOf[g] = Manual => g \in supplier)
  /\ GroupEnds(p, g, "ok")
  /\ placed' = [placed EXCEPT ![g] = @ + 1]
  /\ UNCHANGED <<supplier, parcel, blurred, faults>>

\* The service's answer brings new settings of the addon, such as a token, which are
\* saved with what the session holds: on D1 the order is paid from here on.  What the
\* model keeps of the addon's row stays.
SendGroupWithUpdates(p, g) ==
  /\ paying[p].record[g] # "ok"
  /\ AddonOf[g] # Manual /\ AddonOf[g] \in Enabled
  /\ GroupEnds(p, g, "ok")
  /\ placed' = [placed EXCEPT ![g] = @ + 1]
  /\ parcel' = IF shop.backend = "d1" THEN [parcel EXCEPT !.paid = TRUE] ELSE parcel
  /\ UNCHANGED <<supplier, blurred, faults>>

\* The answer is lost on its way, or the addon's new settings cannot be saved: the
\* group the supplier has accepted is recorded as failed.
LoseGroup(p, g) ==
  /\ paying[p].record[g] # "ok"
  /\ AddonOf[g] # Manual /\ AddonOf[g] \in Enabled
  /\ Fault
  /\ GroupEnds(p, g, "failed")
  /\ placed' = [placed EXCEPT ![g] = @ + 1]
  /\ blurred' = TRUE
  /\ UNCHANGED <<supplier, parcel>>

\* The record and the commit.
PayEnd(p) ==
  /\ paying[p].at = "asking" /\ paying[p].todo = {}
  /\ parcel' = [paid |-> TRUE, record |-> paying[p].record]
  /\ paying' = [paying EXCEPT ![p] = NoPaying]
  /\ UNCHANGED <<supplier, placed, blurred, faults>>

\* An exception outside the calls is logged, and the order is paid without a record.
FulfilAborts(p) ==
  /\ paying[p].at = "asking"
  /\ Fault
  /\ parcel' = [parcel EXCEPT !.paid = TRUE]
  /\ paying' = [paying EXCEPT ![p] = NoPaying]
  /\ blurred' = TRUE
  /\ UNCHANGED <<supplier, placed>>

\* The commit fails.
PayFails(p) ==
  /\ paying[p].at # "none"
  /\ Fault
  /\ blurred' = (blurred \/ paying[p].at = "asking")
  /\ paying' = [paying EXCEPT ![p] = NoPaying]
  /\ UNCHANGED <<supplier, parcel, placed>>

\* The process ends.
DropPayers ==
  /\ blurred' = (blurred \/ \E p \in Payers : paying[p].at = "asking")
  /\ paying' = [p \in Payers |-> NoPaying]
  /\ UNCHANGED <<supplier, parcel, placed>>

FulfilInit ==
  /\ supplier = {}
  /\ parcel = [paid |-> FALSE, record |-> NoPaying.record]
  /\ paying = [p \in Payers |-> NoPaying]
  /\ placed = [g \in Makers |-> 0]
  /\ blurred = FALSE

FulfilStep ==
  \/ \E g \in Makers :
       /\ shop.payers # {} /\ (DefineSupplier(g) \/ RemoveSupplier(g))
       /\ UNCHANGED <<parcel, paying, placed, blurred, faults>>
  \/ \E p \in shop.payers :
       \/ (PayRead(p) \/ PayBegin(p)) /\ UNCHANGED faults
       \/ /\ paying[p].at = "asking"
          /\ \E g \in paying[p].todo :
               SkipGroup(p, g) \/ RefuseGroup(p, g) \/ SendGroup(p, g) \/ SendGroupWithUpdates(p, g) \/ LoseGroup(p, g)
       \/ PayEnd(p) \/ FulfilAborts(p) \/ PayFails(p)

-----------------------------------------------------------------------------
(* Properties *)

FulfilTypeOK ==
  /\ supplier \subseteq Makers
  /\ parcel \in [paid : BOOLEAN, record : [Makers -> Outcomes]]
  /\ \A p \in Payers : /\ paying[p].at \in {"none", "read", "asking"}
                       /\ paying[p].todo \subseteq Makers /\ paying[p].record \in [Makers -> Outcomes]
  /\ placed \in [Makers -> Nat]

\* A paid order tells of every group: one recorded as sent has been accepted once,
\* and one recorded as failed not at all, while addons are switched and saved and
\* suppliers are defined and removed between the calls.  "Failures are recorded on
\* the order (notes + supplier_orders) for retry/manual follow-up" (commerce.py:308).
\* Apart is an order some answer, record or commit of which was lost, or that two
\* requests paid at once.
GroupsRecorded ==
  parcel.paid /\ ~blurred /\ (\A p \in Payers : paying[p].at = "none") =>
    \A g \in Makers : /\ parcel.record[g] # "none"
                      /\ placed[g] = IF parcel.record[g] = "ok" THEN 1 ELSE 0
=============================================================================
