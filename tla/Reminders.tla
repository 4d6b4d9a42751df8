----------------------------- MODULE Reminders ------------------------------
(***************************************************************************)
(* The job that reminds customers of the carts they left, started by cron  *)
(* or by an administrator.  It reads the carts once, asks about each in    *)
(* turn, sends, and writes the counts when its session commits.            *)
(*                                                                         *)
(* A cart's age is that of its row, which no edit of its lines touches.    *)
(***************************************************************************)
EXTENDS Cart

CONSTANTS MaxReminders,  \* the largest site.abandoned_cart_max_reminders of any shop
          CartAbandoned, \* the event
          MaxMails,      \* bound on the mails to one customer
          Jobs           \* runs that may be in progress at a time

ASSUME RemindersAssumption == {MaxReminders, MaxMails} \subseteq Nat /\ MaxReminders >= 1

VARIABLES
  count,   \* abandoned_reminder_count
  recent,  \* abandoned_reminded_at is less than the delay ago
  run,     \* the runs in progress: the carts they read and the counts they hold
  \* History, read by the properties only:
  mails,   \* reminders sent to each customer
  upset    \* customers a run wrote to and did not record, or two runs read at once

reminderVars == <<count, recent, run, mails, upset>>

NoRun == [on |-> FALSE, todo |-> {}, count |-> [u \in Customers |-> 0], recent |-> {}, sent |-> {}]

\* Faulty form: the number of reminders is not looked at.
EligibleAlways(u) == cart[u] = "old"

\* The carts the first query returns.
Eligible(u) == cart[u] = "old" /\ count[u] < site.most

RunBegin(j) ==
  LET todo == {u \in shop.customers : Eligible(u)}
  IN /\ ~run[j].on /\ site.remind
     /\ todo # {}
     /\ run' = [run EXCEPT ![j] = [on |-> TRUE, todo |-> todo, count |-> count,
                                   recent |-> {u \in Customers : recent[u]}, sent |-> {}]]
     /\ upset' = upset \cup (IF \E k \in Jobs : run[k].on THEN todo ELSE {})
     /\ UNCHANGED <<count, recent, mails>>

\* _user_has_order_since: a cart's row is older than any of its orders, whatever
\* became of them.
Reminded(j, u) ==
  /\ u \notin run[j].recent
  /\ Lines(u) # {}
  /\ \A o \in Orders : order[o] # NoOrder => order[o].who # u
  /\ Subtotal({v \in Lines(u) : listed[v]}, line[u], price) > 0
  /\ Dispatched(CartAbandoned, Channels) # {}

\* What the job writes of the carts it has reminded.
Recorded(j, us) ==
  /\ count' = [u \in Customers |-> IF u \in us THEN run[j].count[u] + 1 ELSE count[u]]
  /\ recent' = [u \in Customers |-> u \in us \/ recent[u]]

\* One cart: a reminder and what follows it, or a skip.  On D1 the record of the
\* webhook delivery, if there is one, is flushed with the carts before it.
RunOne(j) ==
  \E u \in run[j].todo :
    \/ /\ run' = [run EXCEPT ![j].todo = @ \ {u}]
       /\ UNCHANGED <<count, recent, mails, upset>>
    \/ /\ Reminded(j, u)
       /\ mails[u] < MaxMails
       /\ mails' = [mails EXCEPT ![u] = @ + 1]
       /\ \/ /\ UNCHANGED <<count, recent>>
             /\ run' = [run EXCEPT ![j].todo = @ \ {u}, ![j].sent = @ \cup {u}]
          \/ /\ shop.backend = "d1"
             /\ Recorded(j, run[j].sent)
             /\ run' = [run EXCEPT ![j].todo = @ \ {u}, ![j].sent = {u}]
       /\ UNCHANGED upset

\* The flush and the commit at the end.
RunEnd(j) ==
  /\ run[j].on /\ run[j].todo = {}
  /\ Recorded(j, run[j].sent)
  /\ run' = [run EXCEPT ![j] = NoRun]
  /\ UNCHANGED <<mails, upset>>

\* The delay passes since the last reminder.
ReminderAges(u) ==
  /\ recent[u]
  /\ recent' = [recent EXCEPT ![u] = FALSE]
  /\ UNCHANGED <<count, run, mails, upset>>

\* The process ends.
DropRuns ==
  /\ upset' = upset \cup UNION {run[j].sent : j \in Jobs}
  /\ run' = [j \in Jobs |-> NoRun]
  /\ UNCHANGED <<count, recent, mails>>

RemindersInit ==
  /\ count = [u \in Customers |-> 0]
  /\ recent = [u \in Customers |-> FALSE]
  /\ run = [j \in Jobs |-> NoRun]
  /\ mails = [u \in Customers |-> 0]
  /\ upset = {}

RemindersStep ==
  \/ \E j \in shop.jobs : RunBegin(j) \/ RunOne(j) \/ RunEnd(j)
  \/ \E u \in Customers : ReminderAges(u)

-----------------------------------------------------------------------------
(* Properties *)

RemindersTypeOK ==
  /\ count \in [Customers -> 0 .. MaxReminders]
  /\ recent \in [Customers -> BOOLEAN]
  /\ \A j \in Jobs : run[j].on \/ run[j] = NoRun
  /\ mails \in [Customers -> 0 .. MaxMails]

\* No one gets more reminders than the settings allow, however long the cart is
\* left, unless a run died after it had sent one or two runs overlapped.
ReminderBound == \A u \in Customers \ upset : mails[u] <= MaxReminders
=============================================================================
