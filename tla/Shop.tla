-------------------------------- MODULE Shop --------------------------------
(***************************************************************************)
(* The server with what it serves: the addons' settings, the messages, the *)
(* settings of the site, carts and orders, reminders, the webhook          *)
(* receiver, images, the shelves with what the public sees of them, the    *)
(* suppliers of a paid order, and any other requests to D1.                *)
(*                                                                         *)
(* A request makes a step only while the server is up and no installation  *)
(* holds its event loop.  Whatever ends the process ends every request and *)
(* empties the registry; the start fills it from the table.                *)
(*                                                                         *)
(* A shop is a record: backend, packages (the trees that are replaced),    *)
(* shipped (the packages it has at first), enabled (the addons on at       *)
(* first), addons (those being saved), admins, browsers, customers,        *)
(* variants, countries, prices, jobs, hooks, editors, images, clerks,      *)
(* texts, items, forms, legal, messages, payers and writers (what is going *)
(* on, and with what), offers (whether archives are offered), installs,    *)
(* orders, shelves and held (bounds on replacements, orders, categories    *)
(* and a session's instances), stock (of each variant at first), site (see *)
(* Pricing), byHand (whether the operator restarts the server) and faults  *)
(* (the most kills and failures).                                          *)
(***************************************************************************)
EXTENDS Reminders, Webhooks, Media, Pages, Fulfilment, Archives, D1Session

CONSTANT Shops   \* the shops to consider

\* A shop has what this instance knows, within its bounds.
ASSUME ShopAssumption ==
  \A s \in Shops :
    /\ s.backend \in {"sqlite", "d1"}
    /\ s.packages \subseteq Trees /\ s.shipped \subseteq Packages
    /\ s.installs \in 0 .. MaxFlags /\ s.faults \in 0 .. MaxFaults
    /\ s.enabled \cup s.addons \subseteq AddonIds
    /\ \A a, b \in s.enabled : a # b => Claims[a] \cap Claims[b] \cap Channels = {}
    /\ s.admins \subseteq Admins /\ s.browsers \subseteq Browsers /\ s.jobs \subseteq Jobs
    /\ s.hooks \subseteq Hooks /\ s.editors \subseteq Editors /\ s.clerks \subseteq Clerks
    /\ s.payers \subseteq Payers /\ s.writers \subseteq Writers
    /\ s.customers \subseteq Customers /\ s.variants \subseteq Variants
    /\ s.prices \subseteq Prices /\ s.orders \in 0 .. MaxOrders /\ s.stock \in Nat
    /\ DOMAIN s.site = SiteFields /\ Proper(s.site) /\ s.site.most <= MaxReminders
    /\ \A f \in s.forms : /\ DOMAIN f.site = SiteFields /\ f.site.most <= MaxReminders
                         /\ {f.site.rate, f.site.flat, f.site.threshold, f.site.most} \subseteq Int
    /\ s.messages \subseteq Templates /\ s.images \subseteq Images
    /\ s.texts \subseteq Texts /\ s.items \subseteq Items /\ s.shelves \in 0 .. MaxCats
    /\ s.held \in Nat

vars ==
  <<shop, serverVars, addonVars, messageVars, settingVars, cartVars, reminderVars, webhookVars,
    mediaVars, shelfVars, fulfilVars, archiveVars, sessionVars>>

\* What keeps nothing of the server's or the addons', the sessions apart.
Served ==
  <<messageVars, settingVars, cartVars, reminderVars, webhookVars, mediaVars, shelfVars, fulfilVars,
    archiveVars>>

\* A request of one part leaves the other parts alone.
Requests ==
  \/ /\ \E p \in shop.admins : SaveStep(p)
     /\ UNCHANGED <<messageVars, settingVars, cartVars, reminderVars, webhookVars, mediaVars,
                   shelfVars, fulfilVars, archiveVars, sessionVars>>
  \/ /\ FulfilStep
     /\ UNCHANGED <<addonVars, messageVars, settingVars, cartVars, reminderVars, webhookVars,
                   mediaVars, shelfVars, archiveVars, sessionVars>>
  \/ /\ SessionStep
     /\ UNCHANGED <<addonVars, Served, faults>>
  \/ /\ UNCHANGED <<addonVars, fulfilVars, sessionVars, faults>>
     /\ \/ /\ MessagesStep
           /\ UNCHANGED <<settingVars, cartVars, reminderVars, webhookVars, mediaVars, shelfVars, archiveVars>>
        \/ /\ SettingsStep
           /\ UNCHANGED <<messageVars, cartVars, reminderVars, webhookVars, mediaVars, shelfVars, archiveVars>>
        \/ /\ CartStep
           /\ UNCHANGED <<messageVars, settingVars, reminderVars, webhookVars, mediaVars, shelfVars, archiveVars>>
        \/ /\ RemindersStep
           /\ UNCHANGED <<messageVars, settingVars, cartVars, webhookVars, mediaVars, shelfVars, archiveVars>>
        \/ /\ WebhooksStep
           /\ UNCHANGED <<messageVars, settingVars, cartVars, reminderVars, mediaVars, shelfVars, archiveVars>>
        \/ /\ MediaStep
           /\ UNCHANGED <<messageVars, settingVars, cartVars, reminderVars, webhookVars, shelfVars, archiveVars>>
        \/ /\ ShelvesStep
           /\ UNCHANGED <<messageVars, settingVars, cartVars, reminderVars, webhookVars, mediaVars, archiveVars>>
        \/ /\ ArchivesStep
           /\ UNCHANGED <<messageVars, settingVars, cartVars, reminderVars, webhookVars, mediaVars, shelfVars>>

\* Everything of the server but the count of faults, as a request leaves it.
ServerRest ==
  <<server, loaded, tree, aside, install, db, kept, ran, flag, flags, watcher, complete, hasty,
    commands>>

\* Every request in progress ends with the process.
DropRequests ==
  /\ DropAddons /\ DropCart /\ DropRuns /\ DropHooks /\ DropEdits /\ DropForms /\ DropPayers
  /\ DropSessions
  /\ UNCHANGED <<messageVars, settingVars, archiveVars>>

Init ==
  /\ shop \in Shops
  /\ ServerInit /\ AddonsInit /\ MessagesInit /\ SettingsInit /\ CartInit /\ RemindersInit
  /\ WebhooksInit /\ MediaInit /\ ShelvesInit /\ FulfilInit /\ ArchivesInit /\ SessionInit

Next ==
  /\ UNCHANGED shop
  /\ \/ /\ server = "up" /\ install.at = "none"
        /\ Requests
        /\ UNCHANGED ServerRest
     \/ ServerStep /\ UNCHANGED <<addonVars, Served, sessionVars>>
     \/ /\ Start /\ Discover
        /\ UNCHANGED <<addonVars, messageVars, settingVars, cartVars, reminderVars, webhookVars, mediaVars,
                      shelfVars, fulfilVars, sessionVars>>
     \/ Serve /\ LoadAddons /\ UNCHANGED <<Served, sessionVars>>
     \/ (Kill \/ CommandStops \/ StopByHand) /\ DropRequests

\* The watcher's command does stop the server.
Stops == CommandStops /\ DropRequests /\ UNCHANGED shop

Spec == Init /\ [][Next]_vars /\ ServerFairness /\ WF_vars(Stops)

TypeOK ==
  /\ shop \in Shops
  /\ ServerTypeOK /\ AddonsTypeOK /\ MessagesTypeOK /\ SettingsTypeOK /\ CartTypeOK /\ RemindersTypeOK
  /\ WebhooksTypeOK /\ MediaTypeOK /\ ShelvesTypeOK /\ FulfilTypeOK /\ ArchivesTypeOK
  /\ SessionTypeOK
=============================================================================
