----------------------------- MODULE MCAccounts -----------------------------
(***************************************************************************)
(* An instance of Accounts for TLC.                                        *)
(***************************************************************************)
EXTENDS Accounts, TLC

CONSTANTS root, ann,  \* addresses
          p1, p2      \* processes

\* Two people and a link on each backend, and one person with three links.
Scenes == [backend : {"sqlite", "d1"}, people : {Emails}, mails : {1}]
            \cup [backend : {"sqlite"}, people : {{root}, {ann}}, mails : {3}]

Symmetric == Permutations({root, ann}) \cup Permutations({p1, p2})
=============================================================================
