------------------------------ MODULE Archives ------------------------------
(***************************************************************************)
(* Which archives are accepted as addon packages, and which of the         *)
(* packages in place the next start registers: two readings of the same    *)
(* files, one of the manifest and one of the classes.                      *)
(*                                                                         *)
(* Server follows one package through the steps of its replacement; here   *)
(* an installation is one step, and many archives are offered.  An archive *)
(* is a record of what is asked about it:                                  *)
(*   sound    a ZIP within the size, with paths that stay inside it        *)
(*   manifest it has one manifest, and it is valid                         *)
(*   id, cat, url   what the manifest says; url: where updates come from   *)
(*   depth    how many directories the manifest is below the root          *)
(*   dir      the names of the last two, <<category, id>>                  *)
(*   complete the files every package needs, and those of a storefront     *)
(*   fits     the versions of the host and of Python                       *)
(*   classes  the addon classes of addon.py, each <<category, id>>         *)
(*   init     those of __init__.py                                         *)
(***************************************************************************)
EXTENDS Server

CONSTANTS Categories,    \* of addons
          Ids,           \* of addons
          Underscored,   \* the ids that begin with an underscore
          Archives,      \* archives that are offered
          Urls,          \* where archives may be found
          Allowed,       \* the URLs validate_install_url lets pass
          LeadsTo,       \* [Urls -> Urls \cup Archives]: a redirect, or what is there
          MaxRedirects,  \* of a download
          NoUrl          \* no URL

ASSUME ArchivesAssumption ==
  /\ Underscored \subseteq Ids /\ Allowed \subseteq Urls /\ NoUrl \notin Urls
  /\ LeadsTo \in [Urls -> Urls \cup Archives] /\ MaxRedirects \in Nat
  /\ \A a \in Archives : a.cat \in Categories /\ a.id \in Ids /\ a.url \in Urls \cup {NoUrl}

VARIABLES
  package,  \* what is in place: addons/<category>/<id>
  running   \* the category under which the running process knows each id

archiveVars == <<package, running>>

Places    == Categories \X Ids
NoPackage == [there |-> FALSE, classes |-> <<>>, init |-> <<>>, url |-> NoUrl]
InPlace   == {p \in Places : package[p] # NoPackage}

-----------------------------------------------------------------------------
(* The checks, in the order of install_addon_archive *)

\* _validate_layout: two directories are a category and an id; a package at the
\* root, or in one directory of any name, is taken as it is.
LayoutValid(a) ==
  /\ a.depth <= 2
  /\ a.depth = 2 => a.dir = <<a.cat, a.id>>
  /\ a.complete

\* Faulty form: one class of this id and category is enough, others are not seen.
ClassVerifiedAny(a) == a.classes # <<>>

\* _verify_addon_class
ClassVerified(a) == a.classes = <<<<a.cat, a.id>>>>

Accepted(a) == a.sound /\ a.manifest /\ LayoutValid(a) /\ a.fits /\ ClassVerified(a)

\* _install_tree and _write_manifest_source_url: in the place the manifest names,
\* over what is there if the form says so.
Install(a, force, url) ==
  LET p == <<a.cat, a.id>>
  IN /\ Accepted(a)
     /\ p \in InPlace => force
     /\ package' = [package EXCEPT ![p] = [there |-> TRUE, classes |-> a.classes, init |-> a.init,
                                           url |-> IF url = NoUrl THEN a.url ELSE url]]
     /\ UNCHANGED running

\* download_addon_archive: what is found at a URL after at most n redirects, each
\* of which is validated.
Download[n \in 0 .. MaxRedirects] ==
  [u \in Urls |->
     IF u \notin Allowed THEN {}
     ELSE IF LeadsTo[u] \in Archives THEN {LeadsTo[u]}
     ELSE IF n = 0 THEN {} ELSE Download[n - 1][LeadsTo[u]]]

\* admin_addon_install_url, install_addon_from_url
InstallFromUrl(u, force) == \E a \in Download[MaxRedirects][u] : Install(a, force, u)

\* admin_addon_update: from where the package in place says, whatever is there now.
Update(i) ==
  /\ running[i] # "none"
  /\ LET u == package[<<running[i], i>>].url
     IN u # NoUrl /\ InstallFromUrl(u, TRUE)

-----------------------------------------------------------------------------
(* The start *)

\* The classes of one file.
ClassesIn(classes) == {classes[i] : i \in DOMAIN classes}

\* discover: the classes of the packages whose name has no underscore in front.
Discovered ==
  UNION {ClassesIn(package[p].init) \cup ClassesIn(package[p].classes) : p \in {p \in InPlace : p[2] \notin Underscored}}

\* register_all: of several classes of an id the first one found.
Registrations ==
  LET known(i) == {k[1] : k \in {k \in Discovered : k[2] = i}}
  IN {r \in [Ids -> Categories \cup {"none"}] :
        \A i \in Ids : IF known(i) = {} THEN r[i] = "none" ELSE r[i] \in known(i)}

Discover == running' \in Registrations /\ UNCHANGED package

ArchivesInit ==
  /\ package = [p \in Places |-> NoPackage]
  /\ running = [i \in Ids |-> "none"]

ArchivesStep ==
  /\ shop.offers
  /\ \/ \E a \in Archives, force \in BOOLEAN : Install(a, force, NoUrl)
     \/ \E u \in Urls, force \in BOOLEAN : InstallFromUrl(u, force)
     \/ \E i \in Ids : Update(i)

-----------------------------------------------------------------------------
(* Properties *)

ArchivesTypeOK ==
  /\ \A p \in Places : package[p].url \in Urls \cup {NoUrl}
  /\ running \in [Ids -> Categories \cup {"none"}]

\* The next start registers every package that is in place under its own category,
\* in whatever order the packages are found: what the check of the archive accepted
\* is what the registry looks for.  Apart are the ids that begin with an underscore,
\* which the check accepts and the registry skips, and an id of which a second class
\* is found, in another category or in an __init__.py.
InstalledRegisters ==
  \A p \in InPlace :
    p[2] \notin Underscored /\ (\A k \in Discovered : k[2] = p[2] => k[1] = p[1])
      => \A r \in Registrations : r[p[2]] = p[1]
=============================================================================
