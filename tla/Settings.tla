------------------------------ MODULE Settings ------------------------------
(***************************************************************************)
(* The row of the site's settings, as the administrator's form saves it:   *)
(* what Pricing reads, the reminders of abandoned carts, and the texts of  *)
(* the two legal pages.  Names, colours, the currency and the banner are   *)
(* left out; the logo is in Media.                                         *)
(***************************************************************************)
EXTENDS Server, Pricing

VARIABLES site,  \* the fields Pricing names, and remind and most: reminders at all, and how many
          text   \* of each document, [on, body]: whether it is switched on, and has a body

settingVars == <<site, text>>

Documents == {"about", "privacy"}
Modes     == {"flat", "free", "free_over_threshold"}   \* _VALID_SHIPPING_MODES
NoZones   == [c \in {} |-> 0]

\* The fields of a row, and what is in them whatever was typed.
SiteFields ==
  {"taxEnabled", "taxInclusive", "rate", "zoneRates", "mode", "threshold", "flat", "zoneFlats", "remind", "most"}
Proper(s) ==
  /\ {s.rate, s.flat, s.threshold} \subseteq Nat
  /\ s.mode \in Modes
  /\ s.most \in Nat \ {0}

\* A form holds the values as they are typed, and the names of the fields that
\* cannot be read, of zoneRates, zoneFlats and threshold.

\* _parse_zones_json: zones that cannot be read are no zones.
Zones(form, field) == IF field \in form.unreadable THEN NoZones ELSE form.site[field]

\* Faulty form: the values are stored as they are typed.
NormalAsTyped(form) == form.site

\* What update_site_settings makes of the values.
Normal(form) ==
  [form.site EXCEPT !.rate = AtLeastZero(@), !.flat = AtLeastZero(@), !.threshold = AtLeastZero(@),
                    !.mode = IF @ \in Modes THEN @ ELSE "flat",
                    !.zoneRates = Zones(form, "zoneRates"), !.zoneFlats = Zones(form, "zoneFlats"),
                    !.most = IF @ < 1 THEN 1 ELSE @]

\* The fields it sets before the threshold.
Before(field) == field \in {"taxEnabled", "taxInclusive", "rate", "zoneRates", "mode", "flat"}

\* admin_site_settings_save
SaveSettings(form, texts) ==
  /\ "threshold" \notin form.unreadable
  /\ site' = Normal(form)
  /\ text' = texts

\* A threshold that is no number stops it.  The page shows the error; SQLite commits
\* what was set before, D1 was told of nothing.
RefuseSettings(form) ==
  /\ "threshold" \in form.unreadable
  /\ site' = IF shop.backend = "sqlite"
             THEN [f \in DOMAIN site |-> IF Before(f) THEN Normal(form)[f] ELSE site[f]] ELSE site
  /\ UNCHANGED text

SettingsInit ==
  /\ site = shop.site
  /\ text = [g \in Documents |-> [on |-> FALSE, body |-> FALSE]]

SettingsStep ==
  \E form \in shop.forms :
    \/ RefuseSettings(form)
    \/ \E texts \in [Documents -> [on : BOOLEAN, body : BOOLEAN]] :
         /\ \A g \in Documents \ shop.legal : texts[g] = text[g]
         /\ SaveSettings(form, texts)

-----------------------------------------------------------------------------
(* Properties *)

SettingsTypeOK ==
  /\ Proper(site)
  /\ text \in [Documents -> [on : BOOLEAN, body : BOOLEAN]]
=============================================================================
