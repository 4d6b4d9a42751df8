------------------------------- MODULE Pricing -------------------------------
(***************************************************************************)
(* Tax and shipping of a cart: the site's rules, the suppliers' quotes and *)
(* the total.  Amounts are cents, rates are basis points.                  *)
(*                                                                         *)
(* A site is a record: taxEnabled, taxInclusive, rate and zoneRates (a     *)
(* function of the countries with a rate of their own), mode, threshold,   *)
(* flat and zoneFlats.  Lines are the variants with a quantity; answers is *)
(* the set of suppliers that quote, and fee what each of them asks.  Tax   *)
(* tools, which may replace the tax, and the choice between a supplier's   *)
(* offers are left out.                                                    *)
(***************************************************************************)
EXTENDS Integers, FiniteSetsExt

Merchant == "merchant"   \* _MERCHANT_GROUP_KEY

AtLeastZero(n) == IF n < 0 THEN 0 ELSE n

-----------------------------------------------------------------------------
(* tax_rules.py *)

\* match_tax_rate_bps
RateOf(site, country) ==
  IF country \in DOMAIN site.zoneRates THEN AtLeastZero(site.zoneRates[country]) ELSE site.rate

\* The tax contained in an amount, and the tax that comes on top of it.
TaxWithin(amount, rate) == amount - (amount * 10000) \div (10000 + rate)
TaxOnTop(amount, rate)  == (amount * rate) \div 10000

\* compute_site_tax_cents
SiteTax(amount, site, country) ==
  LET rate == RateOf(site, country)
  IN IF ~site.taxEnabled \/ amount <= 0 \/ rate <= 0 THEN 0
     ELSE AtLeastZero(IF site.taxInclusive THEN TaxWithin(amount, rate) ELSE TaxOnTop(amount, rate))

\* compute_site_shipping_cents
SiteShipping(amount, site, country) ==
  IF site.mode = "free" \/ (site.mode = "free_over_threshold" /\ amount >= site.threshold) THEN 0
  ELSE AtLeastZero(IF country \in DOMAIN site.zoneFlats THEN site.zoneFlats[country] ELSE site.flat)

-----------------------------------------------------------------------------
(* shipping.py and checkout_pricing.py *)

\* cart_line_totals: the sum over some of the lines.
Subtotal(lines, qty, price) == MapThenSumSet(LAMBDA v : qty[v] * price[v], lines)

\* group_cart_for_shipping: the lines that go with each supplier.
Groups(qty, supplier) ==
  LET lines == {v \in DOMAIN qty : qty[v] > 0}
  IN {{v \in lines : supplier[v] = s} : s \in {supplier[v] : v \in lines}}

\* The lines the merchant charges: its own, and those of every supplier that is
\* off, quotes nothing or fails.
Unquoted(groups, supplier, answers) ==
  UNION {g \in groups : \A v \in g : supplier[v] = Merchant \/ supplier[v] \notin answers}

\* quote_shipping_cents: what is charged for which lines.
Breakdown(qty, price, supplier, answers, fee, site, country) ==
  LET groups   == Groups(qty, supplier)
      merchant == Unquoted(groups, supplier, answers)
      due      == Subtotal(merchant, qty, price)
      quoted   == {x \in groups \X DOMAIN qty : x[2] \in x[1] /\ supplier[x[2]] \in answers \ {Merchant}}
  IN {[lines |-> x[1], cents |-> AtLeastZero(fee[supplier[x[2]]])] : x \in quoted}
     \cup (IF due > 0 THEN {[lines |-> merchant, cents |-> SiteShipping(due, site, country)]} ELSE {})

\* quote_order_charges and compute_order_total_cents
Charges(qty, price, supplier, answers, fee, site, country) ==
  LET goods    == Subtotal({v \in DOMAIN qty : qty[v] > 0}, qty, price)
      tax      == SiteTax(goods, site, country)
      shipping == MapThenSumSet(LAMBDA b : b.cents,
                    Breakdown(qty, price, supplier, answers, fee, site, country))
  IN [tax |-> tax, shipping |-> shipping,
      total |-> goods + shipping + (IF site.taxInclusive THEN 0 ELSE tax)]
=============================================================================
