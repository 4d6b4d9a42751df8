------------------------------- MODULE Pages --------------------------------
(***************************************************************************)
(* What the public sees of the shelves: the pages of the storefront with   *)
(* the links the server writes into them, the site map, and the lists of   *)
(* the API.  Each asks the database in a query of its own.                 *)
(*                                                                         *)
(* A page is a kind and what it is about.  Menus are cut to a length; the  *)
(* model keeps every link a menu may hold.  Articles come from addons and  *)
(* are left out.                                                           *)
(***************************************************************************)
EXTENDS Shelves, Settings

Home       == <<"home", Root>>
Catalogue  == <<"products", Root>>
Index      == <<"categories", Root>>
About      == <<"about", Root>>
Privacy    == <<"privacy", Root>>
ProductPage(s)  == <<"product", s>>
CategoryPage(s) == <<"category", s>>

\* The documents: switched on, and with a body.
Shown(g) == text[g[1]].on /\ text[g[1]].body

\* _load_published_products
Public == {i \in Products : item[i].status = "published" /\ item[i].slug # NoSlug}

\* Faulty form: drafts are listed.
OnSiteMapDrafts == {i \in Products : item[i].slug # NoSlug}

\* The products the site map lists.
OnSiteMap == {i \in Products : item[i].status = "published" /\ item[i].slug # NoSlug}

\* sitemap_xml, render_sitemap_xml
SiteMap ==
  {Home, Catalogue, Index} \cup {g \in {About, Privacy} : Shown(g)}
    \cup {ProductPage(item[i].slug) : i \in OnSiteMap}
    \cup {CategoryPage(category[c].slug) : c \in Live}

\* seo_routes.py: a slug that is not one segment of a path leads to no route.
Routed(g) == g[1] = "category" => g[2] \in Bases

\* resolve_meta_for_path and serve_spa_html: the page has a title, a canonical URL and
\* "index, follow".
Indexed(g) ==
  /\ Routed(g)
  /\ CASE g[1] = "product"  -> \E i \in Products : item[i].slug = g[2] /\ item[i].status = "published"
       [] g[1] = "category" -> \E c \in Live : category[c].slug = g[2]
       [] g \in {About, Privacy} -> Shown(g)
       [] OTHER -> g \in {Home, Catalogue, Index}

Hubs == {Catalogue, Index}

\* The links on the product page: its category and the other products there.
ProductMenu(i) ==
  IF item[i].cat = Root THEN {}
  ELSE {CategoryPage(category[item[i].cat].slug)}
         \cup {ProductPage(item[j].slug) : j \in {j \in Public \ {i} : item[j].cat = item[i].cat}}

\* The links on the category page: its parent and its products.
CategoryMenu(c) ==
  {CategoryPage(category[d].slug) : d \in {category[c].parent} \ {Root}}
    \cup {ProductPage(item[j].slug) : j \in {j \in Public : item[j].cat = c}}

\* The links of the home page, the catalogue and the index of categories.
ListMenu(g) ==
  {ProductPage(item[j].slug) : j \in IF g = Index THEN {} ELSE Public}
    \cup {CategoryPage(category[c].slug) : c \in IF g = Catalogue THEN {} ELSE Live}

\* _render_crawl_nav
Menu(g) ==
  CASE g[1] = "product"  -> Hubs \cup UNION {ProductMenu(i) : i \in {i \in Public : item[i].slug = g[2]}}
    [] g[1] = "category" -> Hubs \cup UNION {CategoryMenu(c) : c \in {c \in Live : category[c].slug = g[2]}}
    [] g \in {Home, Catalogue, Index} -> Hubs \cup ListMenu(g)
    [] OTHER -> {}

\* list_products: the published products, of one category if it is asked for; a slug
\* that names none gives an empty list.
Listed(s) ==
  {i \in Products : /\ item[i].status = "published"
                    /\ s # NoSlug => \E c \in Live : category[c].slug = s /\ item[i].cat = c}

\* get_product_by_slug
BySlug(s) == {i \in Products : item[i].slug = s /\ item[i].status = "published"}

-----------------------------------------------------------------------------
(* Properties *)

\* The site map, the menus, the pages and the API agree about what is public,
\* though each asks for itself and products and categories come, change their slugs
\* and go meanwhile: what is listed has a page that may be indexed, a page links to
\* nothing else, and a product the API lists is on the site map.  Apart are the
\* categories whose slug is no path segment and the products without a slug, which
\* come only from a creation on D1 that did not end.
PagesAgree ==
  /\ \A g \in SiteMap : Routed(g) => Indexed(g) /\ \A h \in Menu(g) : h \in SiteMap
  /\ \A i \in Listed(NoSlug) : item[i].slug # NoSlug => BySlug(item[i].slug) = {i} /\ ProductPage(item[i].slug) \in SiteMap
  /\ \A c \in Live : \A i \in Listed(category[c].slug) : item[i].slug # NoSlug => ProductPage(item[i].slug) \in Menu(CategoryPage(category[c].slug))
  /\ \A i \in Products : item[i].slug = NoSlug => i \in stopped \/ \E p \in Clerks : i \in HalfMade(p)
=============================================================================
