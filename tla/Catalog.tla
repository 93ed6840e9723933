------------------------------- MODULE Catalog -------------------------------
\* A product of a merchant and its modifiers (modules/catalog/catalog.go): the
\* partner changes them, customers choose from a menu they have seen, and a
\* checkout prices the choice with two queries, one for the product and a later
\* one for its modifiers.
\*
\* A version is what one commit of the partner leaves: the product's row and
\* one group with one option, which stands for any number.  UpsertProduct
\* replaces all modifiers when it is sent any, and the rows that it inserts have
\* new ids: gen numbers these replacements, so gen is the id of the option.  An
\* unavailable option that need not be chosen stands for a product without any.
\* A customer may choose from a menu of any age, so that the menu's cache, its
\* TTL and invalidate make no difference to what can be chosen.
EXTENDS Integers, Sequences

CONSTANTS Checkouts,
          Prices, Deltas,   \* price_minor, price_delta_minor
          MaxVersions       \* bound

ASSUME CatalogAssumption == Prices \subseteq Nat /\ Deltas \subseteq Int

VARIABLES shop,       \* the versions; the last one is what is committed now
          menuReads,  \* Menu is between its queries for products and modifiers
          shown,      \* the options that some menu has shown
          lines       \* of each checkout, the line that it prices

catalogVars == <<shop, menuReads, shown, lines>>

NoOption == 0

\* The versions with an option of a set.
VersionsWith(gens) ==
    [price : Prices, available : BOOLEAN, listed : BOOLEAN, gen : gens,
     delta : Deltas, optionAvailable : BOOLEAN, min : {0, 1}]

Versions == VersionsWith(Nat \ {NoOption})

Now == shop[Len(shop)]

CatalogInit ==
    /\ \E v \in VersionsWith({1}) : v.listed /\ v.available /\ shop = <<v>>
    /\ menuReads = FALSE
    /\ shown = {}
    /\ lines = [c \in Checkouts |-> [phase |-> "none", chosen |-> NoOption, version |-> 1, unit |-> 0]]

Commits(v) ==
    /\ Now.listed
    /\ Len(shop) < MaxVersions
    /\ shop' = Append(shop, v)
    /\ UNCHANGED <<menuReads, shown, lines>>

\* UpsertProduct, without modifiers and with them.
UpsertProduct == \E p \in Prices, a \in BOOLEAN :
    Commits([Now EXCEPT !.price = p, !.available = a])

\* Mutant: the options of the product are updated under the ids they have.
UpdateModifiers == \E v \in VersionsWith({Now.gen}) : v.listed /\ Commits(v)

ReplaceModifiers == \E v \in VersionsWith({Now.gen + 1}) : v.listed /\ Commits(v)

SetAvailability == \E a \in BOOLEAN : Commits([Now EXCEPT !.available = a])

DeleteProduct == Commits([Now EXCEPT !.listed = FALSE, !.available = FALSE])

\* Menu: the products that can be ordered, and then their modifiers.
MenuProducts ==
    /\ ~menuReads
    /\ Now.listed /\ Now.available
    /\ menuReads' = TRUE
    /\ UNCHANGED <<shop, shown, lines>>

MenuModifiers ==
    /\ menuReads
    /\ menuReads' = FALSE
    /\ shown' = shown \cup {Now.gen}
    /\ UNCHANGED <<shop, lines>>

\* Price: the product's row; a product that is gone or unavailable is refused.
PriceProduct(c) ==
    /\ lines[c].phase = "none"
    /\ Now.listed /\ Now.available
    /\ \E o \in shown \cup {NoOption} :
        lines' = [lines EXCEPT ![c] =
            [phase |-> "product", chosen |-> o, version |-> Len(shop), unit |-> Now.price]]
    /\ UNCHANGED <<shop, menuReads, shown>>

\* Of the chosen option, every group of the product counts what it has of it:
\* within min and max, available, and nothing chosen that no group has.
Selectable(o) ==
    IF o = NoOption THEN Now.min = 0 ELSE o = Now.gen /\ Now.optionAvailable

AtLeastZero(n) == IF n < 0 THEN 0 ELSE n

PriceModifiers(c) ==
    /\ lines[c].phase = "product"
    /\ Selectable(lines[c].chosen)
    /\ lines' = [lines EXCEPT ![c].phase = "priced",
        ![c].unit = IF lines[c].chosen = NoOption THEN @ ELSE AtLeastZero(@ + Now.delta)]
    /\ UNCHANGED <<shop, menuReads, shown>>

PriceRefused(c) ==
    /\ lines[c].phase = "product"
    /\ ~Selectable(lines[c].chosen)
    /\ lines' = [lines EXCEPT ![c].phase = "refused"]
    /\ UNCHANGED <<shop, menuReads, shown>>

CatalogNext ==
    \/ UpsertProduct \/ ReplaceModifiers \/ SetAvailability \/ DeleteProduct
    \/ MenuProducts \/ MenuModifiers
    \/ \E c \in Checkouts : PriceProduct(c) \/ PriceModifiers(c) \/ PriceRefused(c)

CatalogSpec == CatalogInit /\ [][CatalogNext]_catalogVars

CatalogTypeOK ==
    /\ shop \in Seq(Versions) /\ Len(shop) > 0
    /\ menuReads \in BOOLEAN
    /\ shown \subseteq Nat \ {NoOption}
    /\ lines \in [Checkouts -> [phase : {"none", "product", "priced", "refused"},
                                chosen : Nat, version : Nat, unit : Nat]]
    /\ \A c \in Checkouts : lines[c].version \in 1 .. Len(shop)

\* The server values a choice from the database (catalog.go:494): a line with a
\* chosen option has the price and the surcharge of one version, one that was
\* on sale while the line was priced, although the two come from two queries
\* and the partner may change both between them.
PricedFromOneVersion ==
    \A c \in Checkouts :
        lines[c].phase = "priced" /\ lines[c].chosen # NoOption =>
            \E n \in lines[c].version .. Len(shop) :
                /\ shop[n].listed /\ shop[n].available
                /\ shop[n].gen = lines[c].chosen
                /\ lines[c].unit = AtLeastZero(shop[n].price + shop[n].delta)
=============================================================================
