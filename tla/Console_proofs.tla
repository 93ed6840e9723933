---------------------------- MODULE Console_proofs ----------------------------
(***************************************************************************)
(* Proofs about the catalog, the support desk, opening hours, accounts,    *)
(* risk, reviews, quotes and the configuration.  They share no state; each *)
(* has its own specification and its own inductive invariant here, and the *)
(* last section puts them together as MCConsole does.                      *)
(***************************************************************************)
EXTENDS MCConsole, Sums_proofs, SequenceTheorems, TLAPS

-----------------------------------------------------------------------------
(***************************************************************************)
(* The catalog.  Options only get newer, and those of one generation never *)
(* change their surcharge; a menu shows none that is not there yet.  So an *)
(* option that was on some menu when a product's row was read, and is      *)
(* still there when the options are, has been there all the while.         *)
(***************************************************************************)
Older(m, n) == shop[m].gen <= shop[n].gen

Generations ==
    \A m, n \in 1 .. Len(shop) :
        /\ m <= n => Older(m, n)
        /\ shop[m].gen = shop[n].gen => shop[m].delta = shop[n].delta

ShownExist == \A o \in shown : o <= Now.gen

ProductRead(c) ==
    LET l == lines[c] IN
    l.phase = "product" =>
        /\ shop[l.version].listed /\ shop[l.version].available
        /\ l.unit = shop[l.version].price
        /\ l.chosen <= shop[l.version].gen

ProductsRead == \A c \in Checkouts : ProductRead(c)

CatalogInv ==
    CatalogTypeOK /\ Generations /\ ShownExist /\ ProductsRead /\ PricedFromOneVersion

\* The price of nothing is not negative (Price's clamp at zero).
LEMMA ClampIsNat == \A n \in Int : AtLeastZero(n) \in Nat
  BY DEF AtLeastZero

\* What the first version of a product satisfies.
LEMMA CatalogInitial == CatalogInit => CatalogInv
  <1> SUFFICES ASSUME CatalogInit PROVE CatalogInv
    OBVIOUS
  <1>1. PICK v \in VersionsWith({1}) : v.listed /\ v.available /\ shop = <<v>>
    BY DEF CatalogInit
  <1>2. v \in Versions
    BY <1>1 DEF Versions, VersionsWith, NoOption
  <1>3. shop \in Seq(Versions) /\ Len(shop) = 1 /\ shop[1] = v /\ 1 .. Len(shop) = {1}
    BY <1>1, <1>2
  <1>4. v.gen = 1
    BY <1>1 DEF VersionsWith
  <1>5. CatalogTypeOK
    <2>1. \A c \in Checkouts : lines[c].version = 1
      BY DEF CatalogInit
    <2>2. lines \in [Checkouts -> [phase : {"none", "product", "priced", "refused"},
                                  chosen : Nat, version : Nat, unit : Nat]]
      BY DEF CatalogInit, NoOption
    <2>3. menuReads \in BOOLEAN /\ shown \subseteq Nat \ {NoOption}
      BY DEF CatalogInit
    <2> QED
      BY <1>3, <2>1, <2>2, <2>3 DEF CatalogTypeOK
  <1>6. Generations /\ ShownExist
    BY <1>3, <1>4 DEF Generations, Older, ShownExist, CatalogInit
  <1>7. ProductsRead /\ PricedFromOneVersion
    BY DEF ProductsRead, ProductRead, PricedFromOneVersion, CatalogInit
  <1> QED
    BY <1>5, <1>6, <1>7 DEF CatalogInv

\* A version that is committed after the others, with options at least as new
\* and, if they are the same, the same surcharge, keeps all of the invariant.
LEMMA CommitKeepsInv ==
  ASSUME CatalogInv, NEW v \in Versions, Commits(v),
         v.gen >= Now.gen, v.gen = Now.gen => v.delta = Now.delta
  PROVE  CatalogInv'
  <1> DEFINE len == Len(shop)
  <1>1. /\ shop \in Seq(Versions) /\ len \in Nat /\ len > 0
        /\ shop' = Append(shop, v)
        /\ UNCHANGED <<menuReads, shown, lines>>
    BY DEF CatalogInv, CatalogTypeOK, Commits
  <1>2. /\ shop' \in Seq(Versions) /\ Len(shop') = len + 1
        /\ shop'[len + 1] = v
        /\ \A i \in 1 .. len : shop'[i] = shop[i] /\ shop[i] \in Versions
    BY <1>1
  <1>3. v.gen \in Nat /\ \A i \in 1 .. len : shop[i].gen \in Nat
    BY <1>2 DEF Versions, VersionsWith, NoOption
  <1>4. \A i \in 1 .. len : shop[i].gen <= shop[len].gen
    BY <1>1 DEF CatalogInv, Generations, Older
  <1>5. CatalogTypeOK'
    <2>1. \A c \in Checkouts : lines[c].version \in 1 .. len
      BY DEF CatalogInv, CatalogTypeOK
    <2> QED
      BY <1>1, <1>2, <2>1 DEF CatalogInv, CatalogTypeOK
  <1>6. Generations'
    <2> SUFFICES ASSUME NEW m \in 1 .. len + 1, NEW n \in 1 .. len + 1
                 PROVE  /\ m <= n => shop'[m].gen <= shop'[n].gen
                        /\ shop'[m].gen = shop'[n].gen => shop'[m].delta = shop'[n].delta
      BY <1>2 DEF Generations, Older
    <2>1. CASE m \in 1 .. len /\ n \in 1 .. len
      BY <2>1, <1>2 DEF CatalogInv, Generations, Older
    <2>2. CASE m = len + 1 /\ n = len + 1
      BY <2>2, <1>2, <1>3
    <2>3. \A i \in 1 .. len : v.gen = shop[i].gen =>
             shop[i].gen = shop[len].gen /\ v.gen = Now.gen
      BY <1>1, <1>3, <1>4 DEF Now
    <2>4. \A i \in 1 .. len : v.gen = shop[i].gen => v.delta = shop[i].delta
      BY <2>3, <1>1 DEF CatalogInv, Generations, Now
    <2>5. CASE m = len + 1 /\ n \in 1 .. len
      BY <2>5, <2>4, <1>1, <1>2
    <2>6. CASE m \in 1 .. len /\ n = len + 1
      <3>1. shop[m].gen <= v.gen
        BY <2>6, <1>1, <1>3, <1>4 DEF Now
      <3> QED
        BY <2>6, <3>1, <2>4, <1>2
    <2> QED
      BY <1>1, <2>1, <2>2, <2>5, <2>6
  <1>7. ShownExist'
    <2>1. Now' = v
      BY <1>2 DEF Now
    <2>2. shown \subseteq Nat /\ Now.gen \in Nat
      BY <1>1, <1>3 DEF CatalogInv, CatalogTypeOK, Now
    <2> QED
      BY <1>1, <1>3, <2>1, <2>2 DEF CatalogInv, ShownExist
  <1>8. ProductsRead'
    <2>1. \A c \in Checkouts : lines[c].version \in 1 .. len
      BY DEF CatalogInv, CatalogTypeOK
    <2> QED
      BY <1>1, <1>2, <2>1 DEF CatalogInv, ProductsRead, ProductRead
  <1>9. PricedFromOneVersion'
    <2> SUFFICES ASSUME NEW c \in Checkouts,
                        lines[c].phase = "priced", lines[c].chosen # NoOption
                 PROVE  \E n \in lines[c].version .. Len(shop') :
                            /\ shop'[n].listed /\ shop'[n].available
                            /\ shop'[n].gen = lines[c].chosen
                            /\ lines[c].unit = AtLeastZero(shop'[n].price + shop'[n].delta)
      BY <1>1 DEF PricedFromOneVersion
    <2>1. PICK n \in lines[c].version .. len :
                            /\ shop[n].listed /\ shop[n].available
                            /\ shop[n].gen = lines[c].chosen
                            /\ lines[c].unit = AtLeastZero(shop[n].price + shop[n].delta)
      BY DEF CatalogInv, PricedFromOneVersion
    <2>2. lines[c].version \in 1 .. len
      BY DEF CatalogInv, CatalogTypeOK
    <2>3. n \in 1 .. len /\ n \in lines[c].version .. Len(shop')
      BY <1>1, <1>2, <2>2
    <2> QED
      BY <1>2, <2>1, <2>3
  <1> QED
    BY <1>5, <1>6, <1>7, <1>8, <1>9 DEF CatalogInv

\* Every step of the partner, of a menu and of a checkout.
LEMMA CatalogStep == CatalogInv /\ [CatalogNext]_catalogVars => CatalogInv'
  <1> SUFFICES ASSUME CatalogInv, [CatalogNext]_catalogVars
               PROVE  CatalogInv'
    OBVIOUS
  <1> USE DEF Older
  <1>0. /\ shop \in Seq(Versions) /\ Len(shop) \in Nat /\ Len(shop) > 0
        /\ Now \in Versions /\ Len(shop) \in 1 .. Len(shop)
    BY DEF CatalogInv, CatalogTypeOK, Now
  <1>a. /\ Now.price \in Prices /\ Prices \subseteq Nat /\ Now.gen \in Nat /\ Now.gen # NoOption
        /\ Now.delta \in Int
    BY <1>0, CatalogAssumption DEF Versions, VersionsWith, NoOption
  <1>1. ASSUME NEW p \in Prices, NEW a \in BOOLEAN,
               Commits([Now EXCEPT !.price = p, !.available = a])
        PROVE  CatalogInv'
    <2> DEFINE v == [Now EXCEPT !.price = p, !.available = a]
    <2>1. v \in Versions /\ v.gen = Now.gen /\ v.delta = Now.delta
      BY <1>0 DEF Versions, VersionsWith
    <2>2. v.gen >= Now.gen
      BY <1>a, <2>1
    <2> HIDE DEF v
    <2> QED
      BY <1>1, <2>1, <2>2, CommitKeepsInv DEF v
  <1>2. ASSUME NEW v \in VersionsWith({Now.gen + 1}), v.listed, Commits(v)
        PROVE  CatalogInv'
    <2>1. v \in Versions /\ v.gen = Now.gen + 1
      BY <1>a DEF Versions, VersionsWith, NoOption
    <2>2. v.gen >= Now.gen /\ v.gen # Now.gen
      BY <1>a, <2>1
    <2> QED
      BY <1>2, <2>1, <2>2, CommitKeepsInv
  <1>3. ASSUME NEW a \in BOOLEAN, Commits([Now EXCEPT !.available = a])
        PROVE  CatalogInv'
    <2> DEFINE v == [Now EXCEPT !.available = a]
    <2>1. v \in Versions /\ v.gen = Now.gen /\ v.delta = Now.delta
      BY <1>0 DEF Versions, VersionsWith
    <2>2. v.gen >= Now.gen
      BY <1>a, <2>1
    <2> HIDE DEF v
    <2> QED
      BY <1>3, <2>1, <2>2, CommitKeepsInv DEF v
  <1>4. ASSUME Commits([Now EXCEPT !.listed = FALSE, !.available = FALSE])
        PROVE  CatalogInv'
    <2> DEFINE v == [Now EXCEPT !.listed = FALSE, !.available = FALSE]
    <2>1. v \in Versions /\ v.gen = Now.gen /\ v.delta = Now.delta
      BY <1>0 DEF Versions, VersionsWith
    <2>2. v.gen >= Now.gen
      BY <1>a, <2>1
    <2> HIDE DEF v
    <2> QED
      BY <1>4, <2>1, <2>2, CommitKeepsInv DEF v
  <1>5. CASE MenuProducts
    BY <1>5 DEF MenuProducts, CatalogInv, CatalogTypeOK, Generations, ShownExist,
                ProductsRead, ProductRead, PricedFromOneVersion, Now
  <1>6. CASE MenuModifiers
    <2>1. UNCHANGED <<shop, lines>> /\ Now' = Now
          /\ menuReads' \in BOOLEAN /\ shown' = shown \cup {Now.gen}
      BY <1>6 DEF MenuModifiers, Now
    <2>2. CatalogTypeOK'
      BY <2>1, <1>a DEF CatalogInv, CatalogTypeOK
    <2>3. ShownExist'
      BY <2>1, <1>a DEF CatalogInv, ShownExist
    <2> QED
      BY <2>1, <2>2, <2>3 DEF CatalogInv, Generations, ProductsRead, ProductRead,
                              PricedFromOneVersion
  <1>7. ASSUME NEW c \in Checkouts, PriceProduct(c)
        PROVE  CatalogInv'
    <2>1. UNCHANGED <<shop, menuReads, shown>> /\ Now' = Now /\ Now.listed /\ Now.available
      BY <1>7 DEF PriceProduct, Now
    <2>2. PICK o \in shown \cup {NoOption} :
            lines' = [lines EXCEPT ![c] = [phase |-> "product", chosen |-> o,
                                           version |-> Len(shop), unit |-> Now.price]]
      BY <1>7 DEF PriceProduct
    <2>3. o \in Nat /\ o <= Now.gen
      BY <1>a DEF CatalogInv, CatalogTypeOK, ShownExist, NoOption
    <2>4. CatalogTypeOK'
      BY <1>0, <1>a, <2>1, <2>2, <2>3 DEF CatalogInv, CatalogTypeOK
    <2>5. ProductsRead'
      BY <2>1, <2>2, <2>3 DEF CatalogInv, CatalogTypeOK, ProductsRead, ProductRead, Now
    <2>6. PricedFromOneVersion'
      BY <2>1, <2>2 DEF CatalogInv, CatalogTypeOK, PricedFromOneVersion
    <2> QED
      BY <2>1, <2>4, <2>5, <2>6 DEF CatalogInv, Generations, ShownExist
  <1>8. ASSUME NEW c \in Checkouts, PriceModifiers(c)
        PROVE  CatalogInv'
    <2> DEFINE u == IF lines[c].chosen = NoOption THEN lines[c].unit
                    ELSE AtLeastZero(lines[c].unit + Now.delta)
    <2>1. /\ UNCHANGED <<shop, menuReads, shown>> /\ Now' = Now
          /\ lines[c].phase = "product" /\ Selectable(lines[c].chosen)
          /\ lines' = [lines EXCEPT ![c].phase = "priced", ![c].unit = u]
      BY <1>8 DEF PriceModifiers, Now
    <2>a. lines[c].unit \in Nat
      BY DEF CatalogInv, CatalogTypeOK
    <2>b. lines[c].unit + Now.delta \in Int
      BY <1>a, <2>a
    <2>2. u \in Nat
      BY <2>a, <2>b, ClampIsNat
    <2> HIDE DEF u
    <2>3. /\ lines'[c].phase = "priced" /\ lines'[c].unit = u
          /\ lines'[c].chosen = lines[c].chosen /\ lines'[c].version = lines[c].version
          /\ \A d \in Checkouts : d # c => lines'[d] = lines[d]
      BY <2>1 DEF CatalogInv, CatalogTypeOK
    <2>4. CatalogTypeOK'
      BY <2>1, <2>2, <2>3 DEF CatalogInv, CatalogTypeOK
    <2>5. ProductsRead'
      BY ZenonT(90), <2>1, <2>3 DEF CatalogInv, ProductsRead, ProductRead
    <2>6. PricedFromOneVersion'
      <3> SUFFICES ASSUME lines[c].chosen # NoOption
                   PROVE  \E n \in lines[c].version .. Len(shop) :
                            /\ shop[n].listed /\ shop[n].available
                            /\ shop[n].gen = lines[c].chosen
                            /\ u = AtLeastZero(shop[n].price + shop[n].delta)
        <4>1. \A d \in Checkouts : lines'[d].phase = "priced" /\ lines'[d].chosen # NoOption =>
                \E n \in lines'[d].version .. Len(shop) :
                    /\ shop[n].listed /\ shop[n].available
                    /\ shop[n].gen = lines'[d].chosen
                    /\ lines'[d].unit = AtLeastZero(shop[n].price + shop[n].delta)
          <5> TAKE d \in Checkouts
          <5>1. CASE d = c
            BY <5>1, <2>3
          <5>2. CASE d # c
            BY <5>2, <2>3 DEF CatalogInv, PricedFromOneVersion
          <5> QED
            BY <5>1, <5>2
        <4> QED
          <5>1. shop' = shop
            BY <2>1
          <5> QED
            BY <4>1, <5>1 DEF PricedFromOneVersion
      <3> DEFINE n == lines[c].version
      <3>1. n \in 1 .. Len(shop) /\ n \in n .. Len(shop)
        BY DEF CatalogInv, CatalogTypeOK
      <3>2. /\ shop[n].listed /\ shop[n].available
            /\ lines[c].unit = shop[n].price /\ lines[c].chosen <= shop[n].gen
        BY <2>1 DEF CatalogInv, ProductsRead, ProductRead
      <3>3. lines[c].chosen = Now.gen
        BY <2>1 DEF Selectable
      <3>4. shop[n].gen \in Nat
        <4>1. shop[n] \in Versions
          BY <1>0, <3>1
        <4> QED
          BY <4>1 DEF Versions, VersionsWith
      <3>5. shop[n].gen = Now.gen
        <4>1. shop[n].gen <= Now.gen
          BY <1>0, <3>1 DEF CatalogInv, Generations, Now
        <4> QED
          BY <1>a, <3>2, <3>3, <3>4, <4>1
      <3>6. shop[n].delta = Now.delta
        BY <1>0, <3>1, <3>5 DEF CatalogInv, Generations, Now
      <3> QED
        BY <3>1, <3>2, <3>3, <3>5, <3>6 DEF u
    <2> QED
      BY <2>1, <2>4, <2>5, <2>6 DEF CatalogInv, Generations, ShownExist
  <1>9. ASSUME NEW c \in Checkouts, PriceRefused(c)
        PROVE  CatalogInv'
    <2>1. /\ UNCHANGED <<shop, menuReads, shown>> /\ Now' = Now
          /\ lines' = [lines EXCEPT ![c].phase = "refused"]
      BY <1>9 DEF PriceRefused, Now
    <2>2. CatalogTypeOK'
      BY <2>1 DEF CatalogInv, CatalogTypeOK
    <2>3. ProductsRead'
      BY <2>1 DEF CatalogInv, CatalogTypeOK, ProductsRead, ProductRead
    <2>4. PricedFromOneVersion'
      BY <2>1 DEF CatalogInv, CatalogTypeOK, PricedFromOneVersion
    <2> QED
      BY <2>1, <2>2, <2>3, <2>4 DEF CatalogInv, Generations, ShownExist
  <1>10. CASE UNCHANGED catalogVars
    BY SMTT(60), <1>10 DEF catalogVars, CatalogInv, CatalogTypeOK, Generations, ShownExist,
                 ProductsRead, ProductRead, PricedFromOneVersion, Now
  <1> QED
    BY <1>1, <1>2, <1>3, <1>4, <1>5, <1>6, <1>7, <1>8, <1>9, <1>10
       DEF CatalogNext, UpsertProduct, ReplaceModifiers, SetAvailability, DeleteProduct

LEMMA CatalogInductive == CatalogSpec => []CatalogInv
  BY CatalogInitial, CatalogStep, PTL DEF CatalogSpec

\* Types: the rows that Price reads and the lines it fills keep their shape.
THEOREM CatalogTypeCorrect == CatalogSpec => []CatalogTypeOK
  BY CatalogInductive, PTL DEF CatalogInv

\* A line is priced from one version of the product, for any number of
\* checkouts and versions, any prices and any surcharges (catalog.go, Price).
THEOREM PricesAreOfOneVersion == CatalogSpec => []PricedFromOneVersion
  BY CatalogInductive, PTL DEF CatalogInv

-----------------------------------------------------------------------------
(***************************************************************************)
(* The support desk.  A transaction that has looked at a ticket's status   *)
(* holds its row, and nobody changes the status under it, so what it writes*)
(* to is still open.                                                       *)
(***************************************************************************)
LooksAreTrue ==
    /\ messages \in [Tickets -> Seq({"user", "support"})]
    /\ lastWords \in [Tickets -> Nat]
    /\ writing \in [Writers -> [ticket : Tickets \cup {NoTicket}, role : {"user", "support"}]]
    /\ \A w \in Writers : writing[w] # NotWriting =>
          writing[w].ticket \in Tickets /\ tickets[writing[w].ticket] \notin {"none", "closed"}
    /\ \A v, w \in Writers :
          writing[v] # NotWriting /\ writing[v].ticket = writing[w].ticket => v = w

SupportInv ==
    /\ tickets \in [Tickets -> TicketStatuses \cup {"none"}]
    /\ LooksAreTrue
    /\ ClosedTicketsStaySilent

LEMMA SupportStep == SupportInv /\ [SupportNext]_supportVars => SupportInv'
  <1> SUFFICES ASSUME SupportInv, [SupportNext]_supportVars
               PROVE  SupportInv'
    OBVIOUS
  <1> USE DEF SupportInv, LooksAreTrue, ClosedTicketsStaySilent, TicketStatuses, NotWriting
  <1>1. ASSUME NEW t \in Tickets, OpenTicket(t)
        PROVE  SupportInv'
    <2>1. <<"user">> \in Seq({"user", "support"})
      OBVIOUS
    <2> QED
      BY <1>1, <2>1 DEF OpenTicket
  <1>2. ASSUME NEW t \in Tickets, NEW status_ \in TicketStatuses, Becomes(t, status_)
        PROVE  SupportInv'
    <2>1. \A w \in Writers : writing[w].ticket # t
      BY <1>2 DEF Becomes, TicketUnlocked
    <2>2. Len(messages[t]) \in Nat
      OBVIOUS
    <2>3. /\ tickets' = [tickets EXCEPT ![t] = status_]
          /\ UNCHANGED <<messages, writing>>
          /\ lastWords' = IF status_ = "closed" /\ tickets[t] # "closed"
                          THEN [lastWords EXCEPT ![t] = Len(messages[t])] ELSE lastWords
      BY <1>2 DEF Becomes
    <2>4. LooksAreTrue'
      BY <2>1, <2>2, <2>3
    <2>5. ClosedTicketsStaySilent'
      BY <2>2, <2>3
    <2> QED
      BY <2>3, <2>4, <2>5
  <1>3. ASSUME NEW t \in Tickets, NEW w \in Writers, NEW role \in {"user", "support"},
               BeginMessage(w, t, role)
        PROVE  SupportInv'
    BY <1>3 DEF BeginMessage, TicketUnlocked
  <1>4. ASSUME NEW w \in Writers, CommitMessage(w)
        PROVE  SupportInv'
    <2> DEFINE t == writing[w].ticket
               role == writing[w].role
    <2>1. /\ t \in Tickets /\ tickets[t] \notin {"none", "closed"} /\ role \in {"user", "support"}
          /\ messages' = [messages EXCEPT ![t] = Append(@, role)]
          /\ tickets' = [tickets EXCEPT ![t] = StatusAfter(@, role)]
          /\ writing' = [writing EXCEPT ![w] = NotWriting]
          /\ UNCHANGED <<safety, lastWords>>
      BY <1>4 DEF CommitMessage
    <2>2. StatusAfter(tickets[t], role) \in TicketStatuses \ {"closed"}
      BY <2>1 DEF StatusAfter
    <2>3. Append(messages[t], role) \in Seq({"user", "support"})
      BY <2>1
    <2>4. \A v \in Writers : writing[v] # NotWriting /\ v # w => writing[v].ticket # t
      BY <2>1
    <2> HIDE DEF t, role
    <2>5. LooksAreTrue'
      <3>1. messages' \in [Tickets -> Seq({"user", "support"})]
        BY <2>1, <2>3
      <3>2. writing' \in [Writers -> [ticket : Tickets \cup {NoTicket}, role : {"user", "support"}]]
        BY <2>1
      <3>3. \A v \in Writers : writing'[v] # NotWriting => v # w /\ writing'[v] = writing[v]
        BY <2>1
      <3>4. \A v \in Writers : writing'[v] # NotWriting =>
               writing'[v].ticket \in Tickets /\ tickets'[writing'[v].ticket] = tickets[writing'[v].ticket]
        BY <2>1, <2>4, <3>3
      <3>5. \A u, v \in Writers :
               writing'[u] # NotWriting /\ writing'[u].ticket = writing'[v].ticket => u = v
        BY <2>1, <3>3, SupportAssumption
      <3> QED
        BY <2>1, <3>1, <3>2, <3>3, <3>4, <3>5
    <2>6. ClosedTicketsStaySilent'
      BY <2>1, <2>2
    <2> QED
      BY <2>1, <2>2, <2>5, <2>6
  <1>5. ASSUME NEW w \in Writers, MessageFails(w)
        PROVE  SupportInv'
    BY <1>5, SupportAssumption DEF MessageFails
  <1>6. CASE UNCHANGED supportVars
    BY <1>6 DEF supportVars
  <1> QED
    BY <1>1, <1>2, <1>3, <1>4, <1>5, <1>6
       DEF SupportNext, CreateTicket, ReportSafety, CloseTicket, AgentUpdate

LEMMA SupportInductive == SupportSpec => []SupportInv
  <1>1. ASSUME SupportInit PROVE SupportInv
    <2>1. << >> \in Seq({"user", "support"})
      OBVIOUS
    <2> QED
      BY <1>1, <2>1 DEF SupportInit, SupportInv, LooksAreTrue, ClosedTicketsStaySilent, NotWriting
  <1> QED
    BY <1>1, SupportStep, PTL DEF SupportSpec

\* What the type invariant adds: the reports, and the bound on the messages.
SupportSizes ==
    /\ safety \in [SafetyTickets -> {"none", "open", "closed"}]
    /\ \A t \in Tickets : Len(messages[t]) \in 0 .. MaxMessages /\ lastWords[t] \in 0 .. MaxMessages

LEMMA SizesStep == SupportInv /\ SupportSizes /\ [SupportNext]_supportVars => SupportSizes'
  <1> SUFFICES ASSUME SupportInv, SupportSizes, [SupportNext]_supportVars
               PROVE  SupportSizes'
    OBVIOUS
  <1>t. /\ messages \in [Tickets -> Seq({"user", "support"})]
        /\ lastWords \in [Tickets -> Nat]
    BY DEF SupportInv, LooksAreTrue
  <1>1. ASSUME NEW t \in Tickets, OpenTicket(t),
               safety' \in [SafetyTickets -> {"none", "open", "closed"}]
        PROVE  SupportSizes'
    <2>1. <<"user">> \in Seq({"user", "support"}) /\ Len(<<"user">>) = 1 /\ 1 \in 0 .. MaxMessages
      BY SupportAssumption
    <2>2. safety' \in [SafetyTickets -> {"none", "open", "closed"}]
      BY <1>1
    <2>3. \A u \in Tickets : messages'[u] = IF u = t THEN <<"user">> ELSE messages[u]
      BY <1>1, <1>t DEF OpenTicket
    <2>4. lastWords' = lastWords
      BY <1>1 DEF OpenTicket
    <2> QED
      BY <2>1, <2>2, <2>3, <2>4 DEF SupportSizes
  <1>2. ASSUME NEW t \in Tickets, NEW new \in TicketStatuses, Becomes(t, new),
               safety' \in [SafetyTickets -> {"none", "open", "closed"}]
        PROVE  SupportSizes'
    BY <1>2, <1>t DEF Becomes, SupportSizes
  <1>3. ASSUME NEW t \in Tickets, CloseTicket(t)
        PROVE  SupportSizes'
    BY <1>2, <1>3 DEF CloseTicket, SupportSizes, TicketStatuses
  <1>4. ASSUME NEW t \in Tickets, NEW new \in TicketStatuses, AgentUpdate(t, new)
        PROVE  SupportSizes'
    BY <1>2, <1>4 DEF AgentUpdate, SupportSizes
  <1>5. ASSUME NEW w \in Writers, CommitMessage(w)
        PROVE  SupportSizes'
    <2>1. PICK t : t = writing[w].ticket
      OBVIOUS
    <2>2. PICK role : role = writing[w].role
      OBVIOUS
    <2>3. /\ t \in Tickets /\ role \in {"user", "support"} /\ Len(messages[t]) < MaxMessages
          /\ messages' = [messages EXCEPT ![t] = Append(messages[t], role)]
          /\ UNCHANGED <<safety, lastWords>>
      BY <1>5, <2>1, <2>2 DEF CommitMessage, SupportInv, LooksAreTrue
    <2>4. messages[t] \in Seq({"user", "support"})
      BY <1>t, <2>3
    <2>5. Len(Append(messages[t], role)) = Len(messages[t]) + 1
      BY <2>3, <2>4
    <2>6. Len(messages[t]) + 1 \in 0 .. MaxMessages
      BY <2>3, <2>4, SupportAssumption DEF SupportSizes
    <2>7. \A u \in Tickets : messages'[u] = IF u = t THEN Append(messages[t], role) ELSE messages[u]
      BY <1>t, <2>3
    <2> QED
      BY <2>3, <2>5, <2>6, <2>7 DEF SupportSizes
  <1>6. ASSUME UNCHANGED <<safety, messages, lastWords>>
        PROVE  SupportSizes'
    BY <1>6 DEF SupportSizes
  <1>7. ASSUME NEW t \in Tickets, CreateTicket(t) \/ ReportSafety(t)
        PROVE  SupportSizes'
    <2>1. safety' \in [SafetyTickets -> {"none", "open", "closed"}]
      BY <1>7 DEF CreateTicket, ReportSafety, SupportSizes
    <2> QED
      BY <1>1, <1>7, <2>1 DEF CreateTicket, ReportSafety
  <1> QED
    BY <1>3, <1>4, <1>5, <1>6, <1>7
       DEF SupportNext, BeginMessage, MessageFails, supportVars

\* Tickets, their messages and the requests that write them are well typed.
THEOREM SupportTypeCorrect == SupportSpec => []SupportTypeOK
  <1>1. SupportInit => SupportSizes
    <2>1. Len(<<>>) = 0 /\ 0 \in 0 .. MaxMessages
      BY SupportAssumption
    <2> QED
      BY <2>1 DEF SupportInit, SupportSizes
  <1>2. SupportInv /\ SupportSizes => SupportTypeOK
    BY DEF SupportInv, SupportSizes, LooksAreTrue, SupportTypeOK
  <1> QED
    BY <1>1, <1>2, SizesStep, SupportInductive, PTL DEF SupportSpec

\* A closed ticket holds the messages it had when it was closed, for any number
\* of tickets and of requests that write at once (support.go, Reply, AgentReply,
\* Close, AgentUpdate).
THEOREM ClosedMeansSilent == SupportSpec => []ClosedTicketsStaySilent
  <1>1. SupportInv => ClosedTicketsStaySilent
    BY DEF SupportInv
  <1> QED
    BY <1>1, SupportInductive, PTL

-----------------------------------------------------------------------------
(***************************************************************************)
(* The opening hours.                                                      *)
(***************************************************************************)
MerchantsInv ==
    /\ MerchantsTypeOK
    /\ edits \in [Editors -> [phase : {"none", "hours", "deleting", "deleted", "profile", "staff"},
                              sent : Timetables \cup {NoTimetable}, gone : SUBSET Hours]]
    /\ \A q \in Editors : edits[q].phase \in {"hours", "deleting", "deleted"} =>
          edits[q].sent \in Timetables

\* An entry is on for the minutes it is meant for, whichever day it begins and
\* however many minutes a day has: the rule's look at yesterday is all that the
\* circle of the week needs, since no entry is longer than a day.
LEMMA EntryAsMeant ==
  ASSUME NEW h \in Hours, NEW day \in Days, NEW minute \in Minutes
  PROVE  OpenAt({h}, day, minute) <=> Meant(h, day, minute)
  <1> DEFINE o == h.opens
             c == h.closes
             w == h.weekday
             dm == DayMinutes
  <1>1. /\ dm \in Nat /\ dm > 0
        /\ o \in Int /\ 0 <= o /\ o < dm /\ c \in Int /\ 0 <= c /\ c < dm
        /\ minute \in Int /\ 0 <= minute /\ minute < dm
        /\ w \in 0 .. 6 /\ day \in 0 .. 6
    BY MerchantsAssumption DEF Hours, Minutes, Days
  <1>2. OpenAt({h}, day, minute) <=>
          IF c > o THEN w = day /\ minute >= o /\ minute < c
          ELSE \/ w = day /\ minute >= o
               \/ w = Yesterday(day) /\ minute < c
    BY DEF OpenAt
  <1>3. Meant(h, day, minute) <=>
          LET since == (day - w) * dm + minute - o
              len == IF c > o THEN c - o ELSE c - o + dm IN
          IF since >= 0 THEN since < len ELSE since + 7 * dm < len
    BY DEF Meant, Since, Length
  <1>4. Yesterday(day) = IF day = 0 THEN 6 ELSE day - 1
    BY <1>1 DEF Yesterday
  <1> HIDE DEF o, c, w, dm
  <1> DEFINE apart == day - w
             off == minute - o
  <1>5. apart \in -6 .. 6 /\ off \in Int /\ -dm < off /\ off < dm
    BY <1>1
  <1>6. w = Yesterday(day) <=> apart = 1 \/ apart = -6
    BY <1>1, <1>4
  <1>7. w = day <=> apart = 0
    BY <1>1
  <1> DEFINE gap == apart * dm
             len == IF c > o THEN c - o ELSE c - o + dm
  <1>8. /\ apart = 0 => gap = 0
        /\ apart = 1 => gap = dm
        /\ apart = -6 => gap = -6 * dm
        /\ apart \in 2 .. 6 => gap >= 2 * dm
        /\ apart \in -5 .. -1 => gap <= -dm /\ gap >= -5 * dm
        /\ gap \in Int
    <2>1. \A k \in {2, 3, 4, 5, 6} : k * dm >= 2 * dm
      BY <1>1
    <2>2. \A k \in {-5, -4, -3, -2, -1} : k * dm <= -dm /\ k * dm >= -5 * dm
      BY <1>1
    <2> HIDE DEF apart
    <2> QED
      BY <1>1, <1>5, <2>1, <2>2
  <1>9. len \in Int /\ 0 < len /\ len <= dm
    BY <1>1
  <1>10. Meant(h, day, minute) <=>
           IF gap + off >= 0 THEN gap + off < len ELSE gap + off + 7 * dm < len
    <2>1. (day - w) * dm + minute - o = gap + off
      <3>1. gap = (day - w) * dm
        OBVIOUS
      <3>2. (day - w) * dm \in Int
        BY <1>1
      <3> QED
        BY <1>1, <3>1, <3>2
    <2> QED
      BY <1>3, <2>1
  <1>11. off >= 0 <=> minute >= o
    BY <1>1
  <1> HIDE DEF apart, gap
  <1>12. CASE apart = 0
    BY <1>1, <1>2, <1>6, <1>7, <1>8, <1>9, <1>10, <1>12
  <1>13. CASE apart = 1
    BY <1>1, <1>2, <1>6, <1>7, <1>8, <1>9, <1>10, <1>13
  <1>14. CASE apart = -6
    BY <1>1, <1>2, <1>6, <1>7, <1>8, <1>9, <1>10, <1>14
  <1>15. CASE apart \in 2 .. 6
    BY <1>1, <1>2, <1>5, <1>6, <1>7, <1>8, <1>9, <1>10, <1>15
  <1>16. CASE apart \in -5 .. -1
    BY <1>1, <1>2, <1>5, <1>6, <1>7, <1>8, <1>9, <1>10, <1>16
  <1> QED
    BY <1>5, <1>12, <1>13, <1>14, <1>15, <1>16

\* The shop's rule, the checkout's rule and what is meant are one.
LEMMA RulesAgree == hours \subseteq Hours => OpensAsWritten
  <1> SUFFICES ASSUME hours \subseteq Hours, NEW day \in Days, NEW minute \in Minutes
               PROVE  /\ OpenAt(hours, day, minute) <=> \E h \in hours : Meant(h, day, minute)
                      /\ OpenNow(hours, day, minute) <=> OpenAt(hours, day, minute)
    BY DEF OpensAsWritten, ShownOpen, TakesOrders
  <1>1. OpenAt(hours, day, minute) <=> \E h \in hours : OpenAt({h}, day, minute)
    BY DEF OpenAt
  <1>2. OpenAt(hours, day, minute) <=> \E h \in hours : Meant(h, day, minute)
    BY <1>1, EntryAsMeant
  <1>3. \A h \in hours : ~(h.closes > h.opens) <=> h.closes <= h.opens
    BY MerchantsAssumption DEF Hours, Minutes
  <1>4. OpenNow(hours, day, minute) <=> OpenAt(hours, day, minute)
    BY <1>3 DEF OpenNow, OpenAt, Yesterday
  <1> QED
    BY <1>2, <1>4

\* Requests keep the rows in their form, whatever they interleave with, and the
\* owner stays the owner.
LEMMA MerchantsStep == MerchantsInv /\ [MerchantsNext]_merchantVars => MerchantsInv'
  <1> SUFFICES ASSUME MerchantsInv, [MerchantsNext]_merchantVars
               PROVE  MerchantsInv'
    OBVIOUS
  <1> USE DEF MerchantsInv, MerchantsTypeOK, NoRequest
  <1>1. ASSUME NEW s \in Statuses, SetStatus(s)
        PROVE  MerchantsInv'
    BY <1>1 DEF SetStatus
  <1>2. ASSUME NEW q \in Editors, NEW u \in Staff, NEW table \in Timetables,
               AskSetHours(q, u, table)
        PROVE  MerchantsInv'
    BY <1>2 DEF AskSetHours
  <1>3. ASSUME NEW q \in Editors, NEW u \in Staff, AskUpdateProfile(q, u) \/ AskStaff(q, u)
        PROVE  MerchantsInv'
    <2>1. PICK phase \in {"profile", "staff"} :
            edits' = [edits EXCEPT ![q] = [phase |-> phase, sent |-> NoTimetable, gone |-> {}]]
      BY <1>3 DEF AskUpdateProfile, AskStaff
    <2>2. UNCHANGED <<status, accepting, hours, roles>>
      BY <1>3 DEF AskUpdateProfile, AskStaff
    <2> QED
      BY <2>1, <2>2
  <1>4. ASSUME NEW q \in Editors, NEW u \in Staff, NEW role \in {"manager", "staff", "none"},
               AddStaff(q, u, role)
        PROVE  MerchantsInv'
    <2>1. /\ roles' \in [Staff -> {"owner", "manager", "staff", "none"}]
          /\ \A v \in Staff : roles'[v] = "owner" <=> v = Owner
      BY <1>4 DEF AddStaff
    <2> QED
      BY <1>4, <2>1 DEF AddStaff
  <1>5. ASSUME NEW q \in Editors, SeeHours(q)
        PROVE  MerchantsInv'
    BY ZenonT(90), <1>5 DEF SeeHours
  <1>6. ASSUME NEW q \in Editors, DeleteHours(q)
        PROVE  MerchantsInv'
    BY ZenonT(90), <1>6 DEF DeleteHours
  <1>7. ASSUME NEW q \in Editors, InsertHours(q)
        PROVE  MerchantsInv'
    <2>1. edits[q].sent \subseteq Hours
      BY <1>7, TimetablesAssumption DEF InsertHours
    <2>2. hours' \subseteq Hours
      BY <1>7, <2>1 DEF InsertHours
    <2> QED
      BY <1>7, <2>2 DEF InsertHours
  <1>8. ASSUME NEW q \in Editors, UpdateProfile(q) \/ EditFails(q)
        PROVE  MerchantsInv'
    BY <1>8 DEF UpdateProfile, EditFails
  <1>9. CASE UNCHANGED merchantVars
    BY <1>9 DEF merchantVars
  <1> QED
    BY <1>1, <1>2, <1>3, <1>4, <1>5, <1>6, <1>7, <1>8, <1>9 DEF MerchantsNext

LEMMA MerchantsInductive == MerchantsSpec => []MerchantsInv
  <1>1. MerchantsInit => MerchantsInv
    BY MerchantsAssumption DEF MerchantsInit, MerchantsInv, MerchantsTypeOK, NoRequest, Statuses
  <1> QED
    BY <1>1, MerchantsStep, PTL DEF MerchantsSpec

\* A merchant keeps one owner, and his hours are entries that were sent.
THEOREM MerchantsTypeCorrect == MerchantsSpec => []MerchantsTypeOK
  BY MerchantsInductive, PTL DEF MerchantsInv

\* A place is shown as open, and takes orders, exactly when its status, its
\* switch and its hours as they are written say so, whatever the hours are,
\* however long a day is, and whatever two edits leave of them (merchants.go,
\* OpenAt, Discover and BySlug; orders.go, openNow and price).
THEOREM OpenMeansOpen == MerchantsSpec => []OpensAsWritten
  <1>1. MerchantsInv => OpensAsWritten
    BY RulesAgree DEF MerchantsInv, MerchantsTypeOK
  <1> QED
    BY <1>1, MerchantsInductive, PTL

-----------------------------------------------------------------------------
(***************************************************************************)
(* One user's account.  The lock on the user's row has one holder, so the  *)
(* room that CreateAddress counted is there until it inserts, and an       *)
(* account that somebody renames is not deleted meanwhile.  A request that *)
(* is to make an address the default has locked the defaults it saw, and   *)
(* they are defaults of nobody else's.                                     *)
(***************************************************************************)
AskRecord == [
    step : {"idle", "locked", "changing", "clearing", "writing", "profile", "delete"},
    row : AddressRows \cup {NoAddress}, default : BOOLEAN, seen : SUBSET AddressRows]

Creating(r) == r.row = NoAddress /\ r.step \in {"changing", "clearing", "writing"}

Holding(r) == r.step \in {"locked", "profile"} \/ Creating(r)

RowsHeldBy(r) == IF r.step = "writing" THEN r.seen ELSE {}

AccountTyped ==
    /\ account \in {"active", "blocked", "deleted"} /\ named \in BOOLEAN
    /\ addresses \in [AddressRows -> {"none", "live", "default", "deleted"}]
    /\ balance \in {0, 1}
    /\ asking \in [AccountRequests -> AskRecord]

\* The two locks: the user's row, and the default addresses.
OneHolder ==
    \A p, q \in AccountRequests : p # q /\ Holding(asking[p]) => ~Holding(asking[q])

HeldApart ==
    /\ \A q \in AccountRequests : RowsHeldBy(asking[q]) \subseteq Defaults
    /\ \A p, q \in AccountRequests :
           p # q => RowsHeldBy(asking[p]) \cap RowsHeldBy(asking[q]) = {}
    /\ \A q \in AccountRequests : asking[q].step = "locked" => asking[q].seen = {}

RoomLeft ==
    /\ Cardinality(Live) <= MaxAddresses
    /\ \A q \in AccountRequests : Creating(asking[q]) => Cardinality(Live) < MaxAddresses

OneDefault == \A a, b \in Defaults : a = b

NameKept ==
    /\ \A q \in AccountRequests : asking[q].step = "profile" => account = "active"
    /\ account = "deleted" => ~named

AccountsInv == AccountTyped /\ OneHolder /\ HeldApart /\ RoomLeft /\ OneDefault /\ NameKept

LEMMA LiveIsFinite ==
    IsFiniteSet(Live) /\ Cardinality(Live) \in Nat
BY AccountsAssumption, FS_Subset, FS_CardinalityType DEF Live

LEMMA LocksAsMeant ==
    ASSUME NEW q \in AccountRequests
    PROVE  /\ HoldsUser(q) <=> Holding(asking[q])
           /\ HeldRows(q) = RowsHeldBy(asking[q])
           /\ \A p \in AccountRequests : p # q => RowsHeldBy(asking[p]) \subseteq RowsOfOthers(q)
<1>1. \A p \in AccountRequests : HeldRows(p) = RowsHeldBy(asking[p])
  BY DEF HeldRows, RowsHeldBy
<1>2. \A p \in AccountRequests : p # q => HeldRows(p) \subseteq RowsOfOthers(q)
  BY DEF RowsOfOthers
<1>3. HoldsUser(q) <=> Holding(asking[q])
  BY DEF HoldsUser, Holding, Creating
<1> QED
  BY <1>1, <1>2, <1>3

LEMMA RequestMoves ==
    ASSUME AccountTyped, NEW q \in AccountRequests, NEW r \in AskRecord,
           asking' = [asking EXCEPT ![q] = r]
    PROVE  /\ asking' \in [AccountRequests -> AskRecord]
           /\ asking'[q] = r /\ \A p \in AccountRequests : p # q => asking'[p] = asking[p]
BY DEF AccountTyped

LEMMA IdleIsARequest ==
    /\ Idle \in AskRecord /\ ~Holding(Idle) /\ ~Creating(Idle) /\ RowsHeldBy(Idle) = {}
    /\ Idle.step = "idle"
BY DEF Idle, AskRecord, Holding, Creating, RowsHeldBy

\* A request goes on and writes no address.
LEMMA RequestStep ==
    ASSUME AccountsInv, NEW q \in AccountRequests, NEW r \in AskRecord,
           asking' = [asking EXCEPT ![q] = r], UNCHANGED <<account, addresses, balance>>,
           named' \in BOOLEAN, account = "deleted" => ~named',
           Holding(r) => Holding(asking[q]) \/ \A p \in AccountRequests : ~Holding(asking[p]),
           Creating(r) => Cardinality(Live) < MaxAddresses,
           RowsHeldBy(r) \subseteq Defaults,
           \A p \in AccountRequests : p # q => RowsHeldBy(r) \cap RowsHeldBy(asking[p]) = {},
           r.step = "locked" => r.seen = {},
           r.step = "profile" => account = "active"
    PROVE  AccountsInv'
<1>1. /\ asking' \in [AccountRequests -> AskRecord]
      /\ asking'[q] = r /\ \A p \in AccountRequests : p # q => asking'[p] = asking[p]
  BY RequestMoves DEF AccountsInv
<1>2. AccountTyped'
  BY <1>1 DEF AccountsInv, AccountTyped
<1>3. OneHolder'
  <2> SUFFICES ASSUME NEW p \in AccountRequests, NEW s \in AccountRequests, p # s,
                      Holding(asking'[p]), Holding(asking'[s])
               PROVE  FALSE
    BY DEF OneHolder, Holding, Creating
  <2>1. \A a, b \in AccountRequests : a # b /\ Holding(asking[a]) => ~Holding(asking[b])
    BY DEF AccountsInv, OneHolder
  <2>2. CASE p = q
    BY <1>1, <2>1, <2>2
  <2>3. CASE s = q
    BY <1>1, <2>1, <2>3
  <2>4. CASE p # q /\ s # q
    BY <1>1, <2>1, <2>4
  <2> QED
    BY <2>2, <2>3, <2>4
<1>4. Live' = Live /\ Defaults' = Defaults
  BY DEF Live, Defaults
<1>5. HeldApart'
  <2>1. \A p \in AccountRequests : RowsHeldBy(asking'[p]) \subseteq Defaults
    BY <1>1 DEF AccountsInv, HeldApart
  <2>2. \A p, s \in AccountRequests : p # s => RowsHeldBy(asking'[p]) \cap RowsHeldBy(asking'[s]) = {}
    <3> SUFFICES ASSUME NEW p \in AccountRequests, NEW s \in AccountRequests, p # s
                 PROVE  RowsHeldBy(asking'[p]) \cap RowsHeldBy(asking'[s]) = {}
      OBVIOUS
    <3>1. \A a, b \in AccountRequests : a # b => RowsHeldBy(asking[a]) \cap RowsHeldBy(asking[b]) = {}
      BY DEF AccountsInv, HeldApart
    <3>2. CASE p = q
      BY <1>1, <3>2
    <3>3. CASE s = q
      BY <1>1, <3>3
    <3>4. CASE p # q /\ s # q
      BY <1>1, <3>1, <3>4
    <3> QED
      BY <3>2, <3>3, <3>4
  <2>3. \A p \in AccountRequests : asking'[p].step = "locked" => asking'[p].seen = {}
    BY <1>1 DEF AccountsInv, HeldApart
  <2> QED
    BY <1>4, <2>1, <2>2, <2>3 DEF HeldApart, RowsHeldBy
<1>6. RoomLeft'
  <2>1. \A p \in AccountRequests : Creating(asking'[p]) => Cardinality(Live) < MaxAddresses
    BY <1>1 DEF AccountsInv, RoomLeft
  <2> QED
    BY <1>4, <2>1 DEF AccountsInv, RoomLeft, Creating
<1>7. OneDefault'
  BY <1>4 DEF AccountsInv, OneDefault
<1>8. NameKept'
  BY <1>1 DEF AccountsInv, NameKept
<1> QED
  BY <1>2, <1>3, <1>5, <1>6, <1>7, <1>8 DEF AccountsInv

\* A request that asks, counts or clears, or that ends without a word.
LEMMA AsksStep ==
    ASSUME AccountsInv, NEW q \in AccountRequests,
           \/ \E default \in BOOLEAN : AskCreate(q, default)
           \/ \E default \in BOOLEAN, a \in AddressRows : AskUpdate(q, a, default)
           \/ CountAddresses(q) \/ SeeDefaults(q) \/ ClearDefault(q)
           \/ AskProfile(q) \/ WriteProfile(q) \/ AskDelete(q) \/ AskingFails(q)
    PROVE  AccountsInv'
<1>t. /\ AccountTyped /\ asking[q] \in AskRecord
      /\ \A p \in AccountRequests : p # q => RowsHeldBy(asking[p]) \subseteq RowsOfOthers(q)
      /\ UserUnlocked <=> \A p \in AccountRequests : ~Holding(asking[p])
  BY LocksAsMeant DEF AccountsInv, AccountTyped, UserUnlocked
<1>n. /\ named \in BOOLEAN /\ (account = "deleted" => ~named)
      /\ asking[q].step = "profile" => account = "active"
      /\ Creating(asking[q]) => Cardinality(Live) < MaxAddresses
  BY DEF AccountsInv, AccountTyped, NameKept, RoomLeft
<1>h. \A p, s \in AccountRequests : p # s => RowsHeldBy(asking[p]) \cap RowsHeldBy(asking[s]) = {}
  BY DEF AccountsInv, HeldApart
<1>s. asking[q].step = "locked" => asking[q].seen = {}
  BY DEF AccountsInv, HeldApart
<1>f. NoAddress \notin AddressRows /\ MaxAddresses \in Nat /\ Cardinality(Live) \in Nat
  BY AccountsAssumption, LiveIsFinite
\* Requests that begin.
<1>1. ASSUME NEW s, NEW x, NEW b
      PROVE  /\ [Idle EXCEPT !.step = s, !.default = b] =
                    [step |-> s, row |-> NoAddress, default |-> b, seen |-> {}]
             /\ [Idle EXCEPT !.step = s, !.row = x, !.default = b] =
                    [step |-> s, row |-> x, default |-> b, seen |-> {}]
             /\ [Idle EXCEPT !.step = s] = [step |-> s, row |-> NoAddress, default |-> FALSE, seen |-> {}]
  <2> DEFINE no == FALSE
             start == "idle"
  <2>i. Idle = [step |-> start, row |-> NoAddress, default |-> no, seen |-> {}]
    BY DEF Idle
  <2> HIDE DEF no, start
  <2>1. [[step |-> start, row |-> NoAddress, default |-> no, seen |-> {}] EXCEPT !.step = s] =
            [step |-> s, row |-> NoAddress, default |-> no, seen |-> {}]
    OBVIOUS
  <2>2. /\ [Idle EXCEPT !.step = s, !.default = b] = [[Idle EXCEPT !.step = s] EXCEPT !.default = b]
        /\ [Idle EXCEPT !.step = s, !.row = x, !.default = b] =
               [[[Idle EXCEPT !.step = s] EXCEPT !.row = x] EXCEPT !.default = b]
    BY Zenon
  <2>3. [[step |-> s, row |-> NoAddress, default |-> no, seen |-> {}] EXCEPT !.default = b] =
            [step |-> s, row |-> NoAddress, default |-> b, seen |-> {}]
    OBVIOUS
  <2>4. [[step |-> s, row |-> NoAddress, default |-> no, seen |-> {}] EXCEPT !.row = x] =
            [step |-> s, row |-> x, default |-> no, seen |-> {}]
    OBVIOUS
  <2>5. [[step |-> s, row |-> x, default |-> no, seen |-> {}] EXCEPT !.default = b] =
            [step |-> s, row |-> x, default |-> b, seen |-> {}]
    OBVIOUS
  <2>6. [Idle EXCEPT !.step = s] = [step |-> s, row |-> NoAddress, default |-> no, seen |-> {}]
    BY <2>i, <2>1
  <2>7. [Idle EXCEPT !.step = s, !.default = b] =
            [step |-> s, row |-> NoAddress, default |-> b, seen |-> {}]
    BY <2>2, <2>3, <2>6
  <2>8. [Idle EXCEPT !.step = s, !.row = x, !.default = b] =
            [step |-> s, row |-> x, default |-> b, seen |-> {}]
    BY <2>2, <2>4, <2>5, <2>6
  <2> QED
    BY <2>6, <2>7, <2>8 DEF no
<1>2. ASSUME NEW default \in BOOLEAN, AskCreate(q, default)
      PROVE  AccountsInv'
  <2> DEFINE r == [step |-> "locked", row |-> NoAddress, default |-> default, seen |-> {}]
  <2>1. asking' = [asking EXCEPT ![q] = r]
    BY <1>1, <1>2 DEF AskCreate
  <2>2. r \in AskRecord /\ ~Creating(r) /\ RowsHeldBy(r) = {} /\ r.step # "profile" /\ r.seen = {}
    BY DEF AskRecord, Creating, RowsHeldBy
  <2>3. UNCHANGED <<account, named, addresses, balance>> /\ UserUnlocked
    BY <1>2 DEF AskCreate
  <2> HIDE DEF r
  <2> QED
    BY <2>1, <2>2, <2>3, <1>t, <1>n, RequestStep
<1>3. ASSUME NEW default \in BOOLEAN, NEW a \in AddressRows, AskUpdate(q, a, default)
      PROVE  AccountsInv'
  <2> DEFINE s == IF default THEN "changing" ELSE "writing"
             r == [step |-> s, row |-> a, default |-> default, seen |-> {}]
  <2>1. asking' = [asking EXCEPT ![q] = [Idle EXCEPT !.step = s, !.row = a, !.default = default]]
    BY <1>3 DEF AskUpdate
  <2>2. s \in {"changing", "writing"}
    OBVIOUS
  <2> HIDE DEF s
  <2>3. asking' = [asking EXCEPT ![q] = r]
    BY ZenonT(90), <2>1, <2>2, <1>1
  <2>4. r \in AskRecord /\ ~Holding(r) /\ ~Creating(r) /\ RowsHeldBy(r) = {} /\ r.step # "profile" /\ r.seen = {}
    BY <1>f, <2>2 DEF AskRecord, Holding, Creating, RowsHeldBy
  <2>5. UNCHANGED <<account, named, addresses, balance>>
    BY <1>3 DEF AskUpdate
  <2> HIDE DEF r
  <2> QED
    BY <2>3, <2>4, <2>5, <1>n, RequestStep
<1>4. ASSUME AskProfile(q) \/ AskDelete(q)
      PROVE  AccountsInv'
  <2>1. PICK s \in {"profile", "delete"} :
          /\ asking[q] = Idle /\ asking' = [asking EXCEPT ![q].step = s]
          /\ s = "profile" => UserUnlocked /\ account = "active"
    BY <1>4 DEF AskProfile, AskDelete
  <2> DEFINE r == [step |-> s, row |-> NoAddress, default |-> FALSE, seen |-> {}]
  <2>2. asking' = [asking EXCEPT ![q] = [asking[q] EXCEPT !.step = s]]
    BY <2>1
  <2>3. asking' = [asking EXCEPT ![q] = r]
    BY <2>1, <2>2, <1>1
  <2>4. r \in AskRecord /\ ~Creating(r) /\ RowsHeldBy(r) = {} /\ r.step = s /\ r.seen = {}
    BY DEF AskRecord, Creating, RowsHeldBy
  <2>5. Holding(r) => s = "profile"
    BY DEF Holding, Creating
  <2>6. UNCHANGED <<account, named, addresses, balance>>
    BY <1>4 DEF AskProfile, AskDelete
  <2> HIDE DEF r
  <2> QED
    BY ZenonT(90), <2>1, <2>3, <2>4, <2>5, <2>6, <1>t, <1>n, RequestStep
\* Requests that end.
<1>5. ASSUME Ends(q), UNCHANGED <<account, addresses, balance>>, named' \in BOOLEAN,
             account = "deleted" => ~named'
      PROVE  AccountsInv'
  <2>1. asking' = [asking EXCEPT ![q] = Idle]
    BY <1>5 DEF Ends
  <2> QED
    BY <2>1, <1>5, IdleIsARequest, RequestStep
<1>6. CASE WriteProfile(q) \/ AskingFails(q)
  BY <1>5, <1>6, <1>n DEF WriteProfile, AskingFails
\* Requests that go on.
<1>7. ASSUME NEW s \in {"changing", "clearing", "writing"}, NEW b \in BOOLEAN, NEW T \in SUBSET AddressRows,
             asking' = [asking EXCEPT ![q] = [step |-> s, row |-> asking[q].row, default |-> b, seen |-> T]],
             UNCHANGED <<account, named, addresses, balance>>,
             asking[q].step \in {"locked", "changing", "clearing"},
             asking[q].step = "locked" => Cardinality(Live) < MaxAddresses,
             s = "writing" => T \subseteq Defaults /\ T \cap RowsOfOthers(q) = {}
      PROVE  AccountsInv'
  <2> DEFINE r == [step |-> s, row |-> asking[q].row, default |-> b, seen |-> T]
  <2>1. r \in AskRecord /\ r.step # "profile" /\ r.step # "locked"
    BY <1>t DEF AskRecord
  <2>2. Creating(r) => asking[q].step = "locked" \/ Creating(asking[q])
    BY <1>7 DEF Creating
  <2>3. Holding(r) => Creating(r)
    BY DEF Holding, Creating
  <2>4. Holding(r) => Holding(asking[q])
    BY <2>2, <2>3 DEF Holding
  <2>5. RowsHeldBy(r) \subseteq Defaults /\ RowsHeldBy(r) \cap RowsOfOthers(q) = {}
    BY <1>7 DEF RowsHeldBy
  <2>6. \A p \in AccountRequests : p # q => RowsHeldBy(r) \cap RowsHeldBy(asking[p]) = {}
    BY <2>5, <1>t
  <2>7. Creating(r) => Cardinality(Live) < MaxAddresses
    BY <2>2, <1>7, <1>n
  <2>8. asking' = [asking EXCEPT ![q] = r]
    BY <1>7
  <2> HIDE DEF r
  <2> QED
    BY ZenonT(90), <2>1, <2>4, <2>5, <2>6, <2>7, <2>8, <1>7, <1>n, RequestStep
<1>e. ASSUME NEW s, NEW b, NEW T
      PROVE  /\ asking' = [asking EXCEPT ![q].step = s, ![q].default = b] =>
                    asking' = [asking EXCEPT ![q] =
                        [step |-> s, row |-> asking[q].row, default |-> b, seen |-> asking[q].seen]]
             /\ asking' = [asking EXCEPT ![q].step = s, ![q].seen = T] =>
                    asking' = [asking EXCEPT ![q] =
                        [step |-> s, row |-> asking[q].row, default |-> asking[q].default, seen |-> T]]
  <2> DEFINE k == asking[q]
             f == k.row
             g == k.default
             h == k.seen
             k2 == [step |-> s, row |-> f, default |-> g, seen |-> h]
             k3 == [step |-> s, row |-> f, default |-> b, seen |-> h]
             k4 == [step |-> s, row |-> f, default |-> g, seen |-> T]
  <2>0. asking \in [AccountRequests -> AskRecord]
    BY <1>t DEF AccountTyped
  <2>1. [k EXCEPT !.step = s] = k2
    BY <1>t DEF AskRecord
  <2>2. /\ [asking EXCEPT ![q].step = s, ![q].default = b] =
               [[asking EXCEPT ![q].step = s] EXCEPT ![q].default = b]
        /\ [asking EXCEPT ![q].step = s, ![q].seen = T] = [[asking EXCEPT ![q].step = s] EXCEPT ![q].seen = T]
    BY Zenon
  <2>3. [asking EXCEPT ![q].step = s] = [asking EXCEPT ![q] = [k EXCEPT !.step = s]]
    BY <2>0
  <2> HIDE DEF f, g, h
  <2>4. [k2 EXCEPT !.default = b] = k3
    OBVIOUS
  <2>5. [k2 EXCEPT !.seen = T] = k4
    OBVIOUS
  <2> HIDE DEF k2
  <2>6. [asking EXCEPT ![q].step = s] = [asking EXCEPT ![q] = k2]
    BY <2>1, <2>3
  <2>7. [[asking EXCEPT ![q] = k2] EXCEPT ![q].default = b] = [asking EXCEPT ![q] = [k2 EXCEPT !.default = b]]
    BY <2>0
  <2>8. [[asking EXCEPT ![q] = k2] EXCEPT ![q].seen = T] = [asking EXCEPT ![q] = [k2 EXCEPT !.seen = T]]
    BY <2>0
  <2> HIDE DEF k3, k4
  <2>9. /\ [asking EXCEPT ![q].step = s, ![q].default = b] = [asking EXCEPT ![q] = k3]
        /\ [asking EXCEPT ![q].step = s, ![q].seen = T] = [asking EXCEPT ![q] = k4]
    BY <2>2, <2>4, <2>5, <2>6, <2>7, <2>8
  <2> QED
    BY <2>9 DEF k3, k4, f, g, h
<1>8. CASE CountAddresses(q)
  <2> DEFINE b == asking[q].default \/ Live = {}
             s == IF b THEN "changing" ELSE "writing"
             T == asking[q].seen
  <2>1. CASE Cardinality(Live) >= MaxAddresses
    BY <1>5, <1>8, <1>n, <2>1 DEF CountAddresses
  <2>2. CASE ~(Cardinality(Live) >= MaxAddresses)
    <3>1. asking[q].step = "locked" /\ UNCHANGED <<account, named, addresses, balance>>
      BY <1>8 DEF CountAddresses
    <3>2. asking' = [asking EXCEPT ![q].step = s, ![q].default = b]
      BY <1>8, <2>2, Zenon DEF CountAddresses
    <3>4. s \in {"changing", "writing"} /\ b \in BOOLEAN
      OBVIOUS
    <3> HIDE DEF s, b
    <3>8. asking' = [asking EXCEPT ![q] = [step |-> s, row |-> asking[q].row, default |-> b, seen |-> T]]
      BY <3>2, <1>e
    <3>9. T \in SUBSET AddressRows
      BY <1>t DEF AskRecord
    <3>10. T = {}
      BY <3>1, <1>s
    <3>11. ~(Cardinality(Live) >= MaxAddresses) => Cardinality(Live) < MaxAddresses
      BY <1>f
    <3> HIDE DEF T
    <3>12. T \subseteq Defaults /\ T \cap RowsOfOthers(q) = {}
      BY <3>10
    <3> QED
      BY <1>7, <2>2, <3>1, <3>4, <3>8, <3>9, <3>11, <3>12
  <2> QED
    BY <2>1, <2>2
<1>9. CASE SeeDefaults(q)
  <2>1. /\ asking[q].step = "changing" /\ UNCHANGED <<account, named, addresses, balance>>
        /\ asking' = [asking EXCEPT ![q].step = "clearing", ![q].seen = Defaults]
    BY <1>9 DEF SeeDefaults
  <2> DEFINE T == Defaults
  <2>2. T \in SUBSET AddressRows
    BY DEF Defaults
  <2> HIDE DEF T
  <2>3. asking' = [asking EXCEPT ![q] =
            [step |-> "clearing", row |-> asking[q].row, default |-> asking[q].default, seen |-> T]]
    BY <2>1, <1>e DEF T
  <2>4. asking[q].default \in BOOLEAN
    BY <1>t DEF AskRecord
  <2> QED
    BY <1>7, <2>1, <2>2, <2>3, <2>4
<1>10. CASE ClearDefault(q)
  <2> DEFINE T == asking[q].seen \cap Defaults
  <2>1. /\ asking[q].step = "clearing" /\ UNCHANGED <<account, named, addresses, balance>>
        /\ asking' = [asking EXCEPT ![q].step = "writing", ![q].seen = T]
        /\ asking[q].seen \cap RowsOfOthers(q) = {}
    BY <1>10 DEF ClearDefault
  <2>2. T \in SUBSET AddressRows /\ T \subseteq Defaults /\ T \cap RowsOfOthers(q) = {}
    BY <2>1 DEF Defaults
  <2> HIDE DEF T
  <2>3. asking' = [asking EXCEPT ![q] =
            [step |-> "writing", row |-> asking[q].row, default |-> asking[q].default, seen |-> T]]
    BY <2>1, <1>e
  <2>4. asking[q].default \in BOOLEAN
    BY <1>t DEF AskRecord
  <2> QED
    BY <1>7, <2>1, <2>2, <2>3, <2>4
<1> QED
  BY <1>2, <1>3, <1>4, <1>6, <1>8, <1>9, <1>10

\* What a request that is to write an address leaves of the others: the rows it
\* takes the default from are its own.
LEMMA WriteStep ==
    ASSUME AccountsInv, NEW q \in AccountRequests, NEW a \in AddressRows,
           asking[q].step = "writing", a \notin RowsOfOthers(q),
           addresses[a] = "none" => asking[q].row = NoAddress,
           addresses[a] # "none" => a \in Live,
           Rivals(q, a) = {}, addresses' = Written(q, a), Ends(q), UNCHANGED <<account, named, balance>>
    PROVE  AccountsInv'
<1> DEFINE r == asking[q]
<1>t. /\ AccountTyped /\ r \in AskRecord
      /\ \A p \in AccountRequests : p # q => RowsHeldBy(asking[p]) \subseteq RowsOfOthers(q)
  BY LocksAsMeant DEF AccountsInv, AccountTyped
<1>m. /\ asking' \in [AccountRequests -> AskRecord]
      /\ asking'[q] = Idle /\ \A p \in AccountRequests : p # q => asking'[p] = asking[p]
  BY <1>t, IdleIsARequest, RequestMoves DEF Ends
<1>i. ~Holding(Idle) /\ ~Creating(Idle) /\ RowsHeldBy(Idle) = {} /\ Idle.step = "idle"
  BY IdleIsARequest
<1>s. r.seen \subseteq Defaults /\ r.seen \in SUBSET AddressRows
  BY <1>t DEF AccountsInv, HeldApart, RowsHeldBy, AskRecord
<1>w. /\ addresses' \in [AddressRows -> {"none", "live", "default", "deleted"}]
      /\ addresses'[a] = IF r.default THEN "default" ELSE "live"
      /\ \A b \in AddressRows : b # a => addresses'[b] = IF b \in r.seen THEN "live" ELSE addresses[b]
  BY <1>t DEF Written, AccountTyped
<1>1. AccountTyped'
  BY <1>t, <1>m, <1>w DEF AccountTyped
<1>2. OneHolder'
  <2> SUFFICES ASSUME NEW p \in AccountRequests, NEW s \in AccountRequests, p # s,
                      Holding(asking'[p]), Holding(asking'[s])
               PROVE  FALSE
    BY DEF OneHolder, Holding, Creating
  <2>1. p # q /\ s # q
    BY <1>m, <1>i
  <2> QED
    BY <2>1, <1>m DEF AccountsInv, OneHolder
<1>3. \A p \in AccountRequests : p # q => RowsHeldBy(asking[p]) \subseteq Defaults'
  <2> SUFFICES ASSUME NEW p \in AccountRequests, p # q, NEW b \in RowsHeldBy(asking[p])
               PROVE  b \in Defaults'
    OBVIOUS
  <2>1. b \in Defaults /\ b \notin r.seen /\ b # a
    BY <1>t DEF AccountsInv, HeldApart, RowsHeldBy
  <2> QED
    BY <2>1, <1>w DEF Defaults
<1>4. HeldApart'
  <2>1. \A p \in AccountRequests : RowsHeldBy(asking'[p]) \subseteq Defaults'
    BY <1>3, <1>m, <1>i
  <2>2. \A p, s \in AccountRequests : p # s => RowsHeldBy(asking'[p]) \cap RowsHeldBy(asking'[s]) = {}
    BY <1>m, <1>i DEF AccountsInv, HeldApart
  <2>3. \A p \in AccountRequests : asking'[p].step = "locked" => asking'[p].seen = {}
    BY <1>m, <1>i DEF AccountsInv, HeldApart
  <2> QED
    BY <2>1, <2>2, <2>3 DEF HeldApart, RowsHeldBy
<1>5. Live' = Live \cup {a}
  BY <1>s, <1>w DEF Live, Defaults
<1>6. RoomLeft'
  <2>1. Cardinality(Live) <= MaxAddresses /\ \A p \in AccountRequests : Creating(asking[p]) => Cardinality(Live) < MaxAddresses
    BY DEF AccountsInv, RoomLeft
  <2>2. CASE a \in Live
    <3>1. Live' = Live
      BY <1>5, <2>2
    <3>2. \A p \in AccountRequests : Creating(asking'[p]) => Cardinality(Live) < MaxAddresses
      BY <1>m, <1>i, <2>1
    <3> QED
      BY <2>1, <3>1, <3>2 DEF RoomLeft, Creating
  <2>3. CASE a \notin Live
    <3>1. Creating(r)
      BY <2>3 DEF Creating
    <3>2. Cardinality(Live) < MaxAddresses
      BY <2>1, <3>1
    <3>3. Cardinality(Live') = Cardinality(Live) + 1
      BY <1>5, <2>3, LiveIsFinite, FS_AddElement
    <3>4. Cardinality(Live') <= MaxAddresses
      BY <3>2, <3>3, LiveIsFinite, AccountsAssumption
    <3>5. \A p \in AccountRequests : p # q => ~Holding(asking[p])
      BY <3>1 DEF AccountsInv, OneHolder, Holding
    <3>6. \A p \in AccountRequests : ~Creating(asking'[p])
      BY <1>m, <1>i, <3>5 DEF Holding
    <3> QED
      BY <3>4, <3>6 DEF RoomLeft, Creating
  <2> QED
    BY <2>2, <2>3
<1>7. OneDefault'
  <2>1. CASE r.default
    <3>1. Defaults \subseteq r.seen \cup {a}
      BY <2>1 DEF Rivals
    <3>2. Defaults' \subseteq {a}
      BY <1>w, <3>1 DEF Defaults
    <3> QED
      BY <3>2 DEF OneDefault
  <2>2. CASE ~r.default
    <3>1. Defaults' \subseteq Defaults
      BY <1>w, <2>2 DEF Defaults
    <3>2. \A b, c \in Defaults : b = c
      BY DEF AccountsInv, OneDefault
    <3>3. \A b, c \in Defaults' : b = c
      BY <3>1, <3>2
    <3> QED
      BY <3>3 DEF OneDefault
  <2> QED
    BY <2>1, <2>2
<1>8. NameKept'
  BY <1>m, <1>i DEF AccountsInv, NameKept
<1> QED
  BY <1>1, <1>2, <1>4, <1>6, <1>7, <1>8 DEF AccountsInv

\* Addresses are deleted, one or all of them, none of which is locked.
LEMMA AddressesGo ==
    ASSUME AccountsInv, NEW A \in SUBSET Live,
           asking' \in [AccountRequests -> AskRecord],
           \A p \in AccountRequests : asking'[p] = Idle
               \/ (asking'[p] = asking[p] /\ RowsHeldBy(asking[p]) \cap A = {}),
           addresses' = [b \in AddressRows |-> IF b \in A THEN "deleted" ELSE addresses[b]],
           UNCHANGED balance, named' \in BOOLEAN, account' = "deleted" => ~named',
           account' = account \/ (account' = "deleted" /\ UserUnlocked)
    PROVE  AccountsInv'
<1>t. AccountTyped
  BY DEF AccountsInv
<1>i. /\ ~Holding(Idle) /\ ~Creating(Idle) /\ RowsHeldBy(Idle) = {} /\ Idle.step = "idle"
      /\ Idle \in AskRecord
  BY IdleIsARequest
<1>w. /\ addresses' \in [AddressRows -> {"none", "live", "default", "deleted"}]
      /\ Live' = Live \ A /\ Defaults' = Defaults \ A
  BY <1>t DEF AccountTyped, Live, Defaults
<1>1. AccountTyped'
  BY <1>t, <1>w DEF AccountTyped
<1>2. OneHolder'
  <2> SUFFICES ASSUME NEW p \in AccountRequests, NEW s \in AccountRequests, p # s,
                      Holding(asking'[p]), Holding(asking'[s])
               PROVE  FALSE
    BY DEF OneHolder, Holding, Creating
  <2>1. asking'[p] = asking[p] /\ asking'[s] = asking[s]
    BY <1>i
  <2> QED
    BY <2>1 DEF AccountsInv, OneHolder
<1>3. HeldApart'
  <2>1. \A p \in AccountRequests : RowsHeldBy(asking'[p]) \subseteq Defaults'
    BY <1>i, <1>w DEF AccountsInv, HeldApart
  <2>2. \A p, s \in AccountRequests : p # s => RowsHeldBy(asking'[p]) \cap RowsHeldBy(asking'[s]) = {}
    BY <1>i DEF AccountsInv, HeldApart
  <2>3. \A p \in AccountRequests : asking'[p].step = "locked" => asking'[p].seen = {}
    BY <1>i DEF AccountsInv, HeldApart
  <2> QED
    BY <2>1, <2>2, <2>3 DEF HeldApart, RowsHeldBy
<1>4. RoomLeft'
  <2>1. Cardinality(Live') <= Cardinality(Live) /\ Cardinality(Live') \in Nat /\ Cardinality(Live) \in Nat
    BY <1>w, LiveIsFinite, FS_Subset, FS_CardinalityType
  <2>2. \A p \in AccountRequests : Creating(asking'[p]) => Cardinality(Live) < MaxAddresses
    BY <1>i DEF AccountsInv, RoomLeft
  <2>3. Cardinality(Live) <= MaxAddresses
    BY DEF AccountsInv, RoomLeft
  <2>4. \A p \in AccountRequests : Creating(asking'[p]) => Cardinality(Live') < MaxAddresses
    BY <2>1, <2>2, AccountsAssumption
  <2>5. Cardinality(Live') <= MaxAddresses
    BY <2>1, <2>3, AccountsAssumption
  <2> QED
    BY <2>4, <2>5 DEF RoomLeft, Creating
<1>5. OneDefault'
  <2>1. \A b, c \in Defaults : b = c
    BY DEF AccountsInv, OneDefault
  <2>2. \A b, c \in Defaults' : b = c
    BY <1>w, <2>1
  <2> QED
    BY <2>2 DEF OneDefault
<1>6. NameKept'
  <2>1. UserUnlocked => \A p \in AccountRequests : asking[p].step # "profile"
    BY DEF UserUnlocked, HoldsUser
  <2>2. \A p \in AccountRequests : asking'[p].step = "profile" => asking[p].step = "profile"
    BY <1>i
  <2> QED
    BY <2>1, <2>2 DEF AccountsInv, NameKept
<1> QED
  BY <1>1, <1>2, <1>3, <1>4, <1>5, <1>6 DEF AccountsInv

LEMMA AccountsStep ==
    AccountsInv /\ [AccountsNext]_accountVars => AccountsInv'
<1> SUFFICES ASSUME AccountsInv, [AccountsNext]_accountVars PROVE AccountsInv'
  OBVIOUS
<1>f. NoAddress \notin AddressRows
  BY AccountsAssumption
<1>1. ASSUME NEW q \in AccountRequests, NEW a \in AddressRows, InsertAddress(q, a)
      PROVE  AccountsInv'
  <2>1. /\ asking[q].step = "writing" /\ asking[q].row = NoAddress /\ addresses[a] = "none"
        /\ addresses' = (IF Rivals(q, a) = {} THEN Written(q, a) ELSE addresses)
        /\ Ends(q) /\ UNCHANGED <<account, named, balance>>
    BY <1>1 DEF InsertAddress
  <2>2. a \notin RowsOfOthers(q)
    <3>1. \A p \in AccountRequests : HeldRows(p) \subseteq Defaults
      BY DEF AccountsInv, HeldApart, HeldRows, RowsHeldBy
    <3>2. a \notin Defaults
      BY <2>1 DEF Defaults
    <3> QED
      BY <3>1, <3>2 DEF RowsOfOthers
  <2>3. CASE Rivals(q, a) = {}
    BY <2>1, <2>2, <2>3, WriteStep
  <2>4. CASE Rivals(q, a) # {}
    <3>1. asking' = [asking EXCEPT ![q] = Idle] /\ UNCHANGED <<account, addresses, balance, named>>
      BY <2>1, <2>4 DEF Ends
    <3>2. named \in BOOLEAN /\ (account = "deleted" => ~named)
      BY DEF AccountsInv, AccountTyped, NameKept
    <3> QED
      BY <3>1, <3>2, IdleIsARequest, RequestStep
  <2> QED
    BY <2>3, <2>4
<1>2. ASSUME NEW q \in AccountRequests, UpdateAddress(q)
      PROVE  AccountsInv'
  <2> DEFINE a == asking[q].row
  <2>1. /\ asking[q].step = "writing" /\ a # NoAddress /\ a \notin RowsOfOthers(q)
        /\ addresses' = (IF a \in Live /\ Rivals(q, a) = {} THEN Written(q, a) ELSE addresses)
        /\ Ends(q) /\ UNCHANGED <<account, named, balance>>
    BY <1>2 DEF UpdateAddress
  <2>2. a \in AddressRows
    BY <2>1 DEF AccountsInv, AccountTyped, AskRecord
  <2>3. CASE a \in Live /\ Rivals(q, a) = {}
    <3>1. addresses[a] # "none"
      BY <2>3 DEF Live
    <3>2. addresses' = Written(q, a)
      BY <2>1, <2>3
    <3> HIDE DEF a
    <3> QED
      BY <2>1, <2>2, <2>3, <3>1, <3>2, WriteStep
  <2>4. CASE ~(a \in Live /\ Rivals(q, a) = {})
    <3>1. asking' = [asking EXCEPT ![q] = Idle] /\ UNCHANGED <<account, addresses, balance, named>>
      BY <2>1, <2>4 DEF Ends
    <3>2. named \in BOOLEAN /\ (account = "deleted" => ~named)
      BY DEF AccountsInv, AccountTyped, NameKept
    <3> QED
      BY <3>1, <3>2, IdleIsARequest, RequestStep
  <2> QED
    BY <2>3, <2>4
<1>3. ASSUME NEW a \in AddressRows, DeleteAddress(a)
      PROVE  AccountsInv'
  <2>1. /\ a \in Live /\ \A q \in AccountRequests : a \notin HeldRows(q)
        /\ addresses' = [addresses EXCEPT ![a] = "deleted"]
        /\ UNCHANGED <<account, named, balance, asking>>
    BY <1>3 DEF DeleteAddress
  <2>2. addresses' = [b \in AddressRows |-> IF b \in {a} THEN "deleted" ELSE addresses[b]]
    BY <2>1 DEF AccountsInv, AccountTyped
  <2>3. \A p \in AccountRequests : asking'[p] = asking[p] /\ RowsHeldBy(asking[p]) \cap {a} = {}
    BY <2>1, LocksAsMeant
  <2>4. /\ asking' \in [AccountRequests -> AskRecord] /\ named' \in BOOLEAN
        /\ account' = "deleted" => ~named'
    BY <2>1 DEF AccountsInv, AccountTyped, NameKept
  <2>5. {a} \in SUBSET Live
    BY <2>1
  <2> QED
    BY <2>1, <2>2, <2>3, <2>4, <2>5, AddressesGo
<1>4. ASSUME NEW q \in AccountRequests, DeleteAccount(q)
      PROVE  AccountsInv'
  <2>1. /\ UserUnlocked /\ Live \cap RowsOfOthers(q) = {} /\ account' = "deleted" /\ named' = FALSE
        /\ addresses' = [a \in AddressRows |-> IF a \in Live THEN "deleted" ELSE addresses[a]]
        /\ asking' = [asking EXCEPT ![q] = Idle] /\ UNCHANGED balance
    BY <1>4 DEF DeleteAccount, Ends
  <2>2. /\ asking' \in [AccountRequests -> AskRecord]
        /\ asking'[q] = Idle /\ \A p \in AccountRequests : p # q => asking'[p] = asking[p]
    BY <2>1, IdleIsARequest, RequestMoves DEF AccountsInv
  <2>3. \A p \in AccountRequests : asking'[p] = Idle
            \/ (asking'[p] = asking[p] /\ RowsHeldBy(asking[p]) \cap Live = {})
    BY <2>1, <2>2, LocksAsMeant
  <2>4. Live \in SUBSET Live /\ named' \in BOOLEAN /\ (account' = "deleted" => ~named')
    BY <2>1
  <2> QED
    BY <2>1, <2>2, <2>3, <2>4, AddressesGo
<1>5. ASSUME UNCHANGED <<addresses, asking, named>>, account' \in {"active", "blocked", "deleted"},
             balance' \in {0, 1}, account' = account \/ (UserUnlocked /\ account' # "deleted")
      PROVE  AccountsInv'
  <2>1. Live' = Live /\ Defaults' = Defaults
    BY <1>5 DEF Live, Defaults
  <2>2. AccountTyped' /\ OneHolder'
    BY <1>5 DEF AccountsInv, AccountTyped, OneHolder, Holding, Creating
  <2>3. HeldApart' /\ OneDefault'
    BY <1>5, <2>1 DEF AccountsInv, HeldApart, OneDefault, RowsHeldBy
  <2>4. RoomLeft'
    BY <1>5, <2>1 DEF AccountsInv, RoomLeft, Creating
  <2>5. NameKept'
    <3>1. UserUnlocked => \A p \in AccountRequests : asking[p].step # "profile"
      BY DEF UserUnlocked, HoldsUser
    <3> QED
      BY <1>5, <3>1 DEF AccountsInv, NameKept
  <2> QED
    BY <2>2, <2>3, <2>4, <2>5 DEF AccountsInv
<1>6. account \in {"active", "blocked", "deleted"} /\ balance \in {0, 1}
  BY DEF AccountsInv, AccountTyped
<1>7. CASE Block \/ Unblock \/ WalletMoves \/ UNCHANGED accountVars
  BY <1>5, <1>6, <1>7 DEF Block, Unblock, WalletMoves, accountVars
<1> QED
  BY <1>1, <1>2, <1>3, <1>4, <1>7, AsksStep DEF AccountsNext

LEMMA AccountsInitial ==
    AccountsInit => AccountsInv
<1> SUFFICES ASSUME AccountsInit PROVE AccountsInv
  OBVIOUS
<1>1. Live = {} /\ Defaults = {}
  BY DEF AccountsInit, Live, Defaults
<1>2. AccountTyped
  BY IdleIsARequest DEF AccountsInit, AccountTyped
<1>3. OneHolder /\ HeldApart
  BY IdleIsARequest DEF AccountsInit, OneHolder, HeldApart
<1>4. RoomLeft
  BY <1>1, IdleIsARequest, FS_EmptySet, AccountsAssumption DEF AccountsInit, RoomLeft
<1>5. OneDefault /\ NameKept
  BY <1>1, IdleIsARequest DEF AccountsInit, OneDefault, NameKept
<1> QED
  BY <1>2, <1>3, <1>4, <1>5 DEF AccountsInv

LEMMA AccountsInductive ==
    AccountsSpec => []AccountsInv
  BY AccountsInitial, AccountsStep, PTL DEF AccountsSpec

\* The account and its requests are well typed, for any number of requests.
THEOREM AccountsTypeCorrect ==
    AccountsSpec => []AccountsTypeOK
<1>1. AccountsInv => AccountsTypeOK
  BY DEF AccountsInv, AccountTyped, AskRecord, AccountsTypeOK
<1> QED
  BY <1>1, AccountsInductive, PTL

\* Whatever requests run side by side, a user keeps to the limit of addresses
\* and to one default address, and a deleted account has no name again.
THEOREM AccountStaysInOrder ==
    AccountsSpec => []AccountInOrder
<1>1. AccountsInv => AccountInOrder
  <2> SUFFICES ASSUME AccountsInv PROVE AccountInOrder
    OBVIOUS
  <2>1. Cardinality(Defaults) <= 1
    <3>1. CASE Defaults = {}
      BY <3>1, FS_EmptySet
    <3>2. ASSUME NEW a \in Defaults
          PROVE  Cardinality(Defaults) <= 1
      <4>1. Defaults = {a}
        BY DEF AccountsInv, OneDefault
      <4>2. Cardinality({a}) = 1
        BY FS_Singleton, Zenon
      <4> QED
        BY <4>1, <4>2
    <3> QED
      BY <3>1, <3>2
  <2> QED
    BY <2>1 DEF AccountsInv, RoomLeft, NameKept, AccountInOrder
<1> QED
  BY <1>1, AccountsInductive, PTL

-----------------------------------------------------------------------------
(***************************************************************************)
(* The risk rules.  A rule that was evaluated and raised no flag saw no    *)
(* burst, and what it saw had in its window every fact that was in the     *)
(* window and evaluated, or counted, before.  So while no flag of a kind   *)
(* is raised, the facts that somebody has taken up and that are still      *)
(* young are no burst; a burst of fewer facts is one of more.              *)
(***************************************************************************)
\* A delivery has counted f and has not found too much, or its rule is done.
TakenUp(f) == f \in told \/ \E x \in counting : x.fact = f /\ ~x.over

Considered(kind) == {f \in YoungOf(kind) : TakenUp(f)}

BurstOf(Z, kind) == Cardinality(Z) >= BurstSize[kind] \/ SumOf(AmountOf, Z) >= BurstSum[kind]

Unflagged(kind) == \A f \in Facts : KindOf[f] = kind => flags[f] = "none"

Happened == \A f \in due \cup told \cup {x.fact : x \in counting} : ages[f] # "none"

Missed == \A kind \in BurstKinds : Unflagged(kind) => ~BurstOf(Considered(kind), kind)

RiskInv == RiskTypeOK /\ Happened /\ Missed

LEMMA AmountIsSum ==
    ASSUME NEW kind
    PROVE  AmountYoung(kind) = SumOf(AmountOf, YoungOf(kind))
BY Zenon DEF AmountYoung, MapThenSumSet, MapThenFoldSet, SumOf, IsSum, First

LEMMA BurstAsMeant ==
    ASSUME NEW kind
    PROVE  Burst(kind) <=> BurstOf(YoungOf(kind), kind)
BY AmountIsSum DEF Burst, BurstOf

\* More facts are no less of a burst.
LEMMA BurstGrows ==
    ASSUME NEW kind \in BurstKinds, NEW Y \in SUBSET Facts, NEW Z \in SUBSET Y, BurstOf(Z, kind)
    PROVE  BurstOf(Y, kind)
<1>1. IsFiniteSet(Facts) /\ IsFiniteSet(Y)
  BY RiskAssumption, FS_Subset
<1>2. IsFiniteSet(Z) /\ Cardinality(Z) <= Cardinality(Y)
  BY <1>1, FS_Subset
<1>3. Cardinality(Z) \in Nat /\ Cardinality(Y) \in Nat
  BY <1>1, <1>2, FS_CardinalityType
<1>4. \A f \in Facts : AmountOf[f] \in Nat
  BY RiskAssumption
<1>5. SumOf(AmountOf, Z) <= SumOf(AmountOf, Y)
  BY <1>1, <1>4, SumGrows
<1>6. SumOf(AmountOf, Z) \in Nat /\ SumOf(AmountOf, Y) \in Nat
  BY <1>1, <1>4, SumIsNat
<1>7. BurstSize[kind] \in Nat /\ BurstSum[kind] \in Nat
  BY RiskAssumption
<1> QED
  BY <1>2, <1>3, <1>5, <1>6, <1>7 DEF BurstOf

\* A step after which no kind without a flag has more facts to consider, or too
\* many of them, misses none.
LEMMA MissesNone ==
    ASSUME RiskInv, \A f \in Facts : flags'[f] = "none" => flags[f] = "none",
           \A kind \in BurstKinds : Unflagged(kind)' =>
               \/ Considered(kind)' \subseteq Considered(kind)
               \/ Considered(kind)' \subseteq YoungOf(kind) /\ ~Burst(kind)
    PROVE  Missed'
<1> SUFFICES ASSUME NEW kind \in BurstKinds, Unflagged(kind)', BurstOf(Considered(kind)', kind)
             PROVE  FALSE
  BY DEF Missed, BurstOf
<1>1. Unflagged(kind)
  BY DEF Unflagged
<1>2. ~BurstOf(Considered(kind), kind)
  BY <1>1 DEF RiskInv, Missed
<1>3. Considered(kind) \in SUBSET Facts /\ YoungOf(kind) \in SUBSET Facts
  BY DEF Considered, YoungOf
<1>4. CASE Considered(kind)' \subseteq Considered(kind)
  BY <1>2, <1>3, <1>4, BurstGrows
<1>5. CASE Considered(kind)' \subseteq YoungOf(kind) /\ ~Burst(kind)
  BY <1>3, <1>5, BurstGrows, BurstAsMeant
<1> QED
  BY <1>4, <1>5

LEMMA RiskStep ==
    RiskInv /\ [RiskNext]_riskVars => RiskInv'
<1> SUFFICES ASSUME RiskInv, [RiskNext]_riskVars PROVE RiskInv'
  OBVIOUS
<1>t. RiskTypeOK
  BY DEF RiskInv
<1>h. Happened
  BY DEF RiskInv
<1>1. ASSUME NEW f \in Facts, Happens(f)
      PROVE  RiskInv'
  <2>1. RiskTypeOK' /\ Happened'
    BY <1>1, <1>t, <1>h DEF Happens, RiskTypeOK, Happened
  <2>2. \A g \in Facts : TakenUp(g)' <=> TakenUp(g)
    BY <1>1 DEF Happens, TakenUp
  <2>3. ~TakenUp(f)
    BY <1>1, <1>h DEF Happens, Happened, TakenUp
  <2>4. \A kind : YoungOf(kind)' \subseteq YoungOf(kind) \cup {f}
    BY <1>1, <1>t DEF Happens, RiskTypeOK, YoungOf
  <2>5. \A kind : Considered(kind)' \subseteq Considered(kind)
    <3> SUFFICES ASSUME NEW kind, NEW g \in Considered(kind)' PROVE g \in Considered(kind)
      OBVIOUS
    <3>1. g \in YoungOf(kind)' /\ TakenUp(g)'
      BY DEF Considered
    <3>2. g \in Facts
      BY <3>1 DEF YoungOf
    <3> QED
      BY <3>1, <3>2, <2>2, <2>3, <2>4 DEF Considered
  <2>6. flags' = flags
    BY <1>1 DEF Happens
  <2> QED
    BY <2>1, <2>5, <2>6, MissesNone DEF RiskInv
<1>2. ASSUME NEW f \in Facts, Ages(f)
      PROVE  RiskInv'
  <2>1. RiskTypeOK' /\ Happened'
    BY <1>2, <1>t, <1>h DEF Ages, RiskTypeOK, Happened
  <2>2. \A kind : Considered(kind)' \subseteq Considered(kind)
    BY <1>2, <1>t DEF Ages, RiskTypeOK, Considered, YoungOf, TakenUp
  <2>3. flags' = flags
    BY <1>2 DEF Ages
  <2> QED
    BY <2>1, <2>2, <2>3, MissesNone DEF RiskInv
<1>3. ASSUME NEW n \in 0 .. MaxAssigned, AssignmentsChange(n)
      PROVE  RiskInv'
  <2>1. RiskTypeOK' /\ Happened'
    BY <1>3, <1>t, <1>h DEF AssignmentsChange, RiskTypeOK, Happened
  <2>2. \A kind : Considered(kind)' \subseteq Considered(kind)
    BY <1>3 DEF AssignmentsChange, Considered, YoungOf, TakenUp
  <2>3. flags' = flags
    BY <1>3 DEF AssignmentsChange
  <2> QED
    BY <2>1, <2>2, <2>3, MissesNone DEF RiskInv
<1>4. ASSUME NEW f \in Facts, Count(f)
      PROVE  RiskInv'
  <2> DEFINE o == Over(KindOf[f])
  <2>1. /\ f \in due /\ counting' = counting \cup {[fact |-> f, over |-> o]}
        /\ due' \subseteq due /\ UNCHANGED <<ages, told, assigned, flags>>
    BY <1>4 DEF Count
  <2>2. o \in BOOLEAN
    BY DEF Over, ShareTooHigh, Burst
  <2>3. [fact |-> f, over |-> o] \in [fact : Facts, over : BOOLEAN]
    BY <2>2
  <2>4. RiskTypeOK'
    BY <2>1, <2>3, <1>t DEF RiskTypeOK
  <2>5. Happened'
    <3> SUFFICES ASSUME NEW g \in (due \cup told \cup {x.fact : x \in counting})'
                 PROVE  ages[g] # "none"
      BY <2>1 DEF Happened
    <3>1. CASE g = f
      BY <3>1, <2>1, <1>h DEF Happened
    <3>2. CASE g # f
      <4> DEFINE z == [fact |-> f, over |-> o]
      <4>1. z.fact = f
        OBVIOUS
      <4>2. \A x \in counting' : x \in counting \/ x = z
        BY <2>1
      <4> HIDE DEF z
      <4>3. g \in due \cup told \cup {x.fact : x \in counting}
        BY <2>1, <3>2, <4>1, <4>2
      <4> QED
        BY <4>3, <1>h DEF Happened
    <3> QED
      BY <3>1, <3>2
  <2>6. \A g \in Facts : TakenUp(g)' => TakenUp(g) \/ (g = f /\ ~o)
    <3> SUFFICES ASSUME NEW g \in Facts, TakenUp(g)', ~TakenUp(g) PROVE g = f /\ ~o
      OBVIOUS
    <3> DEFINE z == [fact |-> f, over |-> o]
    <3>1. z.fact = f /\ z.over = o
      OBVIOUS
    <3>2. counting' = counting \cup {z}
      BY <2>1
    <3> HIDE DEF z, o
    <3>3. PICK x \in counting' : x.fact = g /\ ~x.over
      BY <2>1 DEF TakenUp
    <3>4. x = z
      BY <3>2, <3>3 DEF TakenUp
    <3> QED
      BY <3>1, <3>3, <3>4
  <2>7. \A kind : YoungOf(kind)' = YoungOf(kind)
    BY <2>1 DEF YoungOf
  <2>8. ASSUME NEW kind \in BurstKinds
        PROVE  \/ Considered(kind)' \subseteq Considered(kind)
               \/ Considered(kind)' \subseteq YoungOf(kind) /\ ~Burst(kind)
    <3>1. Considered(kind)' \subseteq YoungOf(kind)
      BY <2>7 DEF Considered
    <3>2. CASE KindOf[f] = kind /\ ~o
      <4>1. ~Burst(kind)
        BY <3>2 DEF Over, BurstKinds
      <4> QED
        BY <3>1, <4>1
    <3>3. CASE ~(KindOf[f] = kind /\ ~o)
      <4> SUFFICES ASSUME NEW g \in Considered(kind)' PROVE g \in Considered(kind)
        OBVIOUS
      <4>1. g \in YoungOf(kind) /\ TakenUp(g)'
        BY <2>7 DEF Considered
      <4>2. g \in Facts /\ KindOf[g] = kind
        BY <4>1 DEF YoungOf
      <4> HIDE DEF o
      <4>3. TakenUp(g)
        BY <2>6, <3>3, <4>1, <4>2
      <4> QED
        BY <4>1, <4>3 DEF Considered
    <3> QED
      BY <3>2, <3>3
  <2>9. Missed'
    BY <2>1, <2>8, MissesNone
  <2> QED
    BY <2>4, <2>5, <2>9 DEF RiskInv
<1>5. ASSUME NEW f \in Facts, Resolve(f)
      PROVE  RiskInv'
  <2>1. RiskTypeOK' /\ Happened'
    BY <1>5, <1>t, <1>h DEF Resolve, RiskTypeOK, Happened
  <2>2. \A kind : Considered(kind)' \subseteq Considered(kind)
    BY <1>5 DEF Resolve, Considered, YoungOf, TakenUp
  <2>3. \A g \in Facts : flags'[g] = "none" => flags[g] = "none"
    BY <1>5, <1>t DEF Resolve, RiskTypeOK
  <2> QED
    BY <2>1, <2>2, <2>3, MissesNone DEF RiskInv
<1>6. ASSUME NEW x \in counting, DeliveryFails(x)
      PROVE  RiskInv'
  <2>1. RiskTypeOK' /\ Happened'
    BY <1>6, <1>t, <1>h DEF DeliveryFails, RiskTypeOK, Happened
  <2>2. \A kind : Considered(kind)' \subseteq Considered(kind)
    BY <1>6 DEF DeliveryFails, Considered, YoungOf, TakenUp
  <2>3. flags' = flags
    BY <1>6 DEF DeliveryFails
  <2> QED
    BY <2>1, <2>2, <2>3, MissesNone DEF RiskInv
<1>7. ASSUME NEW x \in counting, Raise(x)
      PROVE  RiskInv'
  <2>0. x.fact \in Facts /\ x.over \in BOOLEAN /\ flags \in [Facts -> {"none", "open", "resolved"}]
    BY <1>t DEF RiskTypeOK
  <2>1. /\ told' = told \cup {x.fact} /\ counting' = counting \ {x} /\ UNCHANGED <<ages, due, assigned>>
        /\ flags' = IF x.over /\ flags[x.fact] = "none" THEN [flags EXCEPT ![x.fact] = "open"] ELSE flags
    BY <1>7 DEF Raise
  <2>2. /\ flags' \in [Facts -> {"none", "open", "resolved"}]
        /\ x.over => flags'[x.fact] # "none"
        /\ \A g \in Facts : flags'[g] = "none" => flags[g] = "none"
    BY <2>0, <2>1
  <2>3. RiskTypeOK'
    BY <2>0, <2>1, <2>2, <1>t DEF RiskTypeOK
  <2>4. Happened'
    BY <2>1, <1>h DEF Happened
  <2>5. \A g \in Facts : TakenUp(g)' => TakenUp(g) \/ (g = x.fact /\ x.over)
    BY <2>0, <2>1 DEF TakenUp
  <2>6. ASSUME NEW kind \in BurstKinds, Unflagged(kind)'
        PROVE  Considered(kind)' \subseteq Considered(kind)
    <3> SUFFICES ASSUME NEW g \in Considered(kind)' PROVE g \in Considered(kind)
      OBVIOUS
    <3>1. g \in YoungOf(kind) /\ TakenUp(g)' /\ g \in Facts /\ KindOf[g] = kind
      BY <2>1 DEF Considered, YoungOf
    <3>2. ~(g = x.fact /\ x.over)
      BY <2>2, <2>6, <3>1 DEF Unflagged
    <3> QED
      BY <2>5, <3>1, <3>2 DEF Considered
  <2>7. Missed'
    BY <2>2, <2>6, MissesNone
  <2> QED
    BY <2>3, <2>4, <2>7 DEF RiskInv
<1>8. CASE UNCHANGED riskVars
  <2>1. RiskTypeOK' /\ Happened'
    BY <1>8, <1>t, <1>h DEF riskVars, RiskTypeOK, Happened
  <2>2. \A kind : Considered(kind)' \subseteq Considered(kind)
    BY <1>8 DEF riskVars, Considered, YoungOf, TakenUp
  <2>3. flags' = flags
    BY <1>8 DEF riskVars
  <2> QED
    BY <2>1, <2>2, <2>3, MissesNone DEF RiskInv
<1> QED
  BY <1>1, <1>2, <1>3, <1>4, <1>5, <1>6, <1>7, <1>8 DEF RiskNext

LEMMA RiskInitial ==
    RiskInit => RiskInv
<1> SUFFICES ASSUME RiskInit PROVE RiskInv
  OBVIOUS
<1>1. RiskTypeOK /\ Happened
  BY DEF RiskInit, RiskTypeOK, Happened
<1>2. ASSUME NEW kind \in BurstKinds, BurstOf(Considered(kind), kind) PROVE FALSE
  <2>1. Considered(kind) = {}
    BY DEF RiskInit, Considered, TakenUp
  <2>2. Cardinality({}) = 0 /\ SumOf(AmountOf, {}) = 0
    BY FS_EmptySet, SumFirst
  <2> QED
    BY <1>2, <2>1, <2>2, RiskAssumption DEF BurstOf
<1> QED
  BY <1>1, <1>2 DEF RiskInv, Missed

LEMMA RiskInductive ==
    RiskSpec => []RiskInv
  BY RiskInitial, RiskStep, PTL DEF RiskSpec

\* The facts, deliveries and flags are well typed.
THEOREM RiskTypeCorrect ==
    RiskSpec => []RiskTypeOK
<1>1. RiskInv => RiskTypeOK
  BY DEF RiskInv
<1> QED
  BY <1>1, RiskInductive, PTL

\* A burst is seen: when the rule was evaluated for each fact in its window, in
\* whatever order, twice or side by side, and they are too many, a flag is there.
THEOREM NoBurstIsMissed ==
    RiskSpec => []BurstsAreFlagged
<1>1. RiskInv => BurstsAreFlagged
  <2> SUFFICES ASSUME RiskInv, NEW kind \in BurstKinds, YoungOf(kind) \subseteq told, Burst(kind), Unflagged(kind)
               PROVE  FALSE
    BY DEF BurstsAreFlagged, Unflagged
  <2>1. Considered(kind) = YoungOf(kind)
    BY DEF Considered, TakenUp
  <2> QED
    BY <2>1, BurstAsMeant DEF RiskInv, Missed
<1> QED
  BY <1>1, RiskInductive, PTL

-----------------------------------------------------------------------------
(***************************************************************************)
(* Reviews.  A transaction has its trip to itself from the lock to its     *)
(* end, and the aggregate from the UPDATE to its end: the total it has     *)
(* written is still the committed one and its rating when it commits, and  *)
(* the review that it inserted is still the only one of its reviewer.      *)
(***************************************************************************)
Totals == [sum : Nat, count : Nat]

PostRecord == [
    phase : {"none", "locked", "inserted", "counted"}, trip : Trips \cup {NoTrip},
    by : People \cup {NoPerson}, of : People \cup {NoPerson}, rating : Nat, total : Totals]

ReviewRows == [trip : Trips, by : People, of : People, rating : Ratings, status : {"visible", "flagged"}]

Active(r) == r.phase # "none"

\* What a transaction knows.
PostOK(r) ==
    /\ ~Active(r) => r = NoPost
    /\ Active(r) => /\ r.trip \in Trips /\ r.by \in People /\ r.of \in People /\ r.rating \in Ratings
    /\ r.phase \in {"inserted", "counted"} => \A row \in reviewed : row.trip = r.trip => row.by # r.by
    /\ r.phase = "counted" => r.total = [sum |-> aggregates[r.of].sum + r.rating,
                                         count |-> aggregates[r.of].count + 1]

\* What two may not do at once.
PostsApart(r, s) ==
    /\ Active(r) /\ Active(s) => r.trip # s.trip
    /\ r.phase = "counted" /\ s.phase = "counted" => r.of # s.of

ReviewsTyped ==
    /\ window \in [Trips -> {"running", "reviewable", "over"}]
    /\ reviewed \subseteq ReviewRows /\ IsFiniteSet(reviewed)
    /\ aggregates \in [People -> Totals]
    /\ posts \in [Posters -> PostRecord]

\* UNIQUE (trip, reviewer).
OneEach == \A row, other \in reviewed : row.trip = other.trip /\ row.by = other.by => row = other

ReviewsOf(u) == {row \in reviewed : row.of = u}

RatingOf == [row \in ReviewRows |-> row.rating]

AddedUp ==
    \A u \in People : /\ aggregates[u].count = Cardinality(ReviewsOf(u))
                      /\ aggregates[u].sum = SumOf(RatingOf, ReviewsOf(u))

PostsInv ==
    /\ \A q \in Posters : PostOK(posts[q])
    /\ \A p, q \in Posters : p # q => PostsApart(posts[p], posts[q])

ReviewsInv == ReviewsTyped /\ OneEach /\ PostsInv /\ AddedUp

LEMMA PostMoves ==
    ASSUME ReviewsTyped, NEW q \in Posters, NEW r \in PostRecord, posts' = [posts EXCEPT ![q] = r]
    PROVE  /\ posts' \in [Posters -> PostRecord]
           /\ posts'[q] = r /\ \A p \in Posters : p # q => posts'[p] = posts[p]
BY DEF ReviewsTyped

LEMMA NoPostIsOne ==
    /\ NoPost \in PostRecord /\ ~Active(NoPost) /\ NoPost.phase = "none"
    /\ NoPost.trip = NoTrip
BY DEF NoPost, PostRecord, Totals, Active

\* A transaction goes on, or ends without a trace.
LEMMA PostStep ==
    ASSUME ReviewsInv, NEW q \in Posters, NEW r \in PostRecord, posts' = [posts EXCEPT ![q] = r],
           PostOK(r), UNCHANGED <<window, reviewed, aggregates>>,
           \A p \in Posters : p # q => PostsApart(posts[p], r)
    PROVE  ReviewsInv'
<1>1. /\ posts' \in [Posters -> PostRecord]
      /\ posts'[q] = r /\ \A p \in Posters : p # q => posts'[p] = posts[p]
  BY PostMoves DEF ReviewsInv
<1>2. ReviewsTyped'
  BY <1>1 DEF ReviewsInv, ReviewsTyped
<1>3. OneEach'
  BY DEF ReviewsInv, OneEach
<1>4. AddedUp'
  BY DEF ReviewsInv, AddedUp, ReviewsOf
<1>5. \A p \in Posters : PostOK(posts[p])'
  <2>1. \A p \in Posters : PostOK(posts'[p])
    BY <1>1 DEF ReviewsInv, PostsInv
  <2> QED
    BY <2>1 DEF PostOK
<1>6. \A p, s \in Posters : p # s => PostsApart(posts'[p], posts'[s])
  <2> SUFFICES ASSUME NEW p \in Posters, NEW s \in Posters, p # s PROVE PostsApart(posts'[p], posts'[s])
    OBVIOUS
  <2>1. \A a, b \in Posters : a # b => PostsApart(posts[a], posts[b])
    BY DEF ReviewsInv, PostsInv
  <2>2. CASE p = q
    <3>1. PostsApart(posts[s], r)
      BY <2>2
    <3>2. PostsApart(r, posts[s])
      BY <3>1 DEF PostsApart
    <3> QED
      BY <1>1, <2>2, <3>2
  <2>3. CASE s = q
    BY <1>1, <2>3
  <2>4. CASE p # q /\ s # q
    BY <1>1, <2>1, <2>4
  <2> QED
    BY <2>2, <2>3, <2>4
<1>7. PostsInv'
  BY <1>5, <1>6 DEF PostsInv, PostsApart, Active
<1> QED
  BY <1>2, <1>3, <1>4, <1>7 DEF ReviewsInv

LEMMA PostsGoOn ==
    ASSUME ReviewsInv, NEW q \in Posters,
           \/ \E t \in Trips, n \in Ratings : \E u \in DOMAIN Reviewing[t] : LockTrip(q, t, u, n)
           \/ Insert(q) \/ Aggregate(q) \/ RollBackReview(q)
    PROVE  ReviewsInv'
<1> DEFINE k == posts[q]
<1>t. ReviewsTyped /\ posts \in [Posters -> PostRecord] /\ k \in PostRecord
  BY DEF ReviewsInv, ReviewsTyped
<1>k. PostOK(k) /\ \A p \in Posters : p # q => PostsApart(posts[p], k)
  BY DEF ReviewsInv, PostsInv
<1>1. ASSUME NEW t \in Trips, NEW n \in Ratings, NEW u \in DOMAIN Reviewing[t], LockTrip(q, t, u, n)
      PROVE  ReviewsInv'
  <2> DEFINE zero == [sum |-> 0, count |-> 0]
             v == Reviewing[t][u]
             s0 == "none"
             s1 == "locked"
             i == 0
             r == [phase |-> s1, trip |-> t, by |-> u, of |-> v, rating |-> n, total |-> zero]
  <2>1. posts' = [posts EXCEPT ![q] =
          [NoPost EXCEPT !.phase = s1, !.trip = t, !.by = u, !.of = v, !.rating = n]]
    BY <1>1 DEF LockTrip
  <2>2. NoPost = [phase |-> s0, trip |-> NoTrip, by |-> NoPerson, of |-> NoPerson, rating |-> i, total |-> zero]
    BY DEF NoPost
  <2>3. r \in PostRecord /\ Active(r) /\ r.trip = t /\ r.phase = "locked"
        /\ r.by = u /\ r.of = v /\ r.rating = n
    BY ReviewsAssumption DEF PostRecord, Totals, Active
  <2>4. [NoPost EXCEPT !.phase = s1, !.trip = t, !.by = u, !.of = v, !.rating = n] =
          [[[[[NoPost EXCEPT !.phase = s1] EXCEPT !.trip = t] EXCEPT !.by = u] EXCEPT !.of = v] EXCEPT !.rating = n]
    BY Zenon
  <2> HIDE DEF zero, v, s0, s1, i
  <2>5. [[phase |-> s0, trip |-> NoTrip, by |-> NoPerson, of |-> NoPerson, rating |-> i, total |-> zero]
            EXCEPT !.phase = s1] =
          [phase |-> s1, trip |-> NoTrip, by |-> NoPerson, of |-> NoPerson, rating |-> i, total |-> zero]
    OBVIOUS
  <2>6. [[phase |-> s1, trip |-> NoTrip, by |-> NoPerson, of |-> NoPerson, rating |-> i, total |-> zero]
            EXCEPT !.trip = t] =
          [phase |-> s1, trip |-> t, by |-> NoPerson, of |-> NoPerson, rating |-> i, total |-> zero]
    OBVIOUS
  <2>7. [[phase |-> s1, trip |-> t, by |-> NoPerson, of |-> NoPerson, rating |-> i, total |-> zero]
            EXCEPT !.by = u] =
          [phase |-> s1, trip |-> t, by |-> u, of |-> NoPerson, rating |-> i, total |-> zero]
    OBVIOUS
  <2>8. [[phase |-> s1, trip |-> t, by |-> u, of |-> NoPerson, rating |-> i, total |-> zero] EXCEPT !.of = v] =
          [phase |-> s1, trip |-> t, by |-> u, of |-> v, rating |-> i, total |-> zero]
    OBVIOUS
  <2>9. [[phase |-> s1, trip |-> t, by |-> u, of |-> v, rating |-> i, total |-> zero] EXCEPT !.rating = n] =
          [phase |-> s1, trip |-> t, by |-> u, of |-> v, rating |-> n, total |-> zero]
    OBVIOUS
  <2>s. [NoPost EXCEPT !.phase = s1] =
          [phase |-> s1, trip |-> NoTrip, by |-> NoPerson, of |-> NoPerson, rating |-> i, total |-> zero]
    BY <2>2, <2>5
  <2>t. [[NoPost EXCEPT !.phase = s1] EXCEPT !.trip = t] =
          [phase |-> s1, trip |-> t, by |-> NoPerson, of |-> NoPerson, rating |-> i, total |-> zero]
    BY ONLY <2>s, <2>6, Zenon
  <2>b. [[[NoPost EXCEPT !.phase = s1] EXCEPT !.trip = t] EXCEPT !.by = u] =
          [phase |-> s1, trip |-> t, by |-> u, of |-> NoPerson, rating |-> i, total |-> zero]
    BY ONLY <2>t, <2>7, Zenon
  <2>o. [[[[NoPost EXCEPT !.phase = s1] EXCEPT !.trip = t] EXCEPT !.by = u] EXCEPT !.of = v] =
          [phase |-> s1, trip |-> t, by |-> u, of |-> v, rating |-> i, total |-> zero]
    BY ONLY <2>b, <2>8, Zenon
  <2>r. [NoPost EXCEPT !.phase = s1, !.trip = t, !.by = u, !.of = v, !.rating = n] = r
    BY ONLY <2>o, <2>9, <2>4, Zenon
  <2>10. posts' = [posts EXCEPT ![q] = r]
    BY <2>1, <2>r
  <2>11. u \in People /\ v \in People
    BY ReviewsAssumption DEF v
  <2> HIDE DEF r
  <2>12. PostOK(r)
    BY <2>3, <2>11 DEF PostOK
  <2>13. \A p \in Posters : p # q => PostsApart(posts[p], r)
    BY <1>1, <2>3 DEF LockTrip, PostsApart
  <2>14. UNCHANGED <<window, reviewed, aggregates>>
    BY <1>1 DEF LockTrip
  <2> QED
    BY <2>3, <2>10, <2>12, <2>13, <2>14, PostStep
<1>2. CASE Insert(q)
  <2> DEFINE r == [phase |-> "inserted", trip |-> k.trip, by |-> k.by, of |-> k.of,
                   rating |-> k.rating, total |-> k.total]
  <2>1. /\ k.phase = "locked" /\ UNCHANGED <<window, reviewed, aggregates>>
        /\ \A row \in reviewed : row.trip = k.trip => row.by # k.by
        /\ posts' = [posts EXCEPT ![q] = [k EXCEPT !.phase = "inserted"]]
    BY <1>2, <1>t DEF Insert
  <2>2. [k EXCEPT !.phase = "inserted"] = r /\ r \in PostRecord
    BY <1>t DEF PostRecord
  <2>3. PostOK(r)
    BY <2>1, <1>k DEF PostOK, Active
  <2>4. \A p \in Posters : p # q => PostsApart(posts[p], r)
    BY <2>1, <1>k DEF PostsApart, Active
  <2>5. posts' = [posts EXCEPT ![q] = r]
    BY <2>1, <2>2
  <2> HIDE DEF r
  <2> QED
    BY <2>1, <2>2, <2>3, <2>4, <2>5, PostStep
<1>3. CASE Aggregate(q)
  <2> DEFINE z == Added(q)
             r == [phase |-> "counted", trip |-> k.trip, by |-> k.by, of |-> k.of,
                   rating |-> k.rating, total |-> z]
             m == [phase |-> "counted", trip |-> k.trip, by |-> k.by, of |-> k.of,
                   rating |-> k.rating, total |-> k.total]
  <2>1. /\ k.phase = "inserted" /\ UNCHANGED <<window, reviewed, aggregates>>
        /\ \A p \in Posters : posts[p].phase = "counted" => posts[p].of # k.of
        /\ posts' = [posts EXCEPT ![q].phase = "counted", ![q].total = z]
    BY <1>3, <1>t DEF Aggregate
  <2>2. posts' = [[posts EXCEPT ![q].phase = "counted"] EXCEPT ![q].total = z]
    BY <2>1, Zenon
  <2>3. z \in Totals /\ z = [sum |-> aggregates[k.of].sum + k.rating, count |-> aggregates[k.of].count + 1]
    <3>1. k.of \in People /\ k.rating \in Nat
      BY <1>t, <1>k, <2>1 DEF PostOK, Active, PostRecord
    <3>2. aggregates[k.of] \in Totals
      BY <3>1, <1>t DEF ReviewsTyped
    <3>3. aggregates[k.of].sum \in Nat /\ aggregates[k.of].count \in Nat
      BY <3>2 DEF Totals
    <3> QED
      BY <3>1, <3>3 DEF Added, Totals
  <2> HIDE DEF z
  <2>4. [k EXCEPT !.phase = "counted"] = m
    BY <1>t DEF PostRecord
  <2>5. [m EXCEPT !.total = z] = r
    OBVIOUS
  <2>6. r \in PostRecord
    BY <1>t, <2>3 DEF PostRecord
  <2>7. PostOK(r)
    BY <2>1, <2>3, <1>k DEF PostOK, Active
  <2>8. \A p \in Posters : p # q => PostsApart(posts[p], r)
    BY <2>1, <1>k DEF PostsApart, Active
  <2> HIDE DEF m, r
  <2>9. [posts EXCEPT ![q].phase = "counted"] = [posts EXCEPT ![q] = m]
    BY <2>4
  <2>10. [[posts EXCEPT ![q] = m] EXCEPT ![q].total = z] = [posts EXCEPT ![q] = [m EXCEPT !.total = z]]
    BY <1>t
  <2>11. posts' = [posts EXCEPT ![q] = r]
    BY <2>2, <2>5, <2>9, <2>10
  <2> QED
    BY <2>1, <2>6, <2>7, <2>8, <2>11, PostStep
<1>4. CASE RollBackReview(q)
  <2>1. posts' = [posts EXCEPT ![q] = NoPost] /\ UNCHANGED <<window, reviewed, aggregates>>
    BY <1>4 DEF RollBackReview
  <2>2. PostOK(NoPost) /\ \A p \in Posters : PostsApart(posts[p], NoPost)
    BY NoPostIsOne DEF PostOK, PostsApart
  <2> QED
    BY <2>1, <2>2, NoPostIsOne, PostStep
<1> QED
  BY <1>1, <1>2, <1>3, <1>4

\* The commit: the review and the total show together.
LEMMA CommitReviewStep ==
    ASSUME ReviewsInv, NEW q \in Posters, CommitReview(q)
    PROVE  ReviewsInv'
<1>0. PICK k : k = posts[q]
  OBVIOUS
<1>n. PICK new : new = [trip |-> k.trip, by |-> k.by, of |-> k.of, rating |-> k.rating, status |-> "visible"]
  OBVIOUS
<1>t. ReviewsTyped /\ posts \in [Posters -> PostRecord] /\ k \in PostRecord
  BY <1>0 DEF ReviewsInv, ReviewsTyped
<1>k. PostOK(k) /\ \A p \in Posters : p # q => PostsApart(posts[p], k)
  BY <1>0 DEF ReviewsInv, PostsInv
<1>c. /\ k.phase = "counted" /\ window' = window /\ reviewed' = reviewed \cup {new}
      /\ aggregates' = [aggregates EXCEPT ![k.of] = k.total] /\ posts' = [posts EXCEPT ![q] = NoPost]
  BY <1>0, <1>n DEF CommitReview
<1>a. /\ Active(k) /\ k.trip \in Trips /\ k.by \in People /\ k.of \in People /\ k.rating \in Ratings
      /\ k.total \in Totals
      /\ k.total.sum = aggregates[k.of].sum + k.rating /\ k.total.count = aggregates[k.of].count + 1
      /\ \A row \in reviewed : row.trip = k.trip => row.by # k.by
  BY <1>c, <1>k, <1>t DEF PostOK, Active, PostRecord
<1>m. /\ posts' \in [Posters -> PostRecord]
      /\ posts'[q] = NoPost /\ \A p \in Posters : p # q => posts'[p] = posts[p]
  BY <1>c, <1>t, NoPostIsOne, PostMoves
<1>w. /\ new \in ReviewRows /\ new \notin reviewed
      /\ new.trip = k.trip /\ new.by = k.by /\ new.of = k.of /\ new.rating = k.rating
  BY <1>n, <1>a DEF ReviewRows
<1>g. /\ aggregates' \in [People -> Totals] /\ aggregates'[k.of] = k.total
      /\ \A u \in People : u # k.of => aggregates'[u] = aggregates[u]
  BY <1>c, <1>a, <1>t DEF ReviewsTyped
<1>f. IsFiniteSet(reviewed) /\ reviewed \subseteq ReviewRows
  BY <1>t DEF ReviewsTyped
<1>1. ReviewsTyped'
  <2>1. IsFiniteSet(reviewed')
    BY <1>c, <1>f, FS_AddElement
  <2> QED
    BY <2>1, <1>c, <1>f, <1>g, <1>m, <1>w, <1>t DEF ReviewsTyped
<1>2. OneEach'
  <2> SUFFICES ASSUME NEW row \in reviewed', NEW other \in reviewed',
                      row.trip = other.trip, row.by = other.by
               PROVE  row = other
    BY DEF OneEach
  <2>1. \A x, y \in reviewed : x.trip = y.trip /\ x.by = y.by => x = y
    BY DEF ReviewsInv, OneEach
  <2> QED
    BY <2>1, <1>a, <1>c, <1>w
<1>3. ASSUME NEW p \in Posters
      PROVE  PostOK(posts[p])'
  <2>1. CASE p = q
    BY <2>1, <1>m, NoPostIsOne DEF PostOK, Active
  <2>2. CASE p # q
    <3>0. PICK s : s = posts[p]
      OBVIOUS
    <3>1. PostOK(s) /\ PostsApart(s, k) /\ posts'[p] = s
      BY <2>2, <1>k, <1>m, <3>0 DEF ReviewsInv, PostsInv
    <3>2. s.phase \in {"inserted", "counted"} => \A row \in reviewed' : row.trip = s.trip => row.by # s.by
      BY <3>1, <1>a, <1>c, <1>w DEF PostOK, PostsApart, Active
    <3>3. s.phase = "counted" => s.of \in People /\ s.of # k.of
      BY <3>1, <1>c DEF PostOK, PostsApart, Active
    <3>4. PostOK(s)'
      BY <3>1, <3>2, <3>3, <1>g DEF PostOK, Active
    <3> QED
      BY <3>1, <3>4 DEF PostOK
  <2> QED
    BY <2>1, <2>2
<1>4. \A p, s \in Posters : p # s => PostsApart(posts'[p], posts'[s])
  <2> SUFFICES ASSUME NEW p \in Posters, NEW s \in Posters, p # s PROVE PostsApart(posts'[p], posts'[s])
    OBVIOUS
  <2>1. CASE p = q \/ s = q
    BY <2>1, <1>m, NoPostIsOne DEF PostsApart
  <2>2. CASE p # q /\ s # q
    BY <2>2, <1>m DEF ReviewsInv, PostsInv
  <2> QED
    BY <2>1, <2>2
<1>5. PostsInv'
  BY <1>3, <1>4 DEF PostsInv, PostsApart, Active
<1>6. AddedUp'
  <2> SUFFICES ASSUME NEW u \in People
               PROVE  /\ aggregates'[u].count = Cardinality(ReviewsOf(u)')
                      /\ aggregates'[u].sum = SumOf(RatingOf, ReviewsOf(u)')
    BY DEF AddedUp
  <2>1. /\ aggregates[u].count = Cardinality(ReviewsOf(u))
        /\ aggregates[u].sum = SumOf(RatingOf, ReviewsOf(u))
    BY DEF ReviewsInv, AddedUp
  <2>2. CASE u # k.of
    <3>1. ReviewsOf(u)' = ReviewsOf(u)
      BY <2>2, <1>c, <1>w DEF ReviewsOf
    <3> QED
      BY <2>1, <2>2, <3>1, <1>g
  <2>3. CASE u = k.of
    <3> DEFINE A == ReviewsOf(u)
               B == A \cup {new}
    <3>1. ReviewsOf(u)' = B
      BY <2>3, <1>c, <1>w DEF ReviewsOf
    <3>2. IsFiniteSet(A) /\ new \notin A /\ A \subseteq ReviewRows
      BY <1>f, <1>w, FS_Subset DEF ReviewsOf
    <3>3. Cardinality(B) = Cardinality(A) + 1 /\ IsFiniteSet(B)
      BY <3>2, FS_AddElement
    <3>4. \A row \in B : RatingOf[row] \in Int
      <4>1. \A row \in ReviewRows : row.rating \in Int /\ RatingOf[row] = row.rating
        <5>1. \A row \in ReviewRows : row.rating \in Ratings
          BY DEF ReviewRows
        <5>2. \A row \in ReviewRows : RatingOf[row] = row.rating
          BY DEF RatingOf
        <5>3. Ratings \subseteq Int
          BY ReviewsAssumption
        <5> QED
          BY ONLY <5>1, <5>2, <5>3
      <4>2. B \subseteq ReviewRows
        BY <3>2, <1>w
      <4> QED
        BY ONLY <4>1, <4>2
    <3>5. RatingOf[new] = k.rating
      BY <1>w DEF RatingOf
    <3>6. B \ {new} = A /\ new \in B /\ B \in SUBSET B
      BY <3>2
    <3> HIDE DEF A, B
    <3>7. SumOf(RatingOf, B) = RatingOf[new] + SumOf(RatingOf, B \ {new})
      BY <3>3, <3>4, <3>6, SumRemoves
    <3>8. SumOf(RatingOf, B) = k.rating + SumOf(RatingOf, A)
      BY <3>5, <3>6, <3>7
    <3>9. aggregates[u].sum = SumOf(RatingOf, A) /\ aggregates[u].count = Cardinality(A)
      BY <2>1 DEF A
    <3>10. aggregates[u].sum \in Nat /\ k.rating \in Nat
      BY <1>a, <1>t, ReviewsAssumption DEF ReviewsTyped, Totals
    <3>11. aggregates'[u].count = Cardinality(B) /\ aggregates'[u].sum = SumOf(RatingOf, B)
      BY <2>3, <3>3, <3>8, <3>9, <3>10, <1>a, <1>g
    <3> QED
      BY <3>1, <3>11
  <2> QED
    BY <2>2, <2>3
<1> QED
  BY <1>1, <1>2, <1>5, <1>6 DEF ReviewsInv

\* A report marks a review, and it is the same review.
LEMMA ReportStep ==
    ASSUME ReviewsInv, NEW old \in reviewed, ReportReview(old)
    PROVE  ReviewsInv'
<1>n. PICK new : new = [trip |-> old.trip, by |-> old.by, of |-> old.of, rating |-> old.rating, status |-> "flagged"]
  OBVIOUS
<1>t. ReviewsTyped /\ old \in ReviewRows /\ IsFiniteSet(reviewed) /\ reviewed \subseteq ReviewRows
  BY DEF ReviewsInv, ReviewsTyped
<1>0. [old EXCEPT !.status = "flagged"] = new
  BY <1>n, <1>t DEF ReviewRows
<1>c. /\ old.status = "visible" /\ reviewed' = (reviewed \ {old}) \cup {new}
      /\ UNCHANGED <<window, aggregates, posts>>
  BY <1>0 DEF ReportReview
<1>o. \A x, y \in reviewed : x.trip = y.trip /\ x.by = y.by => x = y
  BY DEF ReviewsInv, OneEach
<1>w. /\ new \in ReviewRows /\ new \notin reviewed
      /\ new.trip = old.trip /\ new.by = old.by /\ new.of = old.of /\ new.rating = old.rating
  <2>1. /\ new \in ReviewRows /\ new.status # old.status
        /\ new.trip = old.trip /\ new.by = old.by /\ new.of = old.of /\ new.rating = old.rating
    BY <1>n, <1>t, <1>c DEF ReviewRows
  <2> QED
    BY <2>1, <1>o
<1>1. ReviewsTyped'
  <2>1. IsFiniteSet(reviewed')
    BY <1>c, <1>t, FS_AddElement, FS_RemoveElement
  <2> QED
    BY <2>1, <1>c, <1>w, <1>t DEF ReviewsTyped
<1>2. OneEach'
  <2> SUFFICES ASSUME NEW row \in reviewed', NEW other \in reviewed',
                      row.trip = other.trip, row.by = other.by
               PROVE  row = other
    BY DEF OneEach
  <2> QED
    BY <1>o, <1>c, <1>w
<1>3. PostsInv'
  <2>1. ASSUME NEW p \in Posters
        PROVE  PostOK(posts[p])'
    <3>1. PostOK(posts[p])
      BY DEF ReviewsInv, PostsInv
    <3>2. posts[p].phase \in {"inserted", "counted"} =>
              \A row \in reviewed' : row.trip = posts[p].trip => row.by # posts[p].by
      BY <3>1, <1>c, <1>w DEF PostOK
    <3> QED
      BY <3>1, <3>2, <1>c DEF PostOK, Active
  <2>2. \A p, s \in Posters : p # s => PostsApart(posts[p], posts[s])'
    BY <1>c DEF ReviewsInv, PostsInv, PostsApart, Active
  <2> QED
    BY <2>1, <2>2 DEF PostsInv
<1>4. AddedUp'
  <2> SUFFICES ASSUME NEW u \in People
               PROVE  /\ aggregates[u].count = Cardinality(ReviewsOf(u)')
                      /\ aggregates[u].sum = SumOf(RatingOf, ReviewsOf(u)')
    BY <1>c DEF AddedUp
  <2>1. /\ aggregates[u].count = Cardinality(ReviewsOf(u))
        /\ aggregates[u].sum = SumOf(RatingOf, ReviewsOf(u))
    BY DEF ReviewsInv, AddedUp
  <2>2. CASE u # old.of
    <3>1. ReviewsOf(u)' = ReviewsOf(u)
      BY <2>2, <1>c, <1>w DEF ReviewsOf
    <3> QED
      BY <2>1, <3>1
  <2>3. CASE u = old.of
    <3> DEFINE A == ReviewsOf(u)
               C == A \ {old}
               B == C \cup {new}
    <3>1. ReviewsOf(u)' = B
      BY <2>3, <1>c, <1>w DEF ReviewsOf
    <3>2. IsFiniteSet(A) /\ old \in A /\ new \notin A /\ A \subseteq ReviewRows
      BY <2>3, <1>t, <1>w, FS_Subset DEF ReviewsOf
    <3>3. Cardinality(C) = Cardinality(A) - 1 /\ IsFiniteSet(C) /\ Cardinality(A) \in Nat
      BY <3>2, FS_RemoveElement, FS_CardinalityType
    <3>4. Cardinality(B) = Cardinality(C) + 1 /\ IsFiniteSet(B)
      BY <3>2, <3>3, FS_AddElement
    <3>5. (\A row \in B : RatingOf[row] \in Int) /\ (\A row \in A : RatingOf[row] \in Int)
      BY <3>2, <1>w, ReviewsAssumption DEF RatingOf, ReviewRows
    <3>6. RatingOf[new] = RatingOf[old]
      BY <1>w, <1>t DEF RatingOf
    <3>7. B \ {new} = C /\ new \in B /\ B \in SUBSET B /\ A \in SUBSET A
      BY <3>2
    <3>8. A \ {old} = C
      OBVIOUS
    <3> HIDE DEF A, B, C
    <3>9. SumOf(RatingOf, B) = RatingOf[new] + SumOf(RatingOf, B \ {new})
      BY <3>4, <3>5, <3>7, SumRemoves
    <3>10. SumOf(RatingOf, A) = RatingOf[old] + SumOf(RatingOf, A \ {old})
      BY <3>2, <3>5, <3>7, SumRemoves
    <3>11. SumOf(RatingOf, B) = SumOf(RatingOf, A)
      BY <3>6, <3>7, <3>8, <3>9, <3>10
    <3>12. Cardinality(B) = Cardinality(A)
      BY <3>3, <3>4
    <3>13. aggregates[u].sum = SumOf(RatingOf, A) /\ aggregates[u].count = Cardinality(A)
      BY <2>1 DEF A
    <3> QED
      BY <3>1, <3>11, <3>12, <3>13
  <2> QED
    BY <2>2, <2>3
<1> QED
  BY <1>1, <1>2, <1>3, <1>4 DEF ReviewsInv

LEMMA ReviewsStep ==
    ReviewsInv /\ [ReviewsNext]_reviewVars => ReviewsInv'
<1> SUFFICES ASSUME ReviewsInv, [ReviewsNext]_reviewVars PROVE ReviewsInv'
  OBVIOUS
<1>1. ASSUME UNCHANGED <<reviewed, aggregates, posts>>,
             window' \in [Trips -> {"running", "reviewable", "over"}]
      PROVE  ReviewsInv'
  <2>1. ReviewsTyped' /\ OneEach'
    BY <1>1 DEF ReviewsInv, ReviewsTyped, OneEach
  <2>2. PostsInv'
    BY <1>1 DEF ReviewsInv, PostsInv, PostOK, PostsApart, Active
  <2>3. AddedUp'
    BY <1>1 DEF ReviewsInv, AddedUp, ReviewsOf
  <2> QED
    BY <2>1, <2>2, <2>3 DEF ReviewsInv
<1>2. window \in [Trips -> {"running", "reviewable", "over"}]
  BY DEF ReviewsInv, ReviewsTyped
<1>3. ASSUME NEW t \in Trips, TripEnds(t) \/ WindowCloses(t)
      PROVE  ReviewsInv'
  BY <1>1, <1>2, <1>3 DEF TripEnds, WindowCloses
<1>4. CASE UNCHANGED reviewVars
  BY <1>1, <1>2, <1>4 DEF reviewVars
<1> QED
  BY <1>3, <1>4, PostsGoOn, CommitReviewStep, ReportStep DEF ReviewsNext

LEMMA ReviewsInitial ==
    ReviewsInit => ReviewsInv
<1> SUFFICES ASSUME ReviewsInit PROVE ReviewsInv
  OBVIOUS
<1>1. ReviewsTyped
  BY NoPostIsOne, FS_EmptySet DEF ReviewsInit, ReviewsTyped, Totals
<1>2. OneEach
  BY DEF ReviewsInit, OneEach
<1>3. PostsInv
  BY NoPostIsOne DEF ReviewsInit, PostsInv, PostOK, PostsApart
<1>4. AddedUp
  <2>1. Cardinality({}) = 0 /\ SumOf(RatingOf, {}) = 0
    BY FS_EmptySet, SumFirst
  <2>2. \A u \in People : ReviewsOf(u) = {}
    BY DEF ReviewsInit, ReviewsOf
  <2> QED
    BY <2>1, <2>2 DEF ReviewsInit, AddedUp
<1> QED
  BY <1>1, <1>2, <1>3, <1>4 DEF ReviewsInv

LEMMA ReviewsInductive ==
    ReviewsSpec => []ReviewsInv
  BY ReviewsInitial, ReviewsStep, PTL DEF ReviewsSpec

\* Reviews, aggregates and the transactions between them are well typed.
THEOREM ReviewsTypeCorrect ==
    ReviewsSpec => []ReviewsTypeOK
<1>1. ReviewsInv => ReviewsTypeOK
  BY DEF ReviewsInv, ReviewsTyped, ReviewRows, Totals, PostRecord, ReviewsTypeOK
<1> QED
  BY <1>1, ReviewsInductive, PTL

\* The sum that the invariant speaks of is the one that RatingsAddUp does.
LEMMA RatingsAreSum ==
    ASSUME NEW S \in SUBSET ReviewRows
    PROVE  MapThenSumSet(LAMBDA row : row.rating, S) = SumOf(RatingOf, S)
<1>1. MapThenSumSet(LAMBDA row : row.rating, S) =
        (CHOOSE g : g = [s \in SUBSET S |->
            IF s = {} THEN 0 ELSE First(s).rating + g[s \ {First(s)}]])[S]
  BY Zenon DEF MapThenSumSet, MapThenFoldSet, First
<1>2. \A s \in SUBSET S : s # {} => RatingOf[First(s)] = First(s).rating
  BY DEF First, RatingOf
<1>3. \A g : [s \in SUBSET S |-> IF s = {} THEN 0 ELSE First(s).rating + g[s \ {First(s)}]]
           = [s \in SUBSET S |-> IF s = {} THEN 0 ELSE RatingOf[First(s)] + g[s \ {First(s)}]]
  BY <1>2
<1>4. (CHOOSE g : g = [s \in SUBSET S |->
            IF s = {} THEN 0 ELSE First(s).rating + g[s \ {First(s)}]])
      = (CHOOSE g : g = [s \in SUBSET S |-> IF s = {} THEN 0 ELSE RatingOf[First(s)] + g[s \ {First(s)}]])
  BY <1>3
<1>5. SumOf(RatingOf, S) =
        (CHOOSE g : g = [s \in SUBSET S |-> IF s = {} THEN 0 ELSE RatingOf[First(s)] + g[s \ {First(s)}]])[S]
  BY Zenon DEF SumOf, IsSum
<1> QED
  BY <1>1, <1>4, <1>5, Zenon

\* Review and aggregate never disagree: a person's aggregate is the sum and the
\* number of the reviews of him, one per trip and reviewer, whoever reviews at
\* the same time and whatever is refused or rolled back.
THEOREM AggregatesAgree ==
    ReviewsSpec => []RatingsAddUp
<1>1. ReviewsInv => RatingsAddUp
  <2> SUFFICES ASSUME ReviewsInv, NEW u \in People
               PROVE  /\ aggregates[u].count = Cardinality({<<row.trip, row.by>> : row \in ReviewsOf(u)})
                      /\ aggregates[u].count = Cardinality(ReviewsOf(u))
                      /\ aggregates[u].sum = MapThenSumSet(LAMBDA row : row.rating, ReviewsOf(u))
    BY Zenon DEF RatingsAddUp, ReviewsOf
  <2> DEFINE A == ReviewsOf(u)
             T == {<<row.trip, row.by>> : row \in A}
             f == [row \in A |-> <<row.trip, row.by>>]
  <2>1. /\ aggregates[u].count = Cardinality(A) /\ aggregates[u].sum = SumOf(RatingOf, A)
        /\ A \in SUBSET ReviewRows /\ IsFiniteSet(A)
    BY FS_Subset DEF ReviewsInv, AddedUp, ReviewsTyped, ReviewsOf
  <2>2. \A x, y \in A : x.trip = y.trip /\ x.by = y.by => x = y
    BY DEF ReviewsInv, OneEach, ReviewsOf
  <2>3. f \in Bijection(A, T)
    <3>1. f \in [A -> T] /\ \A v \in T : \E x \in A : f[x] = v
      OBVIOUS
    <3>2. \A x, y \in A : f[x] = f[y] => x = y
      BY <2>2
    <3>3. f \in Injection(A, T)
      BY <3>1, <3>2 DEF Injection, IsInjective
    <3>4. f \in Surjection(A, T)
      BY <3>1 DEF Surjection
    <3> QED
      BY <3>3, <3>4 DEF Bijection
  <2>4. Cardinality(T) = Cardinality(A)
    BY <2>1, <2>3, FS_Bijection DEF ExistsBijection
  <2>5. MapThenSumSet(LAMBDA row : row.rating, A) = SumOf(RatingOf, A)
    BY <2>1, RatingsAreSum
  <2> QED
    BY <2>1, <2>4, <2>5
<1> QED
  BY <1>1, ReviewsInductive, PTL

-----------------------------------------------------------------------------
(***************************************************************************)
(* Quotes.  The arithmetic of the fare, then what a quote, a booking and a *)
(* ride remember: a rule of the quote's area and beginning is always there *)
(* and has the card of the quote, for a rule is ended but never deleted.   *)
(***************************************************************************)
CardType == [base : Nat, perKm : Nat, perMin : Nat, minimum : Nat, surge : Nat,
             commission : Nat, cancelFee : Int, grace : Int]

RouteType == [metres : Int, seconds : Int]

LEMMA AtLeastIs ==
    ASSUME NEW n \in Int, NEW m \in Int
    PROVE  /\ AtLeast(n, m) \in Int /\ AtLeast(n, m) >= n /\ AtLeast(n, m) >= m
           /\ AtLeast(n, m) = n \/ AtLeast(n, m) = m
BY DEF AtLeast

\* Where a division of whole numbers leaves its dividend.
LEMMA Divided ==
    ASSUME NEW n \in Nat, NEW m \in Nat \ {0}
    PROVE  n \div m \in Nat /\ m * (n \div m) <= n /\ n < m * (n \div m) + m
OBVIOUS

LEMMA ProductIsNat ==
    ASSUME NEW n \in Nat, NEW m \in Nat
    PROVE  n * m \in Nat
OBVIOUS

\* A bound on both sides, times a factor.
LEMMA Scaled ==
    ASSUME NEW n \in Int, NEW m \in Nat, NEW k \in Nat, -m <= n, n <= m
    PROVE  -(m * k) <= n * k /\ n * k <= m * k
OBVIOUS

LEMMA Distributes ==
    ASSUME NEW n \in Int, NEW m \in Int, NEW k \in Int
    PROVE  (3000 * n - m) * k = 3000 * (n * k) - m * k
OBVIOUS

\* The roundings of a fare, before the last one, cost no more than the slack.
LEMMA SurgedIsNear ==
    ASSUME NEW card \in CardType, NEW route \in RouteType
    PROVE  /\ Surged(card, route) \in Nat /\ Exact(card, route) \in Nat /\ Slack(card) \in Nat
           /\ Surged(card, route) * PartsOfCent <= Exact(card, route) + Slack(card)
           /\ Surged(card, route) * PartsOfCent >= Exact(card, route) - Slack(card)
<1> DEFINE metres == AtLeast(route.metres, 0)
           seconds == AtLeast(route.seconds, 0)
           a == card.perKm * metres
           b == card.perMin * seconds
           g == AtLeast(card.surge, 10000)
           km == (a + 500) \div 1000
           mins == (b + 30) \div 60
           x == card.base + km + mins
           y == card.base * 3000 + a * 3 + b * 50
           w == x * g
           f == (w + 5000) \div 10000
<1>1. /\ card.base \in Nat /\ card.perKm \in Nat /\ card.perMin \in Nat /\ card.surge \in Nat
      /\ route.metres \in Int /\ route.seconds \in Int
  BY DEF CardType, RouteType
<1>2. metres \in Nat /\ seconds \in Nat /\ g \in Nat
  <2> DEFINE rm == route.metres
             rs == route.seconds
             cs == card.surge
  <2>i. rm \in Int /\ rs \in Int /\ cs \in Int
    BY <1>1
  <2> HIDE DEF rm, rs, cs
  <2>1. metres \in Int /\ metres >= 0
    <3>1. AtLeast(rm, 0) \in Int /\ AtLeast(rm, 0) >= 0
      BY <2>i DEF AtLeast
    <3> QED
      BY <3>1 DEF rm
  <2>2. seconds \in Int /\ seconds >= 0
    <3>1. AtLeast(rs, 0) \in Int /\ AtLeast(rs, 0) >= 0
      BY <2>i DEF AtLeast
    <3> QED
      BY <3>1 DEF rs
  <2>3. g \in Int /\ g >= 10000
    <3>1. AtLeast(cs, 10000) \in Int /\ AtLeast(cs, 10000) >= 10000
      BY <2>i DEF AtLeast
    <3> QED
      BY <3>1 DEF cs
  <2> HIDE DEF metres, seconds, g
  <2> QED
    BY <2>1, <2>2, <2>3
<1>3. Surged(card, route) = f
  BY DEF Surged
<1>4. Exact(card, route) = y * g
  BY DEF Exact
<1>5. Slack(card) = 3000 * g + 15000000
  BY DEF Slack, PartsOfCent
<1> HIDE DEF metres, seconds, g
<1>6. a \in Nat /\ b \in Nat
  BY <1>1, <1>2, ProductIsNat
<1> HIDE DEF a, b
<1>7. km \in Nat /\ 1000 * km <= a + 500 /\ a + 500 < 1000 * km + 1000
  BY <1>6, Divided
<1>8. mins \in Nat /\ 60 * mins <= b + 30 /\ b + 30 < 60 * mins + 60
  BY <1>6, Divided
<1> HIDE DEF km, mins
<1>9. x \in Nat /\ y \in Nat /\ -3000 <= 3000 * x - y /\ 3000 * x - y <= 3000
  BY <1>1, <1>6, <1>7, <1>8
<1> HIDE DEF x, y
<1>10. -(3000 * g) <= (3000 * x - y) * g /\ (3000 * x - y) * g <= 3000 * g
  BY <1>2, <1>9, Scaled
<1>11. (3000 * x - y) * g = 3000 * w - y * g
  BY <1>2, <1>9, Distributes
<1>12. w \in Nat /\ y * g \in Nat
  BY <1>2, <1>9, ProductIsNat
<1> HIDE DEF w
<1>13. f \in Nat /\ 10000 * f <= w + 5000 /\ w + 5000 < 10000 * f + 10000
  BY <1>12, Divided
<1> HIDE DEF f
<1>14. /\ f * PartsOfCent <= y * g + (3000 * g + 15000000)
       /\ f * PartsOfCent >= y * g - (3000 * g + 15000000)
  <2> DEFINE z == y * g
  <2>1. z \in Nat /\ -(3000 * g) <= 3000 * w - z /\ 3000 * w - z <= 3000 * g
    BY <1>10, <1>11, <1>12
  <2> HIDE DEF z
  <2>2. /\ f * 30000000 <= z + (3000 * g + 15000000)
        /\ f * 30000000 >= z - (3000 * g + 15000000)
    BY <1>2, <1>12, <1>13, <2>1
  <2> QED
    BY <2>2 DEF z, PartsOfCent
<1> QED
  BY <1>2, <1>3, <1>4, <1>5, <1>12, <1>13, <1>14

\* A price is the fare, rounded upwards to ten cents, or the minimum.
LEMMA PriceIsNear ==
    ASSUME NEW card \in CardType, NEW route \in RouteType
    PROVE  Compute(card, route) \in Nat /\ PriceIsFair(Compute(card, route), card, route)
<1> DEFINE s == Surged(card, route)
           e == Exact(card, route)
           l == Slack(card)
           tens == (s + 9) \div 10
           price == Compute(card, route)
<1>1. /\ s \in Nat /\ e \in Nat /\ l \in Nat
      /\ s * 30000000 <= e + l /\ s * 30000000 >= e - l
  BY SurgedIsNear DEF PartsOfCent
<1>2. price = AtLeast(tens * 10, card.minimum)
  BY DEF Compute
<1>3. card.minimum \in Nat
  BY DEF CardType
<1> HIDE DEF s, e, l
<1>4. tens \in Nat /\ 10 * tens <= s + 9 /\ s + 9 < 10 * tens + 10
  BY <1>1, Divided
<1> HIDE DEF tens, price
<1>5. /\ price \in Int /\ price >= tens * 10 /\ price >= card.minimum
      /\ price = tens * 10 \/ price = card.minimum
  <2> DEFINE ten == tens * 10
             least == card.minimum
  <2>1. ten \in Int /\ least \in Int
    BY <1>3, <1>4
  <2>2. price = AtLeast(ten, least)
    BY <1>2
  <2> HIDE DEF ten, least
  <2>3. /\ price \in Int /\ price >= ten /\ price >= least
        /\ price = ten \/ price = least
    BY <2>1, <2>2, AtLeastIs
  <2> QED
    BY <2>3 DEF ten, least
<1>6. price * 30000000 >= e - l
  BY <1>1, <1>4, <1>5
<1>7. price > card.minimum => (price - 9) * 30000000 <= e + l
  BY <1>1, <1>3, <1>4, <1>5
<1>8. PriceIsFair(price, card, route)
  BY <1>5, <1>6, <1>7 DEF PriceIsFair, e, l, PartsOfCent
<1> QED
  BY <1>3, <1>5, <1>8 DEF price

\* The commission is a share of the price but for its rounding.  What is left of
\* the price and the products have names, so that none is in sight.
LEMMA HalfACent ==
    ASSUME NEW price \in Nat, NEW n \in Nat, NEW p \in Nat, NEW q \in Int, NEW share \in Int,
           10000 * n <= p + 5000, p + 5000 < 10000 * n + 10000,
           q = price * 10000 - p, share = price - n
    PROVE  share * 10000 <= q + 5000 /\ q <= share * 10000 + 5000
  OBVIOUS

LEMMA Leaves ==
    ASSUME NEW price \in Int, NEW bp \in Int
    PROVE  price * (10000 - bp) = price * 10000 - price * bp
  OBVIOUS

LEMMA CommissionIsShare ==
    ASSUME NEW price \in Nat, NEW bp \in Nat
    PROVE  Commission(price, bp) \in Nat /\ ShareIsFair(price - Commission(price, bp), price, bp)
<1>1. PICK p \in Nat : p = price * bp
  BY ProductIsNat
<1>2. PICK n \in Nat : n = (p + 5000) \div 10000
  BY Divided
<1>3. PICK q \in Int : q = price * (10000 - bp)
  OBVIOUS
<1>4. PICK share \in Int : share = price - n
  OBVIOUS
<1>5. Commission(price, bp) = n
  BY ONLY <1>1, <1>2 DEF Commission
<1>6. q = price * 10000 - p
  BY <1>1, <1>3, Leaves
<1>7. 10000 * n <= p + 5000 /\ p + 5000 < 10000 * n + 10000
  BY <1>2, Divided
<1>8. share * 10000 <= q + 5000 /\ q <= share * 10000 + 5000
  BY <1>4, <1>6, <1>7, HalfACent
<1>9. ShareIsFair(share, price, bp)
  BY <1>3, <1>8 DEF ShareIsFair
<1> QED
  BY <1>4, <1>5, <1>9

RuleRows == [area : Areas, from : 0 .. MaxClock, until : 0 .. MaxClock + 1, card : Cards]

QuoteRows == [area : Areas, from : 0 .. MaxClock, route : Routes, price : Nat, expires : Int]

FareStates == {"none", "matching", "assigned", "completed", "cancelled"}

FareRows == [state : FareStates, quote : QuoteIds \cup {NoQuote}, price : Nat, since : Int,
             final : Nat, commission : Nat, fee : Int]

Bookings == [step : {"idle", "loaded"}, quote : QuoteIds \cup {NoQuote}, price : Nat]

QuotesTyped ==
    /\ clock \in 0 .. MaxClock
    /\ rules \subseteq RuleRows
    /\ quotes \in [QuoteIds -> QuoteRows \cup {NoQuote}]
    /\ rides \in [Keys -> FareRows]
    /\ booking \in [Keys -> Bookings]

\* Area and beginning are a rule's key.
RulesApart == \A r, s \in rules : r.area = s.area /\ r.from = s.from => r = s

Fits(r, t) == r.area = t.area /\ r.from = t.from

\* A quote is what the rule that it names makes of its route.
QuoteOK(t) ==
    t # NoQuote => \E r \in rules : Fits(r, t) /\ t.price = Compute(r.card, t.route)

\* Of a request and of a ride: the quote is there, and the price is its price.
Booked(q, price) == q \in QuoteIds /\ quotes[q] # NoQuote /\ price = quotes[q].price

BookingOK(b) == b # NotBooking => Booked(b.quote, b.price)

FareOK(f) ==
    /\ f.state # "none" => Booked(f.quote, f.price)
    /\ f.state = "completed" =>
        /\ f.final = f.price
        /\ \E r \in rules : Fits(r, quotes[f.quote]) /\ f.commission = Commission(f.price, r.card.commission)
    /\ f.fee # 0 =>
        /\ f.state = "cancelled"
        /\ \E r \in rules : Fits(r, quotes[f.quote]) /\ f.fee = r.card.cancelFee

QuotesInv ==
    /\ QuotesTyped /\ RulesApart
    /\ \A q \in QuoteIds : QuoteOK(quotes[q])
    /\ \A k \in Keys : BookingOK(booking[k]) /\ FareOK(rides[k])

\* The rule that is meant is the one that fits.
LEMMA RuleIsMeant ==
    ASSUME RulesApart, NEW q \in QuoteIds, NEW r \in rules, Fits(r, quotes[q])
    PROVE  RuleOf(q) = r /\ CardOf(q) = r.card
<1>1. \A s \in rules : s.area = quotes[q].area /\ s.from = quotes[q].from => s = r
  BY DEF RulesApart, Fits
<1>2. RuleOf(q) = r
  BY <1>1 DEF RuleOf, Fits
<1> QED
  BY <1>2 DEF CardOf, RuleOf

\* Rules come and are ended, and quotes come.
RulesStay == \A r \in rules : \E s \in rules' : s.area = r.area /\ s.from = r.from /\ s.card = r.card

QuotesStay == \A q \in QuoteIds : quotes[q] # NoQuote => quotes'[q] = quotes[q]

LEMMA QuoteStays ==
    ASSUME RulesStay, NEW t, QuoteOK(t)
    PROVE  QuoteOK(t)'
<1> SUFFICES ASSUME t # NoQuote
             PROVE  \E s \in rules' : Fits(s, t) /\ t.price = Compute(s.card, t.route)
  BY DEF QuoteOK
<1>1. PICK r \in rules : Fits(r, t) /\ t.price = Compute(r.card, t.route)
  BY DEF QuoteOK
<1>2. PICK s \in rules' : s.area = r.area /\ s.from = r.from /\ s.card = r.card
  BY DEF RulesStay
<1> QED
  BY <1>1, <1>2 DEF Fits

LEMMA BookedStays ==
    ASSUME QuotesStay, NEW q, NEW price, Booked(q, price)
    PROVE  Booked(q, price)' /\ quotes'[q] = quotes[q]
BY DEF QuotesStay, Booked

LEMMA BookingStays ==
    ASSUME QuotesStay, NEW b, BookingOK(b)
    PROVE  BookingOK(b)'
BY BookedStays DEF BookingOK

LEMMA FareStays ==
    ASSUME RulesStay, QuotesStay, NEW f, FareOK(f)
    PROVE  FareOK(f)'
<1>1. f.state # "none" => Booked(f.quote, f.price)' /\ quotes'[f.quote] = quotes[f.quote]
  BY BookedStays DEF FareOK
<1>2. ASSUME f.state = "completed"
      PROVE  /\ f.final = f.price
             /\ \E s \in rules' : Fits(s, quotes'[f.quote])
                    /\ f.commission = Commission(f.price, s.card.commission)
  <2>1. PICK r \in rules : Fits(r, quotes[f.quote]) /\ f.commission = Commission(f.price, r.card.commission)
    BY <1>2 DEF FareOK
  <2>2. PICK s \in rules' : s.area = r.area /\ s.from = r.from /\ s.card = r.card
    BY DEF RulesStay
  <2>3. quotes'[f.quote] = quotes[f.quote] /\ f.final = f.price
    BY <1>1, <1>2 DEF FareOK
  <2> QED
    BY <2>1, <2>2, <2>3 DEF Fits
<1>3. ASSUME f.fee # 0
      PROVE  /\ f.state = "cancelled"
             /\ \E s \in rules' : Fits(s, quotes'[f.quote]) /\ f.fee = s.card.cancelFee
  <2>1. PICK r \in rules : Fits(r, quotes[f.quote]) /\ f.fee = r.card.cancelFee
    BY <1>3 DEF FareOK
  <2>2. PICK s \in rules' : s.area = r.area /\ s.from = r.from /\ s.card = r.card
    BY DEF RulesStay
  <2>3. f.state = "cancelled"
    BY <1>3 DEF FareOK
  <2> QED
    BY <1>1, <2>1, <2>2, <2>3 DEF Fits
<1> QED
  BY <1>1, <1>2, <1>3 DEF FareOK

\* What an operation has to show of the rows that it writes.
LEMMA QuotesKept ==
    ASSUME QuotesInv, QuotesTyped', RulesApart', RulesStay, QuotesStay,
           \A q \in QuoteIds : quotes'[q] = quotes[q] \/ QuoteOK(quotes[q])',
           \A k \in Keys : booking'[k] = booking[k] \/ BookingOK(booking[k])',
           \A k \in Keys : rides'[k] = rides[k] \/ FareOK(rides[k])'
    PROVE  QuotesInv'
<1>1. ASSUME NEW q \in QuoteIds
      PROVE  QuoteOK(quotes[q])'
  <2>1. PICK t : t = quotes[q]
    OBVIOUS
  <2>2. QuoteOK(t)'
    BY <2>1, QuoteStays DEF QuotesInv
  <2>3. CASE quotes'[q] = quotes[q]
    BY <2>1, <2>2, <2>3 DEF QuoteOK
  <2> QED
    BY <2>3
<1>2. ASSUME NEW k \in Keys
      PROVE  BookingOK(booking[k])'
  <2>1. PICK b : b = booking[k]
    OBVIOUS
  <2>2. BookingOK(b)'
    BY <2>1, BookingStays DEF QuotesInv
  <2>3. CASE booking'[k] = booking[k]
    BY <2>1, <2>2, <2>3 DEF BookingOK
  <2> QED
    BY <2>3
<1>3. ASSUME NEW k \in Keys
      PROVE  FareOK(rides[k])'
  <2>1. PICK f : f = rides[k]
    OBVIOUS
  <2>2. FareOK(f)'
    BY <2>1, FareStays DEF QuotesInv
  <2>3. CASE rides'[k] = rides[k]
    BY <2>1, <2>2, <2>3 DEF FareOK
  <2> QED
    BY <2>3
<1> QED
  BY <1>1, <1>2, <1>3 DEF QuotesInv

LEMMA NoFare ==
    /\ NoRideYet \in FareRows /\ NoRideYet.state = "none" /\ NoRideYet.fee = 0
    /\ NotBooking \in Bookings
BY DEF NoRideYet, NotBooking, FareRows, FareStates, Bookings

\* Steps that leave the rules alone.
LEMMA RulesUntouched ==
    ASSUME UNCHANGED rules
    PROVE  RulesStay /\ (RulesApart => RulesApart')
BY DEF RulesStay, RulesApart

LEMMA QuotesUntouched ==
    ASSUME UNCHANGED quotes
    PROVE  QuotesStay
BY DEF QuotesStay

LEMMA TickStep ==
    ASSUME QuotesInv, Tick \/ UNCHANGED quoteVars
    PROVE  QuotesInv'
<1>1. UNCHANGED <<rules, quotes, rides, booking>> /\ clock' \in 0 .. MaxClock
  BY QuotesAssumption DEF Tick, quoteVars, QuotesInv, QuotesTyped
<1>2. QuotesTyped'
  BY <1>1 DEF QuotesInv, QuotesTyped
<1> QED
  BY <1>1, <1>2, RulesUntouched, QuotesUntouched, QuotesKept DEF QuotesInv

LEMMA AddRuleStep ==
    ASSUME QuotesInv, NEW a \in Areas, NEW card \in Cards, AddRule(a, card)
    PROVE  QuotesInv'
<1>1. PICK r : r = [area |-> a, from |-> clock, until |-> MaxClock + 1, card |-> card]
  OBVIOUS
<1>2. /\ rules' = rules \cup {r} /\ UNCHANGED <<clock, quotes, rides, booking>>
      /\ \A s \in rules : ~(s.area = a /\ s.from = clock)
  BY <1>1 DEF AddRule
<1>3. r \in RuleRows /\ r.area = a /\ r.from = clock
  BY <1>1, QuotesAssumption DEF QuotesInv, QuotesTyped, RuleRows
<1>4. QuotesTyped'
  BY <1>2, <1>3 DEF QuotesInv, QuotesTyped
<1>5. RulesStay
  BY <1>2 DEF RulesStay
<1>6. RulesApart'
  BY <1>2, <1>3 DEF QuotesInv, RulesApart
<1> QED
  BY <1>2, <1>4, <1>5, <1>6, QuotesUntouched, QuotesKept

LEMMA EndRuleStep ==
    ASSUME QuotesInv, NEW r \in rules, EndRule(r)
    PROVE  QuotesInv'
<1>1. PICK s : s = [area |-> r.area, from |-> r.from, until |-> clock, card |-> r.card]
  OBVIOUS
<1>t. r \in RuleRows /\ clock \in 0 .. MaxClock /\ RulesApart
  BY DEF QuotesInv, QuotesTyped
<1>2. [r EXCEPT !.until = clock] = s
  BY <1>1, <1>t DEF RuleRows
<1>3. rules' = (rules \ {r}) \cup {s} /\ UNCHANGED <<clock, quotes, rides, booking>>
  BY <1>2 DEF EndRule
<1>4. s \in RuleRows /\ s.area = r.area /\ s.from = r.from /\ s.card = r.card
  BY <1>1, <1>t, QuotesAssumption DEF RuleRows
<1>5. QuotesTyped'
  BY <1>3, <1>4 DEF QuotesInv, QuotesTyped
<1>6. RulesStay
  BY <1>3, <1>4 DEF RulesStay
<1>7. RulesApart'
  BY <1>3, <1>4, <1>t DEF RulesApart
<1> QED
  BY <1>3, <1>5, <1>6, <1>7, QuotesUntouched, QuotesKept

LEMMA TakeQuoteStep ==
    ASSUME QuotesInv, NEW q \in QuoteIds, NEW p \in Pickups, NEW route \in Routes,
           TakeQuote(q, p, route)
    PROVE  QuotesInv'
<1>0. PICK a \in Nearest(p) : \E r \in RuleOfArea(a) :
        quotes' = [quotes EXCEPT ![q] =
            [area |-> a, from |-> r.from, route |-> route,
             price |-> Compute(r.card, route), expires |-> clock + QuoteTTL]]
  BY DEF TakeQuote
<1>1. PICK r \in RuleOfArea(a) :
        quotes' = [quotes EXCEPT ![q] =
            [area |-> a, from |-> r.from, route |-> route,
             price |-> Compute(r.card, route), expires |-> clock + QuoteTTL]]
  BY <1>0
<1>2. PICK t : t = [area |-> a, from |-> r.from, route |-> route,
                    price |-> Compute(r.card, route), expires |-> clock + QuoteTTL]
  OBVIOUS
<1>3. /\ quotes[q] = NoQuote /\ UNCHANGED <<clock, rules, rides, booking>>
      /\ quotes' = [quotes EXCEPT ![q] = t]
  BY <1>1, <1>2 DEF TakeQuote
<1>4. r \in rules /\ r.area = a /\ r \in RuleRows /\ r.card \in CardType /\ route \in RouteType
  BY QuotesAssumption DEF RuleOfArea, InForce, QuotesInv, QuotesTyped, RuleRows, CardType, RouteType
<1>5. Compute(r.card, route) \in Nat
  BY <1>4, PriceIsNear
<1>6. clock + QuoteTTL \in Int
  BY QuotesAssumption DEF QuotesInv, QuotesTyped
<1>7. /\ t \in QuoteRows /\ t.area = a /\ t.from = r.from /\ t.route = route
      /\ t.price = Compute(r.card, route)
  BY <1>2, <1>4, <1>5, <1>6 DEF QuoteRows, RuleRows
<1>8. /\ quotes' \in [QuoteIds -> QuoteRows \cup {NoQuote}]
      /\ quotes'[q] = t /\ \A x \in QuoteIds : x # q => quotes'[x] = quotes[x]
  BY <1>3, <1>7 DEF QuotesInv, QuotesTyped
<1>9. QuotesTyped'
  BY <1>3, <1>8 DEF QuotesInv, QuotesTyped
<1>10. QuotesStay
  BY <1>3, <1>8 DEF QuotesStay
<1>11. QuoteOK(t)'
  BY <1>3, <1>4, <1>7 DEF QuoteOK, Fits
<1>12. QuoteOK(quotes[q])'
  BY <1>8, <1>11 DEF QuoteOK
<1> QED
  BY <1>3, <1>8, <1>9, <1>10, <1>12, RulesUntouched, QuotesKept DEF QuotesInv

LEMMA LoadQuoteStep ==
    ASSUME QuotesInv, NEW k \in Keys, NEW q \in QuoteIds, LoadQuote(k, q)
    PROVE  QuotesInv'
<1>1. PICK b : b = [step |-> "loaded", quote |-> q, price |-> quotes[q].price]
  OBVIOUS
<1>2. /\ quotes[q] # NoQuote /\ UNCHANGED <<clock, rules, quotes, rides>>
      /\ booking' = [booking EXCEPT ![k] = b]
  BY <1>1 DEF LoadQuote
<1>3. quotes[q] \in QuoteRows
  BY <1>2 DEF QuotesInv, QuotesTyped
<1>4. b \in Bookings /\ b.quote = q /\ b.price = quotes[q].price
  BY <1>1, <1>3 DEF QuoteRows, Bookings
<1>5. /\ booking' \in [Keys -> Bookings] /\ booking'[k] = b
      /\ \A x \in Keys : x # k => booking'[x] = booking[x]
  BY <1>2, <1>4 DEF QuotesInv, QuotesTyped
<1>6. QuotesTyped'
  BY <1>2, <1>5 DEF QuotesInv, QuotesTyped
<1>7. BookingOK(booking[k])'
  BY <1>2, <1>4, <1>5 DEF BookingOK, Booked
<1> QED
  BY <1>2, <1>5, <1>6, <1>7, RulesUntouched, QuotesUntouched, QuotesKept DEF QuotesInv

\* The steps of a ride: what to show of the row that is written.
LEMMA FareStep ==
    ASSUME QuotesInv, NEW k \in Keys, NEW f \in FareRows, FareOK(f),
           rides' = [rides EXCEPT ![k] = f], UNCHANGED <<clock, rules, quotes>>,
           booking' = booking \/ booking' = [booking EXCEPT ![k] = NotBooking]
    PROVE  QuotesInv'
<1>1. /\ rides' \in [Keys -> FareRows] /\ rides'[k] = f
      /\ \A x \in Keys : x # k => rides'[x] = rides[x]
  BY DEF QuotesInv, QuotesTyped
<1>2. /\ booking' \in [Keys -> Bookings]
      /\ booking'[k] = booking[k] \/ booking'[k] = NotBooking
      /\ \A x \in Keys : x # k => booking'[x] = booking[x]
  BY NoFare DEF QuotesInv, QuotesTyped
<1>3. QuotesTyped'
  BY <1>1, <1>2 DEF QuotesInv, QuotesTyped
<1>4. FareOK(rides[k])'
  BY <1>1 DEF FareOK, Booked
<1>5. booking'[k] = booking[k] \/ BookingOK(booking[k])'
  BY <1>2 DEF BookingOK
<1> QED
  BY <1>1, <1>2, <1>3, <1>4, <1>5, RulesUntouched, QuotesUntouched, QuotesKept DEF QuotesInv

LEMMA BookRideStep ==
    ASSUME QuotesInv, NEW k \in Keys, BookRide(k)
    PROVE  QuotesInv'
<1>1. PICK b : b = booking[k]
  OBVIOUS
<1>2. PICK j : j = rides[k]
  OBVIOUS
<1>3. /\ b # NotBooking /\ UNCHANGED <<clock, rules, quotes>>
      /\ booking' = [booking EXCEPT ![k] = NotBooking]
  BY <1>1 DEF BookRide
<1>4. b \in Bookings /\ Booked(b.quote, b.price) /\ j \in FareRows /\ FareOK(j)
  BY <1>1, <1>2, <1>3 DEF QuotesInv, QuotesTyped, BookingOK
<1>5. CASE Riding = {} /\ rides[k] = NoRideYet
  <2> DEFINE s0 == "none"
             s1 == "matching"
             i == 0
             f == [state |-> s1, quote |-> b.quote, price |-> b.price, since |-> i,
                   final |-> i, commission |-> i, fee |-> i]
  <2>1. rides' = [rides EXCEPT ![k] =
          [NoRideYet EXCEPT !.state = s1, !.quote = b.quote, !.price = b.price]]
    BY <1>1, <1>5 DEF BookRide
  <2>2. NoRideYet = [state |-> s0, quote |-> NoQuote, price |-> i, since |-> i,
                     final |-> i, commission |-> i, fee |-> i]
    BY DEF NoRideYet
  <2>3. f \in FareRows /\ f.state = "matching" /\ f.quote = b.quote /\ f.price = b.price /\ f.fee = 0
    BY <1>4 DEF FareRows, FareStates, Bookings, Booked
  <2>4. [NoRideYet EXCEPT !.state = s1, !.quote = b.quote, !.price = b.price] =
          [[[NoRideYet EXCEPT !.state = s1] EXCEPT !.quote = b.quote] EXCEPT !.price = b.price]
    BY Zenon
  <2> HIDE DEF s0, s1, i
  <2>5. [NoRideYet EXCEPT !.state = s1] =
          [state |-> s1, quote |-> NoQuote, price |-> i, since |-> i,
           final |-> i, commission |-> i, fee |-> i]
    BY <2>2
  <2>6. [[state |-> s1, quote |-> NoQuote, price |-> i, since |-> i,
          final |-> i, commission |-> i, fee |-> i] EXCEPT !.quote = b.quote] =
          [state |-> s1, quote |-> b.quote, price |-> i, since |-> i,
           final |-> i, commission |-> i, fee |-> i]
    OBVIOUS
  <2>7. [[state |-> s1, quote |-> b.quote, price |-> i, since |-> i,
          final |-> i, commission |-> i, fee |-> i] EXCEPT !.price = b.price] = f
    OBVIOUS
  <2>8. [[NoRideYet EXCEPT !.state = s1] EXCEPT !.quote = b.quote] =
          [state |-> s1, quote |-> b.quote, price |-> i, since |-> i,
           final |-> i, commission |-> i, fee |-> i]
    BY ONLY <2>5, <2>6, Zenon
  <2>9. [NoRideYet EXCEPT !.state = s1, !.quote = b.quote, !.price = b.price] = f
    BY ONLY <2>4, <2>7, <2>8, Zenon
  <2> HIDE DEF f
  <2>10. rides' = [rides EXCEPT ![k] = f]
    BY <2>1, <2>9
  <2>11. FareOK(f)
    BY <1>4, <2>3 DEF FareOK
  <2> QED
    BY <1>3, <2>3, <2>10, <2>11, FareStep
<1>6. CASE ~(Riding = {} /\ rides[k] = NoRideYet)
  <2>1. rides' = rides
    BY <1>6 DEF BookRide
  <2>2. rides' = [rides EXCEPT ![k] = j]
    BY <1>2, <2>1 DEF QuotesInv, QuotesTyped
  <2> QED
    BY <1>3, <1>4, <2>2, FareStep
<1> QED
  BY <1>5, <1>6

LEMMA AssignDriverStep ==
    ASSUME QuotesInv, NEW k \in Keys, AssignDriver(k)
    PROVE  QuotesInv'
<1>1. PICK j : j = rides[k]
  OBVIOUS
<1>2. j \in FareRows /\ FareOK(j) /\ clock \in Int
  BY <1>1 DEF QuotesInv, QuotesTyped
<1> DEFINE s1 == "assigned"
           m == [state |-> s1, quote |-> j.quote, price |-> j.price, since |-> j.since,
                 final |-> j.final, commission |-> j.commission, fee |-> j.fee]
           f == [state |-> s1, quote |-> j.quote, price |-> j.price, since |-> clock,
                 final |-> j.final, commission |-> j.commission, fee |-> j.fee]
<1>3. /\ j.state = "matching" /\ UNCHANGED <<clock, rules, quotes, booking>>
      /\ rides' = [rides EXCEPT ![k].state = s1, ![k].since = clock]
  BY <1>1 DEF AssignDriver
<1>4. /\ f \in FareRows /\ f.state = "assigned" /\ f.quote = j.quote /\ f.price = j.price
      /\ f.fee = j.fee
  BY <1>2 DEF FareRows, FareStates
<1> HIDE DEF s1
<1>5. [j EXCEPT !.state = s1] = m
  BY <1>2 DEF FareRows
<1>6. [m EXCEPT !.since = clock] = f
  OBVIOUS
<1> HIDE DEF m, f
<1>7. rides' = [[rides EXCEPT ![k].state = s1] EXCEPT ![k].since = clock]
  BY <1>3, Zenon
<1>8. [rides EXCEPT ![k].state = s1] = [rides EXCEPT ![k] = m]
  BY <1>1, <1>5
<1>9. [[rides EXCEPT ![k] = m] EXCEPT ![k].since = clock] = [rides EXCEPT ![k] = f]
  BY <1>6 DEF QuotesInv, QuotesTyped
<1>10. rides' = [rides EXCEPT ![k] = f]
  BY <1>7, <1>8, <1>9
<1>11. FareOK(f)
  BY <1>2, <1>3, <1>4 DEF FareOK
<1> QED
  BY <1>3, <1>4, <1>10, <1>11, FareStep

LEMMA CompleteRideStep ==
    ASSUME QuotesInv, NEW k \in Keys, CompleteRide(k)
    PROVE  QuotesInv'
<1>1. PICK j : j = rides[k]
  OBVIOUS
<1>2. j \in FareRows /\ FareOK(j) /\ j.state = "assigned" /\ RulesApart
  BY <1>1 DEF QuotesInv, QuotesTyped, CompleteRide
<1>3. Booked(j.quote, j.price)
  BY <1>2 DEF FareOK
<1>4. PICK r \in rules : Fits(r, quotes[j.quote])
  BY <1>3 DEF QuotesInv, QuoteOK, Booked
<1>5. RuleOf(j.quote) = r
  BY <1>2, <1>3, <1>4, RuleIsMeant DEF Booked
<1>6. r \in RuleRows /\ r.card \in CardType
  BY QuotesAssumption DEF QuotesInv, QuotesTyped, RuleRows, CardType
<1>7. PICK c : c = Commission(j.price, r.card.commission)
  OBVIOUS
<1>8. c \in Nat
  <2> DEFINE n == j.price
             bp == r.card.commission
  <2>1. n \in Nat /\ bp \in Nat
    BY <1>2, <1>6 DEF FareRows, CardType
  <2>2. c = Commission(n, bp)
    BY <1>7
  <2> HIDE DEF n, bp
  <2> QED
    BY <2>1, <2>2, CommissionIsShare
<1> DEFINE s1 == "completed"
           p == j.price
           m == [state |-> s1, quote |-> j.quote, price |-> p, since |-> j.since,
                 final |-> j.final, commission |-> j.commission, fee |-> j.fee]
           n == [state |-> s1, quote |-> j.quote, price |-> p, since |-> j.since,
                 final |-> p, commission |-> j.commission, fee |-> j.fee]
           f == [state |-> s1, quote |-> j.quote, price |-> p, since |-> j.since,
                 final |-> p, commission |-> c, fee |-> j.fee]
<1>9. /\ UNCHANGED <<clock, rules, quotes, booking>>
      /\ rides' = [rides EXCEPT ![k].state = s1, ![k].final = p, ![k].commission = c]
  BY <1>1, <1>5, <1>7 DEF CompleteRide
<1>10. /\ f \in FareRows /\ f.state = "completed" /\ f.quote = j.quote /\ f.price = p
       /\ f.final = p /\ f.commission = c /\ f.fee = j.fee
  BY <1>2, <1>8 DEF FareRows, FareStates
<1>11. [j EXCEPT !.state = s1] = m
  BY <1>2 DEF FareRows
<1> HIDE DEF s1, p
<1>12. [m EXCEPT !.final = p] = n
  OBVIOUS
<1>13. [n EXCEPT !.commission = c] = f
  OBVIOUS
<1> HIDE DEF m, n, f
<1>14. rides' = [[[rides EXCEPT ![k].state = s1] EXCEPT ![k].final = p] EXCEPT ![k].commission = c]
  BY <1>9, Zenon
<1>15. [rides EXCEPT ![k].state = s1] = [rides EXCEPT ![k] = m]
  BY <1>1, <1>11
<1>16. [[rides EXCEPT ![k] = m] EXCEPT ![k].final = p] = [rides EXCEPT ![k] = n]
  BY <1>12 DEF QuotesInv, QuotesTyped
<1>17. [[rides EXCEPT ![k] = n] EXCEPT ![k].commission = c] = [rides EXCEPT ![k] = f]
  BY <1>13 DEF QuotesInv, QuotesTyped
<1>18. rides' = [rides EXCEPT ![k] = f]
  BY <1>14, <1>15, <1>16, <1>17
<1>19. FareOK(f)
  BY <1>2, <1>3, <1>4, <1>7, <1>10 DEF FareOK, p
<1> QED
  BY <1>9, <1>10, <1>18, <1>19, FareStep

LEMMA CancelRideStep ==
    ASSUME QuotesInv, NEW k \in Keys, CancelRide(k)
    PROVE  QuotesInv'
<1>1. PICK j : j = rides[k]
  OBVIOUS
<1>2. j \in FareRows /\ FareOK(j) /\ j.state \in {"matching", "assigned"} /\ RulesApart
  BY <1>1 DEF QuotesInv, QuotesTyped, CancelRide, Riding
<1>3. Booked(j.quote, j.price)
  BY <1>2 DEF FareOK
<1>4. PICK r \in rules : Fits(r, quotes[j.quote])
  BY <1>3 DEF QuotesInv, QuoteOK, Booked
<1>5. RuleOf(j.quote) = r
  BY <1>2, <1>3, <1>4, RuleIsMeant DEF Booked
<1>6. r.card.cancelFee \in Int
  BY QuotesAssumption DEF QuotesInv, QuotesTyped, RuleRows
<1>7. PICK fee : fee = IF j.state = "assigned" /\ clock - j.since > r.card.grace
                       THEN r.card.cancelFee ELSE 0
  OBVIOUS
<1>8. fee \in Int /\ (fee # 0 => fee = r.card.cancelFee)
  BY <1>6, <1>7
<1> DEFINE s1 == "cancelled"
           m == [state |-> s1, quote |-> j.quote, price |-> j.price, since |-> j.since,
                 final |-> j.final, commission |-> j.commission, fee |-> j.fee]
           f == [state |-> s1, quote |-> j.quote, price |-> j.price, since |-> j.since,
                 final |-> j.final, commission |-> j.commission, fee |-> fee]
<1>9. /\ UNCHANGED <<clock, rules, quotes, booking>>
      /\ rides' = [rides EXCEPT ![k].state = s1, ![k].fee = fee]
  BY <1>1, <1>5, <1>7 DEF CancelRide
<1>10. /\ f \in FareRows /\ f.state = "cancelled" /\ f.quote = j.quote /\ f.price = j.price
       /\ f.fee = fee
  BY <1>2, <1>8 DEF FareRows, FareStates
<1>11. [j EXCEPT !.state = s1] = m
  BY <1>2 DEF FareRows
<1> HIDE DEF s1
<1>12. [m EXCEPT !.fee = fee] = f
  OBVIOUS
<1> HIDE DEF m, f
<1>13. rides' = [[rides EXCEPT ![k].state = s1] EXCEPT ![k].fee = fee]
  BY <1>9, Zenon
<1>14. [rides EXCEPT ![k].state = s1] = [rides EXCEPT ![k] = m]
  BY <1>1, <1>11
<1>15. [[rides EXCEPT ![k] = m] EXCEPT ![k].fee = fee] = [rides EXCEPT ![k] = f]
  BY <1>12 DEF QuotesInv, QuotesTyped
<1>16. rides' = [rides EXCEPT ![k] = f]
  BY <1>13, <1>14, <1>15
<1>17. FareOK(f)
  BY <1>3, <1>4, <1>8, <1>10 DEF FareOK
<1> QED
  BY <1>9, <1>10, <1>16, <1>17, FareStep

LEMMA QuotesStep ==
    QuotesInv /\ [QuotesNext]_quoteVars => QuotesInv'
BY TickStep, AddRuleStep, EndRuleStep, TakeQuoteStep, LoadQuoteStep, BookRideStep,
   AssignDriverStep, CompleteRideStep, CancelRideStep DEF QuotesNext

LEMMA QuotesInitial ==
    QuotesInit => QuotesInv
<1> SUFFICES ASSUME QuotesInit PROVE QuotesInv
  OBVIOUS
<1>1. PICK card \in Cards :
        rules = {[area |-> a, from |-> 0, until |-> MaxClock + 1, card |-> card] : a \in Areas}
  BY DEF QuotesInit
<1>2. 0 \in 0 .. MaxClock /\ MaxClock + 1 \in 0 .. MaxClock + 1
  BY QuotesAssumption
<1>3. rules \subseteq RuleRows
  BY <1>1, <1>2 DEF RuleRows
<1>4. QuotesTyped
  BY <1>2, <1>3, NoFare DEF QuotesInit, QuotesTyped
<1>5. RulesApart
  BY <1>1 DEF RulesApart
<1>6. \A q \in QuoteIds : QuoteOK(quotes[q])
  BY DEF QuotesInit, QuoteOK
<1>7. \A k \in Keys : BookingOK(booking[k]) /\ FareOK(rides[k])
  BY NoFare DEF QuotesInit, BookingOK, FareOK
<1> QED
  BY <1>4, <1>5, <1>6, <1>7 DEF QuotesInv

LEMMA QuotesInductive ==
    QuotesSpec => []QuotesInv
BY QuotesInitial, QuotesStep, PTL DEF QuotesSpec

\* Rules, quotes and rides are well typed, and area and beginning are a key of
\* the rules (0003_rides.sql:56).
THEOREM QuotesTypeCorrect ==
    QuotesSpec => []QuotesTypeOK
<1>1. QuotesInv => QuotesTypeOK
  <2> SUFFICES ASSUME QuotesInv PROVE QuotesTypeOK
    OBVIOUS
  <2>1. \A q \in QuoteIds : quotes[q] # NoQuote => quotes[q].price \in Nat
    BY DEF QuotesInv, QuotesTyped, QuoteRows
  <2>2. \A k \in Keys : rides[k].state \in {"none", "matching", "assigned", "completed", "cancelled"}
    BY DEF QuotesInv, QuotesTyped, FareRows, FareStates
  <2> QED
    BY <2>1, <2>2 DEF QuotesInv, QuotesTyped, RuleRows, RulesApart, QuotesTypeOK
<1> QED
  BY <1>1, QuotesInductive, PTL

\* The second half of QuotedPriceHolds.
FareHolds(f) ==
    LET card == CardOf(f.quote)
        price == quotes[f.quote].price IN
    /\ f.state = "completed" =>
        /\ f.final = price
        /\ ShareIsFair(f.final - f.commission, price, card.commission)
    /\ f.fee \in {0, card.cancelFee}

\* A quote asks for the fare but for its roundings, and a ride ends at the
\* price and on the terms that it was booked with, whatever rules came and
\* went: for every card that the schema lets into pricing_rules, every route,
\* and any number of areas, rules, quotes and rides.
THEOREM QuotesHold ==
    QuotesSpec => []QuotedPriceHolds
<1>1. QuotesInv => QuotedPriceHolds
  <2> SUFFICES ASSUME QuotesInv PROVE QuotedPriceHolds
    OBVIOUS
  <2>t. QuotesTyped /\ RulesApart
    BY DEF QuotesInv
  <2>1. ASSUME NEW q \in QuoteIds, quotes[q] # NoQuote
        PROVE  PriceIsFair(quotes[q].price, CardOf(q), quotes[q].route)
    <3>1. PICK r \in rules : Fits(r, quotes[q]) /\ quotes[q].price = Compute(r.card, quotes[q].route)
      BY <2>1 DEF QuotesInv, QuoteOK
    <3>2. CardOf(q) = r.card
      BY <2>t, <3>1, RuleIsMeant
    <3>3. r.card \in CardType /\ quotes[q].route \in RouteType
      BY <2>1, <2>t, QuotesAssumption DEF QuotesTyped, RuleRows, QuoteRows, CardType, RouteType
    <3>4. PriceIsFair(Compute(r.card, quotes[q].route), r.card, quotes[q].route)
      BY <3>3, PriceIsNear
    <3> QED
      BY <3>1, <3>2, <3>4
  <2>2. ASSUME NEW k \in Keys, rides[k].state \in {"completed", "cancelled"}
        PROVE  FareHolds(rides[k])
    <3>1. PICK f : f = rides[k]
      OBVIOUS
    <3>2. FareOK(f) /\ f \in FareRows /\ Booked(f.quote, f.price)
      BY <2>2, <2>t, <3>1 DEF QuotesInv, QuotesTyped, FareOK
    <3>3. f.quote \in QuoteIds /\ f.price = quotes[f.quote].price /\ f.price \in Nat
      BY <3>2 DEF Booked, FareRows
    <3>4. ASSUME f.state = "completed"
          PROVE  /\ f.final = quotes[f.quote].price
                 /\ ShareIsFair(f.final - f.commission, quotes[f.quote].price, CardOf(f.quote).commission)
      <4>1. PICK r \in rules : Fits(r, quotes[f.quote]) /\ f.commission = Commission(f.price, r.card.commission)
        BY <3>2, <3>4 DEF FareOK
      <4>2. CardOf(f.quote) = r.card
        BY <2>t, <3>3, <4>1, RuleIsMeant
      <4>3. r.card.commission \in Nat
        BY <2>t, QuotesAssumption DEF QuotesTyped, RuleRows
      <4>4. f.final = f.price
        BY <3>2, <3>4 DEF FareOK
      <4>5. \A n, bp \in Nat : ShareIsFair(n - Commission(n, bp), n, bp)
        BY CommissionIsShare
      <4>6. ShareIsFair(f.price - Commission(f.price, r.card.commission), f.price, r.card.commission)
        BY <3>3, <4>3, <4>5
      <4> QED
        BY <3>3, <4>1, <4>2, <4>4, <4>6
    <3>5. f.fee \in {0, CardOf(f.quote).cancelFee}
      <4>1. ASSUME f.fee # 0 PROVE f.fee = CardOf(f.quote).cancelFee
        <5>1. PICK r \in rules : Fits(r, quotes[f.quote]) /\ f.fee = r.card.cancelFee
          BY <3>2, <4>1 DEF FareOK
        <5> QED
          BY <2>t, <3>3, <5>1, RuleIsMeant
      <4> QED
        BY <4>1
    <3>6. FareHolds(f)
      BY <3>4, <3>5 DEF FareHolds
    <3> QED
      BY <3>1, <3>6
  <2> QED
    BY <2>1, <2>2, Zenon DEF QuotedPriceHolds, FareHolds
<1> QED
  BY <1>1, QuotesInductive, PTL

-----------------------------------------------------------------------------
(***************************************************************************)
(* The configuration.  What a load has read, and so what a snapshot holds, *)
(* was in force at the time the snapshot is stamped with or later; a       *)
(* request is answered from a snapshot of its own or from one that was     *)
(* younger than CacheTTL when it asked.                                    *)
(***************************************************************************)
Contents == [t \in Tables |-> IF t = "versions" THEN VersionRows ELSE FlagRows]

Times == 0 .. MaxConfigTime

Versionings == [row : VersionRows \cup FlagRows, since : Times]

HistoryOK(t) ==
    /\ Len(rows[t]) > 0
    /\ \A n \in 1 .. Len(rows[t]) : rows[t][n].row \in Contents[t] /\ rows[t][n].since <= configTime

\* A result of a query at time since or later, which may have broken off.
ReadSince(t, row, since) == row = NoRow \/ (row \in Contents[t] /\ Held(t, row, since))

SnapReads(snap) ==
    /\ snap.loadedAt \in Times /\ snap.loadedAt <= configTime
    /\ ReadSince("versions", snap.versions, snap.loadedAt)
    /\ ReadSince("flags", snap.flags, snap.loadedAt)

StateOK(state, failed, began) ==
    ~failed /\ state # {} => \E v \in VersionRows :
        Held("versions", v, began - CacheTTL + 1) /\ state = {UpdateState(v)}

FlagOK(flag, failed, began) ==
    ~failed /\ flag # {} => \E f \in FlagRows :
        Held("flags", f, began - CacheTTL + 1) /\ flag = {RolledOut(f)}

\* The load of a request is stamped when it begins, and not before the request.
DraftOK(phase, draft, began) ==
    /\ phase \in {"versions", "flags", "store"} =>
          draft.loadedAt \in Times /\ draft.loadedAt >= began /\ draft.loadedAt <= configTime
    /\ phase \in {"flags", "store"} => ReadSince("versions", draft.versions, draft.loadedAt)
    /\ phase = "store" => ReadSince("flags", draft.flags, draft.loadedAt)

\* The row of a request and what is true of its fields.
Reader(phase, kind, at, began, draft, state, flag, failed) ==
    [phase |-> phase, kind |-> kind, at |-> at, began |-> began, draft |-> draft,
     state |-> state, flag |-> flag, failed |-> failed]

FieldsOK(phase, kind, at, began, draft, state, flag, failed) ==
    /\ phase \in Phases /\ kind \in Kinds /\ failed \in BOOLEAN
    /\ began \in Times /\ began <= configTime
    /\ state \subseteq States /\ flag \subseteq BOOLEAN
    /\ phase = "idle" => state = {} /\ flag = {}
    /\ phase # "idle" => at \in Instances
    /\ StateOK(state, failed, began) /\ FlagOK(flag, failed, began)
    /\ DraftOK(phase, draft, began)

ReaderOK(q) ==
    \E phase, kind, at, began, draft, state, flag, failed :
        /\ q = Reader(phase, kind, at, began, draft, state, flag, failed)
        /\ FieldsOK(phase, kind, at, began, draft, state, flag, failed)

ConfigTyped ==
    /\ configTime \in Times
    /\ rows \in [Tables -> Seq(Versionings)]
    /\ snaps = [i \in Instances |-> snaps[i]]
    /\ readers = [r \in ConfigReaders |-> readers[r]]
    /\ toEmpty \subseteq Instances

ConfigInv ==
    /\ ConfigTyped
    /\ \A t \in Tables : HistoryOK(t)
    /\ \A i \in Instances : snaps[i] = NoSnapshot \/ SnapReads(snaps[i])
    /\ \A r \in ConfigReaders : ReaderOK(readers[r])

-----------------------------------------------------------------------------
\* The fields of a request's row.
LEMMA ReaderFields ==
    ASSUME NEW p, NEW k, NEW a, NEW b, NEW d, NEW s, NEW f, NEW x
    PROVE  LET q == Reader(p, k, a, b, d, s, f, x) IN
           /\ q.phase = p /\ q.kind = k /\ q.at = a /\ q.began = b
           /\ q.draft = d /\ q.state = s /\ q.flag = f /\ q.failed = x
BY DEF Reader

\* What was read since a time was read since an earlier one.
LEMMA HeldEarlier ==
    ASSUME ConfigInv, NEW t \in Tables, NEW row, NEW since \in Int, NEW before \in Int,
           before <= since, Held(t, row, since)
    PROVE  Held(t, row, before)
<1>1. PICK n \in 1 .. Len(rows[t]) : rows[t][n].row = row /\ (n = Len(rows[t]) \/ rows[t][n + 1].since >= since)
  BY DEF Held
<1>2. rows[t] \in Seq(Versionings)
  BY DEF ConfigInv, ConfigTyped
<1>3. n # Len(rows[t]) => rows[t][n + 1] \in Versionings
  BY <1>2
<1>4. n # Len(rows[t]) => rows[t][n + 1].since \in Int
  BY <1>3 DEF Versionings, Times
<1> QED
  BY SMTT(60), <1>1, <1>4 DEF Held

LEMMA CurrentIsHeld ==
    ASSUME ConfigInv, NEW t \in Tables, NEW since
    PROVE  ReadSince(t, Current(t), since)
<1>1. rows[t] \in Seq(Versionings) /\ HistoryOK(t)
  BY DEF ConfigInv, ConfigTyped
<1>2. Len(rows[t]) \in 1 .. Len(rows[t])
  BY <1>1 DEF HistoryOK
<1> QED
  BY <1>1, <1>2 DEF Held, Current, ReadSince, HistoryOK

\* A request that is on an instance, whatever it has read.
Answerable(q) ==
    \E phase, kind, at, began, draft, state, flag, failed :
        /\ q = Reader(phase, kind, at, began, draft, state, flag, failed)
        /\ FieldsOK("done", kind, at, began, draft, state, flag, failed)

\* A request goes on with a snapshot that is young enough for it.
LEMMA WithIsOK ==
    ASSUME ConfigInv, NEW q, Answerable(q),
           NEW snap, SnapReads(snap), snap.loadedAt >= q.began - CacheTTL + 1
    PROVE  ReaderOK(With(q, snap))
<1>1. PICK p, k, a, b, d, s, f, x : q = Reader(p, k, a, b, d, s, f, x) /\ FieldsOK("done", k, a, b, d, s, f, x)
  BY DEF Answerable
<1>2. q.phase = p /\ q.began = b /\ q.at = a
  BY <1>1, ReaderFields
<1>s. PICK state : state = {UpdateState(snap.versions)}
  OBVIOUS
<1>f. PICK flag : flag = {RolledOut(snap.flags)}
  OBVIOUS
<1>v. PICK vx : vx = (x \/ snap.versions = NoRow)
  OBVIOUS
<1>x. PICK fx : fx = (x \/ snap.flags = NoRow)
  OBVIOUS
<1>n. PICK next : next = IF snap.flags = NoRow THEN "done" ELSE "again"
  OBVIOUS
<1> DEFINE since == b - CacheTTL + 1
<1>3. /\ a \in Instances /\ k \in Kinds /\ x \in BOOLEAN /\ b \in Times /\ b <= configTime
      /\ s \subseteq States /\ f \subseteq BOOLEAN /\ StateOK(s, x, b) /\ FlagOK(f, x, b)
  BY <1>1, <1>2 DEF FieldsOK
<1>4. since \in Int /\ snap.loadedAt \in Int /\ since <= snap.loadedAt
  BY <1>2, <1>3, ConfigAssumption DEF SnapReads, Times
<1>5. state \subseteq States
  BY <1>s DEF UpdateState, States
<1>6. flag \subseteq BOOLEAN
  BY <1>f DEF RolledOut
<1>7. vx \in BOOLEAN /\ fx \in BOOLEAN
  BY <1>v, <1>x
<1>8. StateOK(state, vx, b)
  <2> SUFFICES ASSUME ~vx
               PROVE  \E v \in VersionRows : Held("versions", v, since) /\ state = {UpdateState(v)}
    BY <1>3 DEF StateOK
  <2>1. snap.versions \in VersionRows /\ Held("versions", snap.versions, snap.loadedAt)
    BY <1>v DEF SnapReads, ReadSince, Contents, Tables
  <2>2. Held("versions", snap.versions, since)
    BY <1>4, <2>1, HeldEarlier DEF Tables
  <2> QED
    BY <2>1, <2>2, <1>s
<1>9. FlagOK(flag, fx, b)
  <2> SUFFICES ASSUME ~fx
               PROVE  \E v \in FlagRows : Held("flags", v, since) /\ flag = {RolledOut(v)}
    BY DEF FlagOK
  <2>1. snap.flags \in FlagRows /\ Held("flags", snap.flags, snap.loadedAt)
    BY <1>x DEF SnapReads, ReadSince, Contents, Tables
  <2>2. Held("flags", snap.flags, since)
    BY <1>4, <2>1, HeldEarlier DEF Tables
  <2> QED
    BY <2>1, <2>2, <1>f
<1>10. FlagOK(f, vx, b) /\ StateOK(s, fx, b)
  BY <1>3, <1>v, <1>x DEF FlagOK, StateOK
<1> HIDE DEF since
<1>11. next \in {"done", "again"}
  BY <1>n
<1>12. FieldsOK("done", k, a, b, d, state, f, vx)
  BY <1>3, <1>5, <1>7, <1>8, <1>10 DEF FieldsOK, DraftOK, Phases
<1>13. FieldsOK(next, k, a, b, d, state, f, vx)
  BY <1>3, <1>5, <1>7, <1>8, <1>10, <1>11 DEF FieldsOK, DraftOK, Phases
<1>14. FieldsOK("done", k, a, b, d, s, flag, fx)
  BY <1>3, <1>6, <1>7, <1>9, <1>10 DEF FieldsOK, DraftOK, Phases
<1>15. /\ k = "gate" => With(q, snap) = Reader("done", k, a, b, d, state, f, vx)
       /\ k = "config" /\ s = {} => With(q, snap) = Reader(next, k, a, b, d, state, f, vx)
       /\ k # "gate" /\ ~(k = "config" /\ s = {}) => With(q, snap) = Reader("done", k, a, b, d, s, flag, fx)
  <2> DEFINE done == "done"
             versions == [q EXCEPT !.state = state, !.failed = @ \/ snap.versions = NoRow]
  <2>0. q.kind = k /\ q.state = s /\ q.failed = x
    BY <1>1, ReaderFields
  <2>1. With(q, snap) =
          CASE q.kind = "gate" -> [versions EXCEPT !.phase = done]
            [] q.kind = "config" /\ q.state = {} -> [versions EXCEPT !.phase = next]
            [] OTHER -> [q EXCEPT !.flag = flag, !.phase = done, !.failed = @ \/ snap.flags = NoRow]
    BY <1>s, <1>f, <1>n, Zenon DEF With
  <2>2. versions = [[q EXCEPT !.state = state] EXCEPT !.failed = vx]
    BY <2>0, <1>v, <1>x, Zenon
  <2>3. [q EXCEPT !.flag = flag, !.phase = done, !.failed = @ \/ snap.flags = NoRow] =
          [[[q EXCEPT !.flag = flag] EXCEPT !.phase = done] EXCEPT !.failed = fx]
    BY <2>0, <1>v, <1>x, Zenon
  <2> HIDE DEF done
  <2>q. q = Reader(p, k, a, b, d, s, f, x)
    BY <1>1
  <2> USE DEF Reader
  <2>a. [Reader(p, k, a, b, d, s, f, x) EXCEPT !.state = state] = Reader(p, k, a, b, d, state, f, x)
    OBVIOUS
  <2>b. [Reader(p, k, a, b, d, state, f, x) EXCEPT !.failed = vx] = Reader(p, k, a, b, d, state, f, vx)
    OBVIOUS
  <2>c. [Reader(p, k, a, b, d, s, f, x) EXCEPT !.flag = flag] = Reader(p, k, a, b, d, s, flag, x)
    OBVIOUS
  <2>d. [Reader(p, k, a, b, d, s, flag, x) EXCEPT !.phase = done] = Reader(done, k, a, b, d, s, flag, x)
    OBVIOUS
  <2>e. [Reader(done, k, a, b, d, s, flag, x) EXCEPT !.failed = fx] = Reader(done, k, a, b, d, s, flag, fx)
    OBVIOUS
  <2>f. [Reader(p, k, a, b, d, state, f, vx) EXCEPT !.phase = done] = Reader(done, k, a, b, d, state, f, vx)
    OBVIOUS
  <2>g. [Reader(p, k, a, b, d, state, f, vx) EXCEPT !.phase = next] = Reader(next, k, a, b, d, state, f, vx)
    OBVIOUS
  <2> HIDE DEF Reader
  <2>h. [q EXCEPT !.state = state] = Reader(p, k, a, b, d, state, f, x)
    BY ONLY <2>q, <2>a, Zenon
  <2>4. versions = Reader(p, k, a, b, d, state, f, vx)
    <3>1. versions = [Reader(p, k, a, b, d, state, f, x) EXCEPT !.failed = vx]
      BY ONLY <2>2, <2>h, Zenon
    <3> QED
      BY ONLY <3>1, <2>b, Zenon
  <2>5. [q EXCEPT !.flag = flag, !.phase = done, !.failed = @ \/ snap.flags = NoRow] =
          Reader(done, k, a, b, d, s, flag, fx)
    <3>1. [q EXCEPT !.flag = flag] = Reader(p, k, a, b, d, s, flag, x)
      BY ONLY <2>q, <2>c, Zenon
    <3>2. [[q EXCEPT !.flag = flag] EXCEPT !.phase = done] = Reader(done, k, a, b, d, s, flag, x)
      BY ONLY <3>1, <2>d, Zenon
    <3>3. [[[q EXCEPT !.flag = flag] EXCEPT !.phase = done] EXCEPT !.failed = fx] =
            Reader(done, k, a, b, d, s, flag, fx)
      BY ONLY <3>2, <2>e, Zenon
    <3> QED
      BY ONLY <2>3, <3>3, Zenon
  <2> HIDE DEF versions
  <2>6. /\ [versions EXCEPT !.phase = done] = Reader(done, k, a, b, d, state, f, vx)
        /\ [versions EXCEPT !.phase = next] = Reader(next, k, a, b, d, state, f, vx)
    BY ONLY <2>4, <2>f, <2>g, Zenon
  <2>7. k = "gate" => With(q, snap) = Reader(done, k, a, b, d, state, f, vx)
    BY <2>0, <2>1, <2>6
  <2>8. k = "config" /\ s = {} => With(q, snap) = Reader(next, k, a, b, d, state, f, vx)
    BY <2>0, <2>1, <2>6
  <2>9. k # "gate" /\ ~(k = "config" /\ s = {}) => With(q, snap) = Reader(done, k, a, b, d, s, flag, fx)
    BY <2>0, <2>1, <2>5
  <2> QED
    BY <2>7, <2>8, <2>9, Zenon DEF done
<1> QED
  BY <1>12, <1>13, <1>14, <1>15 DEF ReaderOK

\* load: a young snapshot, or the begin of a load.
LEMMA LoadedIsOK ==
    ASSUME ConfigInv, NEW q, ReaderOK(q), q.at \in Instances
    PROVE  ReaderOK(Loaded(q))
<1>1. PICK p, k, a, b, d, s, f, x : q = Reader(p, k, a, b, d, s, f, x) /\ FieldsOK(p, k, a, b, d, s, f, x)
  BY DEF ReaderOK
<1>2. q.phase = p /\ q.began = b /\ q.at = a
  BY <1>1, ReaderFields
<1>3. a \in Instances /\ b \in Times /\ b <= configTime /\ configTime \in Times
  BY <1>1, <1>2 DEF FieldsOK, ConfigInv, ConfigTyped
<1>4. CASE Fresh(snaps[a])
  <2>1. SnapReads(snaps[a]) /\ configTime - snaps[a].loadedAt < CacheTTL
    BY <1>3, <1>4 DEF ConfigInv, Fresh
  <2>2. snaps[a].loadedAt >= q.began - CacheTTL + 1
    BY <1>2, <1>3, <2>1, ConfigAssumption DEF SnapReads, Times
  <2>3. Loaded(q) = With(q, snaps[a])
    BY <1>2, <1>4 DEF Loaded
  <2>4. Answerable(q)
    BY <1>1, <1>3 DEF Answerable, FieldsOK, DraftOK, Phases
  <2> QED
    BY <2>1, <2>2, <2>3, <2>4, WithIsOK
<1>5. CASE ~Fresh(snaps[a])
  <2> DEFINE draft == [loadedAt |-> configTime]
             phase == "versions"
  <2>1. Loaded(q) = [q EXCEPT !.phase = phase, !.draft = draft]
    BY <1>2, <1>5 DEF Loaded
  <2>2. Loaded(q) = [[q EXCEPT !.phase = phase] EXCEPT !.draft = draft]
    BY <2>1, Zenon
  <2>3. FieldsOK(phase, k, a, b, draft, s, f, x)
    BY <1>1, <1>3 DEF FieldsOK, DraftOK, Phases, Times
  <2> HIDE DEF draft, phase
  <2>4. [Reader(p, k, a, b, d, s, f, x) EXCEPT !.phase = phase] = Reader(phase, k, a, b, d, s, f, x)
    BY DEF Reader
  <2>5. [Reader(phase, k, a, b, d, s, f, x) EXCEPT !.draft = draft] = Reader(phase, k, a, b, draft, s, f, x)
    BY DEF Reader
  <2>6. [q EXCEPT !.phase = phase] = Reader(phase, k, a, b, d, s, f, x)
    BY ONLY <1>1, <2>4, Zenon
  <2>7. Loaded(q) = Reader(phase, k, a, b, draft, s, f, x)
    BY ONLY <2>2, <2>5, <2>6, Zenon
  <2> QED
    BY <2>3, <2>7 DEF ReaderOK
<1> QED
  BY <1>4, <1>5

\* A step of one request.
LEMMA ReaderStep ==
    ASSUME ConfigInv, NEW r \in ConfigReaders, NEW q, ReaderOK(q),
           readers' = [readers EXCEPT ![r] = q], UNCHANGED <<configTime, rows, toEmpty>>,
           snaps' = [i \in Instances |-> snaps'[i]],
           \A i \in Instances : snaps'[i] = NoSnapshot \/ SnapReads(snaps'[i])
    PROVE  ConfigInv'
<1>1. readers' = [x \in ConfigReaders |-> IF x = r THEN q ELSE readers[x]]
  BY DEF ConfigInv, ConfigTyped
<1>2. ConfigTyped'
  BY <1>1 DEF ConfigInv, ConfigTyped
<1>3. (\A t \in Tables : HistoryOK(t))'
  BY DEF ConfigInv, HistoryOK
<1>4. (\A i \in Instances : snaps[i] = NoSnapshot \/ SnapReads(snaps[i]))'
  BY DEF SnapReads, ReadSince, Held
<1>5. ASSUME NEW y \in ConfigReaders
      PROVE  ReaderOK(readers[y])'
  <2>1. readers'[y] = IF y = r THEN q ELSE readers[y]
    BY <1>1
  <2>2. ReaderOK(readers'[y])
    BY <2>1 DEF ConfigInv
  <2>3. PICK z : z = readers'[y]
    OBVIOUS
  <2>4. PICK p, k, a, b, d, s, f, x : z = Reader(p, k, a, b, d, s, f, x) /\ FieldsOK(p, k, a, b, d, s, f, x)
    BY <2>2, <2>3 DEF ReaderOK
  <2>5. FieldsOK(p, k, a, b, d, s, f, x)'
    BY SMTT(60), <2>4 DEF FieldsOK, StateOK, FlagOK, DraftOK, ReadSince, Held
  <2> QED
    BY <2>3, <2>4, <2>5 DEF ReaderOK
<1> QED
  BY <1>2, <1>3, <1>4, <1>5 DEF ConfigInv

LEMMA AskStep ==
    ASSUME ConfigInv, NEW r \in ConfigReaders, NEW kind \in Kinds, NEW i \in Instances, Ask(r, kind, i)
    PROVE  ConfigInv'
<1>1. PICK q : q = readers[r]
  OBVIOUS
<1>2. PICK p, k, a, b, d, s, f, x : q = Reader(p, k, a, b, d, s, f, x) /\ FieldsOK(p, k, a, b, d, s, f, x)
  BY <1>1 DEF ConfigInv, ReaderOK
<1>3. p = "idle" /\ UNCHANGED <<configTime, rows, snaps, toEmpty>>
  BY <1>1, <1>2, ReaderFields DEF Ask
<1>4. PICK now : now = configTime
  OBVIOUS
<1>5. PICK new : new = [q EXCEPT !.kind = kind, !.at = i, !.began = now]
  OBVIOUS
<1>6. readers' = [readers EXCEPT ![r] = Loaded(new)]
  BY <1>1, <1>4, <1>5 DEF Ask
<1>7. new = Reader(p, kind, i, now, d, s, f, x)
  <2>1. new = [[[q EXCEPT !.kind = kind] EXCEPT !.at = i] EXCEPT !.began = now]
    BY <1>5, Zenon
  <2>2. [Reader(p, k, a, b, d, s, f, x) EXCEPT !.kind = kind] = Reader(p, kind, a, b, d, s, f, x)
    BY DEF Reader
  <2>3. [Reader(p, kind, a, b, d, s, f, x) EXCEPT !.at = i] = Reader(p, kind, i, b, d, s, f, x)
    BY DEF Reader
  <2>4. [Reader(p, kind, i, b, d, s, f, x) EXCEPT !.began = now] = Reader(p, kind, i, now, d, s, f, x)
    BY DEF Reader
  <2>5. [q EXCEPT !.kind = kind] = Reader(p, kind, a, b, d, s, f, x)
    BY ONLY <1>2, <2>2, Zenon
  <2>6. [[q EXCEPT !.kind = kind] EXCEPT !.at = i] = Reader(p, kind, i, b, d, s, f, x)
    BY ONLY <2>3, <2>5, Zenon
  <2> QED
    BY ONLY <2>1, <2>4, <2>6, Zenon
<1>8. s = {} /\ f = {} /\ x \in BOOLEAN /\ now \in Times
  BY <1>2, <1>3, <1>4 DEF FieldsOK, ConfigInv, ConfigTyped
<1>9. FieldsOK(p, kind, i, now, d, s, f, x)
  BY <1>3, <1>4, <1>8 DEF FieldsOK, StateOK, FlagOK, DraftOK, Phases, Times
<1>10. ReaderOK(new)
  BY <1>7, <1>9 DEF ReaderOK
<1>11. new.at = i
  BY <1>7, ReaderFields
<1>12. ReaderOK(Loaded(new))
  BY <1>10, <1>11, LoadedIsOK
<1>13. snaps' = [j \in Instances |-> snaps'[j]] /\ \A j \in Instances : snaps'[j] = NoSnapshot \/ SnapReads(snaps'[j])
  BY <1>3 DEF ConfigInv, ConfigTyped
<1> HIDE DEF ReaderOK
<1>14. PICK z : z = Loaded(new)
  OBVIOUS
<1> QED
  BY <1>3, <1>6, <1>12, <1>13, <1>14, ReaderStep

LEMMA AskAgainStep ==
    ASSUME ConfigInv, NEW r \in ConfigReaders, AskAgain(r)
    PROVE  ConfigInv'
<1>1. PICK q : q = readers[r]
  OBVIOUS
<1>2. ReaderOK(q) /\ q.phase = "again" /\ UNCHANGED <<configTime, rows, snaps, toEmpty>>
  BY <1>1 DEF AskAgain, ConfigInv
<1>3. PICK z : z = Loaded(q)
  OBVIOUS
<1>4. q.at \in Instances
  BY <1>2, ReaderFields DEF ReaderOK, FieldsOK
<1>5. ReaderOK(z) /\ readers' = [readers EXCEPT ![r] = z]
  BY <1>1, <1>2, <1>3, <1>4, LoadedIsOK DEF AskAgain
<1>6. snaps' = [j \in Instances |-> snaps'[j]] /\ \A j \in Instances : snaps'[j] = NoSnapshot \/ SnapReads(snaps'[j])
  BY <1>2 DEF ConfigInv, ConfigTyped
<1> QED
  BY <1>2, <1>5, <1>6, ReaderStep

\* The two queries of a load.
LEMMA QueryStep ==
    ASSUME ConfigInv, NEW r \in ConfigReaders, ReadVersions(r) \/ ReadFlags(r)
    PROVE  ConfigInv'
<1>1. PICK q : q = readers[r]
  OBVIOUS
<1>2. PICK p, k, a, b, d, s, f, x : q = Reader(p, k, a, b, d, s, f, x) /\ FieldsOK(p, k, a, b, d, s, f, x)
  BY <1>1 DEF ConfigInv, ReaderOK
<1>3. q.phase = p /\ q.draft = d
  BY <1>2, ReaderFields
<1>4. UNCHANGED <<configTime, rows, snaps, toEmpty>>
  BY DEF ReadVersions, ReadFlags
<1>5. snaps' = [j \in Instances |-> snaps'[j]] /\ \A j \in Instances : snaps'[j] = NoSnapshot \/ SnapReads(snaps'[j])
  BY <1>4 DEF ConfigInv, ConfigTyped
<1>6. ASSUME NEW next, NEW draft,
             readers' = [readers EXCEPT ![r].phase = next, ![r].draft = draft]
      PROVE  readers' = [readers EXCEPT ![r] = Reader(next, k, a, b, draft, s, f, x)]
  <2>1. [q EXCEPT !.phase = next] = Reader(next, k, a, b, d, s, f, x)
    BY <1>2 DEF Reader
  <2>2. [Reader(next, k, a, b, d, s, f, x) EXCEPT !.draft = draft] = Reader(next, k, a, b, draft, s, f, x)
    BY DEF Reader
  <2>3. readers' = [[readers EXCEPT ![r].phase = next] EXCEPT ![r].draft = draft]
    BY <1>6, Zenon
  <2> DEFINE m == Reader(next, k, a, b, d, s, f, x)
             z == Reader(next, k, a, b, draft, s, f, x)
  <2> HIDE DEF m, z
  <2>4. [readers EXCEPT ![r].phase = next] = [readers EXCEPT ![r] = m]
    BY <1>1, <2>1 DEF m
  <2>5. [[readers EXCEPT ![r] = m] EXCEPT ![r].draft = draft] = [readers EXCEPT ![r] = [m EXCEPT !.draft = draft]]
    BY DEF ConfigInv, ConfigTyped
  <2> QED
    BY <2>2, <2>3, <2>4, <2>5 DEF m, z
<1>7. CASE ReadVersions(r)
  <2>1. PICK v \in {Current("versions"), NoRow} :
          readers' = [readers EXCEPT ![r].phase = "flags", ![r].draft = [loadedAt |-> d.loadedAt, versions |-> v]]
    BY <1>1, <1>3, <1>7 DEF ReadVersions
  <2>2. PICK draft : draft = [loadedAt |-> d.loadedAt, versions |-> v]
    OBVIOUS
  <2>3. readers' = [readers EXCEPT ![r] = Reader("flags", k, a, b, draft, s, f, x)]
    BY <1>6, <2>1, <2>2
  <2>4. p = "versions"
    BY <1>1, <1>3, <1>7 DEF ReadVersions
  <2>5. ReadSince("versions", v, d.loadedAt)
    BY CurrentIsHeld DEF ReadSince, Tables
  <2>6. FieldsOK("flags", k, a, b, draft, s, f, x)
    BY <1>2, <2>2, <2>4, <2>5 DEF FieldsOK, DraftOK, Phases
  <2>7. PICK z : z = Reader("flags", k, a, b, draft, s, f, x)
    OBVIOUS
  <2>8. ReaderOK(z)
    BY <2>6, <2>7 DEF ReaderOK
  <2> QED
    BY <1>4, <1>5, <2>3, <2>7, <2>8, ReaderStep
<1>8. CASE ReadFlags(r)
  <2>1. PICK v \in {Current("flags"), NoRow} :
          readers' = [readers EXCEPT ![r].phase = "store",
                         ![r].draft = [loadedAt |-> d.loadedAt, versions |-> d.versions, flags |-> v]]
    BY <1>1, <1>3, <1>8 DEF ReadFlags
  <2>2. PICK draft : draft = [loadedAt |-> d.loadedAt, versions |-> d.versions, flags |-> v]
    OBVIOUS
  <2>3. readers' = [readers EXCEPT ![r] = Reader("store", k, a, b, draft, s, f, x)]
    BY <1>6, <2>1, <2>2
  <2>4. p = "flags"
    BY <1>1, <1>3, <1>8 DEF ReadFlags
  <2>5. ReadSince("flags", v, d.loadedAt)
    BY CurrentIsHeld DEF ReadSince, Tables
  <2>6. FieldsOK("store", k, a, b, draft, s, f, x)
    BY <1>2, <2>2, <2>4, <2>5 DEF FieldsOK, DraftOK, Phases
  <2>7. PICK z : z = Reader("store", k, a, b, draft, s, f, x)
    OBVIOUS
  <2>8. ReaderOK(z)
    BY <2>6, <2>7 DEF ReaderOK
  <2> QED
    BY <1>4, <1>5, <2>3, <2>7, <2>8, ReaderStep
<1> QED
  BY <1>7, <1>8

LEMMA StoreStep ==
    ASSUME ConfigInv, NEW r \in ConfigReaders, Store(r)
    PROVE  ConfigInv'
<1>1. PICK q : q = readers[r]
  OBVIOUS
<1>2. PICK p, k, a, b, d, s, f, x : q = Reader(p, k, a, b, d, s, f, x) /\ FieldsOK(p, k, a, b, d, s, f, x)
  BY <1>1 DEF ConfigInv, ReaderOK
<1>3. q.phase = p /\ q.draft = d /\ q.at = a
  BY <1>2, ReaderFields
<1>4. p = "store" /\ UNCHANGED <<configTime, rows, toEmpty>> /\ snaps' = [snaps EXCEPT ![a] = d]
  BY <1>1, <1>3 DEF Store
<1>5. PICK w : w = Reader(p, k, a, b, NoSnapshot, s, f, x)
  OBVIOUS
<1>6. [q EXCEPT !.draft = NoSnapshot] = w
  BY <1>2, <1>5 DEF Reader
<1>7. PICK z : z = With(w, d)
  OBVIOUS
<1>8. readers' = [readers EXCEPT ![r] = z]
  BY <1>1, <1>3, <1>6, <1>7 DEF Store
<1>9. SnapReads(d) /\ a \in Instances /\ b \in Times /\ d.loadedAt >= b
  BY <1>2, <1>4 DEF FieldsOK, DraftOK, SnapReads
<1>10. FieldsOK("done", k, a, b, NoSnapshot, s, f, x)
  BY <1>2, <1>9 DEF FieldsOK, DraftOK, Phases
<1>11. Answerable(w)
  BY <1>5, <1>10 DEF Answerable
<1>12. w.began = b
  BY <1>5, ReaderFields
<1>13. d.loadedAt >= w.began - CacheTTL + 1
  BY <1>9, <1>12, ConfigAssumption DEF SnapReads, Times
<1>14. ReaderOK(z)
  BY <1>7, <1>9, <1>11, <1>13, WithIsOK
<1>15. snaps' = [j \in Instances |-> snaps'[j]] /\ \A j \in Instances : snaps'[j] = NoSnapshot \/ SnapReads(snaps'[j])
  <2>1. snaps' = [j \in Instances |-> IF j = a THEN d ELSE snaps[j]]
    BY <1>4 DEF ConfigInv, ConfigTyped
  <2> QED
    BY <2>1, <1>9 DEF ConfigInv
<1> QED
  BY <1>4, <1>8, <1>14, <1>15, ReaderStep

LEMMA LoadFailsStep ==
    ASSUME ConfigInv, NEW r \in ConfigReaders, LoadFails(r)
    PROVE  ConfigInv'
<1>1. PICK q : q = readers[r]
  OBVIOUS
<1>2. PICK p, k, a, b, d, s, f, x : q = Reader(p, k, a, b, d, s, f, x) /\ FieldsOK(p, k, a, b, d, s, f, x)
  BY <1>1 DEF ConfigInv, ReaderOK
<1>3. q.phase = p
  BY <1>2, ReaderFields
<1>4. UNCHANGED <<configTime, rows, snaps, toEmpty>> /\ p # "idle" /\ a \in Instances
  BY <1>1, <1>2, <1>3 DEF LoadFails, FieldsOK
<1> DEFINE yes == TRUE
           done == "done"
           ok == {"ok"}
           off == {FALSE}
<1>5. PICK u : u = [q EXCEPT !.phase = done, !.draft = NoSnapshot, !.failed = yes]
  OBVIOUS
<1>6. readers' = [readers EXCEPT ![r] =
        IF u.kind = "gate" THEN [u EXCEPT !.state = ok]
        ELSE IF u.kind = "enabled" \/ u.state # {} THEN [u EXCEPT !.flag = off]
        ELSE u]
  BY <1>1, <1>5, Zenon DEF LoadFails
<1>7. ok \subseteq States /\ off \subseteq BOOLEAN /\ done \in Phases /\ yes \in BOOLEAN
  BY DEF States, Phases
<1>8. ASSUME NEW state \in SUBSET States, NEW flag \in SUBSET BOOLEAN
      PROVE  FieldsOK(done, k, a, b, NoSnapshot, state, flag, yes)
  BY <1>2, <1>4 DEF FieldsOK, StateOK, FlagOK, DraftOK, Phases
<1> HIDE DEF yes, done, ok, off
<1>9. u = Reader(done, k, a, b, NoSnapshot, s, f, yes)
  <2>1. u = [[[q EXCEPT !.phase = done] EXCEPT !.draft = NoSnapshot] EXCEPT !.failed = yes]
    BY <1>5, Zenon
  <2>2. [Reader(p, k, a, b, d, s, f, x) EXCEPT !.phase = done] = Reader(done, k, a, b, d, s, f, x)
    BY DEF Reader
  <2>3. [Reader(done, k, a, b, d, s, f, x) EXCEPT !.draft = NoSnapshot] = Reader(done, k, a, b, NoSnapshot, s, f, x)
    BY DEF Reader
  <2>4. [Reader(done, k, a, b, NoSnapshot, s, f, x) EXCEPT !.failed = yes] = Reader(done, k, a, b, NoSnapshot, s, f, yes)
    BY DEF Reader
  <2>5. [q EXCEPT !.phase = done] = Reader(done, k, a, b, d, s, f, x)
    BY ONLY <1>2, <2>2, Zenon
  <2>6. [[q EXCEPT !.phase = done] EXCEPT !.draft = NoSnapshot] = Reader(done, k, a, b, NoSnapshot, s, f, x)
    BY ONLY <2>3, <2>5, Zenon
  <2> QED
    BY ONLY <2>1, <2>4, <2>6, Zenon
<1>10. [u EXCEPT !.state = ok] = Reader(done, k, a, b, NoSnapshot, ok, f, yes)
  BY <1>9 DEF Reader
<1>11. [u EXCEPT !.flag = off] = Reader(done, k, a, b, NoSnapshot, s, off, yes)
  BY <1>9 DEF Reader
<1>12. s \subseteq States /\ f \subseteq BOOLEAN
  BY <1>2 DEF FieldsOK
<1>13. ReaderOK(u) /\ ReaderOK([u EXCEPT !.state = ok]) /\ ReaderOK([u EXCEPT !.flag = off])
  BY <1>7, <1>8, <1>9, <1>10, <1>11, <1>12 DEF ReaderOK
<1>14. PICK z : z = IF u.kind = "gate" THEN [u EXCEPT !.state = ok]
                    ELSE IF u.kind = "enabled" \/ u.state # {} THEN [u EXCEPT !.flag = off]
                    ELSE u
  OBVIOUS
<1>15. ReaderOK(z) /\ readers' = [readers EXCEPT ![r] = z]
  BY <1>6, <1>13, <1>14
<1>16. snaps' = [j \in Instances |-> snaps'[j]] /\ \A j \in Instances : snaps'[j] = NoSnapshot \/ SnapReads(snaps'[j])
  BY <1>4 DEF ConfigInv, ConfigTyped
<1> QED
  BY <1>4, <1>15, <1>16, ReaderStep

-----------------------------------------------------------------------------
\* Time passes and rows get newer; what was held is held.
LEMMA LaterIsOK ==
    ASSUME ConfigInv, configTime' \in Times, configTime' >= configTime, UNCHANGED readers,
           rows' \in [Tables -> Seq(Versionings)],
           \A t \in Tables : Len(rows'[t]) > 0,
           \A t \in Tables : \A n \in 1 .. Len(rows'[t]) :
               rows'[t][n].row \in Contents[t] /\ rows'[t][n].since <= configTime',
           \A t \in Tables, since \in Int : \A row :
               since <= configTime /\ Held(t, row, since) => Held(t, row, since)',
           toEmpty' \subseteq Instances, snaps' = [i \in Instances |-> snaps'[i]],
           \A i \in Instances : snaps'[i] = NoSnapshot \/ snaps'[i] = snaps[i]
    PROVE  ConfigInv'
<1>1. ConfigTyped'
  BY DEF ConfigInv, ConfigTyped
<1>2. (\A t \in Tables : HistoryOK(t))'
  BY DEF HistoryOK
<1>3. configTime \in Int /\ configTime' \in Int
  BY DEF ConfigInv, ConfigTyped, Times
<1>4. ASSUME NEW t \in Tables, NEW row, NEW since \in Int, since <= configTime, ReadSince(t, row, since)
      PROVE  ReadSince(t, row, since)'
  BY <1>4 DEF ReadSince
<1>5. ASSUME NEW i \in Instances
      PROVE  (snaps[i] = NoSnapshot \/ SnapReads(snaps[i]))'
  <2>1. PICK snap : snap = snaps[i]
    OBVIOUS
  <2>2. CASE snaps'[i] = snap /\ SnapReads(snap)
    <3>1. SnapReads(snap)'
      BY <1>3, <1>4, <2>2 DEF SnapReads, Times, Tables
    <3> QED
      BY <2>2, <3>1 DEF SnapReads
  <2> QED
    BY <2>1, <2>2 DEF ConfigInv
<1>6. ASSUME NEW r \in ConfigReaders
      PROVE  ReaderOK(readers[r])'
  <2>1. PICK q : q = readers[r]
    OBVIOUS
  <2>2. PICK p, k, a, b, d, s, f, x : q = Reader(p, k, a, b, d, s, f, x) /\ FieldsOK(p, k, a, b, d, s, f, x)
    BY <2>1 DEF ConfigInv, ReaderOK
  <2>3. b \in Int /\ b <= configTime /\ b - CacheTTL + 1 \in Int /\ b - CacheTTL + 1 <= configTime
    BY <1>3, <2>2, ConfigAssumption DEF FieldsOK, Times
  <2>4. StateOK(s, x, b)' /\ FlagOK(f, x, b)'
    BY <2>2, <2>3 DEF FieldsOK, StateOK, FlagOK, Tables
  <2>5. DraftOK(p, d, b)'
    BY <1>3, <1>4, <2>2 DEF FieldsOK, DraftOK, Times, Tables
  <2>6. FieldsOK(p, k, a, b, d, s, f, x)'
    BY <1>3, <2>2, <2>3, <2>4, <2>5 DEF FieldsOK
  <2> QED
    BY <2>1, <2>2, <2>6 DEF ReaderOK
<1> QED
  BY <1>1, <1>2, <1>5, <1>6 DEF ConfigInv

\* Steps that leave the rows alone.
LEMMA RowsUntouched ==
    ASSUME ConfigInv, configTime' \in Times, configTime' >= configTime, UNCHANGED <<rows, readers>>,
           toEmpty' \subseteq Instances, snaps' = [i \in Instances |-> snaps'[i]],
           \A i \in Instances : snaps'[i] = NoSnapshot \/ snaps'[i] = snaps[i]
    PROVE  ConfigInv'
<1>1. rows' \in [Tables -> Seq(Versionings)] /\ \A t \in Tables : Len(rows'[t]) > 0
  BY DEF ConfigInv, ConfigTyped, HistoryOK
<1>2. ASSUME NEW t \in Tables, NEW n \in 1 .. Len(rows'[t])
      PROVE  rows'[t][n].row \in Contents[t] /\ rows'[t][n].since <= configTime'
  <2>1. n \in 1 .. Len(rows[t]) /\ rows[t] \in Seq(Versionings) /\ HistoryOK(t)
    BY DEF ConfigInv, ConfigTyped
  <2>2. rows[t][n] \in Versionings
    BY <2>1
  <2>3. rows[t][n].since \in Int /\ configTime \in Int /\ configTime' \in Int
    BY <2>2 DEF Versionings, ConfigInv, ConfigTyped, Times
  <2> QED
    BY <2>1, <2>3 DEF HistoryOK
<1>3. \A t \in Tables, since \in Int : \A row : Held(t, row, since) => Held(t, row, since)'
  BY DEF Held
<1> QED
  BY <1>1, <1>2, <1>3, LaterIsOK

\* SetVersion and SetFlag append to the history of their table.
LEMMA ChangeStep ==
    ASSUME ConfigInv, NEW t \in Tables, NEW new \in Contents[t], NEW i \in Instances, Change(t, new, i)
    PROVE  ConfigInv'
<1>1. PICK e : e = [row |-> new, since |-> configTime]
  OBVIOUS
<1>2. /\ rows' = [rows EXCEPT ![t] = Append(rows[t], e)]
      /\ toEmpty' = toEmpty \cup {i} /\ UNCHANGED <<configTime, snaps, readers>>
  BY <1>1 DEF Change
<1>3. /\ rows \in [Tables -> Seq(Versionings)] /\ configTime \in Times /\ configTime \in Int
      /\ \A x \in Tables : HistoryOK(x)
  BY DEF ConfigInv, ConfigTyped, Times
<1>4. e \in Versionings /\ e.row = new /\ e.since = configTime
  BY <1>1, <1>3 DEF Versionings, Contents
<1>5. PICK l : l = rows[t]
  OBVIOUS
<1>6. l \in Seq(Versionings)
  BY <1>3, <1>5
<1>7. /\ Append(l, e) \in Seq(Versionings) /\ Len(Append(l, e)) = Len(l) + 1 /\ Len(l) \in Nat
      /\ \A n \in 1 .. Len(l) : Append(l, e)[n] = l[n]
      /\ Append(l, e)[Len(l) + 1] = e
  BY <1>4, <1>6, AppendProperties
<1>8. /\ rows' \in [Tables -> Seq(Versionings)] /\ rows'[t] = Append(l, e)
      /\ \A x \in Tables : x # t => rows'[x] = rows[x]
  BY <1>2, <1>3, <1>5, <1>7
<1>9. ASSUME NEW x \in Tables
      PROVE  Len(rows'[x]) > 0
  <2>1. CASE x = t
    BY ONLY <1>7, <1>8, <2>1
  <2>2. CASE x # t
    BY <1>3, <1>8, <2>2 DEF HistoryOK
  <2> QED
    BY <2>1, <2>2
<1>10. ASSUME NEW x \in Tables, NEW n \in 1 .. Len(rows'[x])
       PROVE  rows'[x][n].row \in Contents[x] /\ rows'[x][n].since <= configTime'
  <2>1. CASE x # t
    BY <1>2, <1>3, <1>8, <2>1 DEF HistoryOK
  <2>2. CASE x = t /\ n = Len(l) + 1
    BY <1>2, <1>3, <1>4, <1>7, <1>8, <2>2
  <2>3. CASE x = t /\ n # Len(l) + 1
    <3>1. n \in 1 .. Len(l)
      BY <1>7, <1>8, <2>3
    <3>2. l[n].row \in Contents[t] /\ l[n].since <= configTime
      BY <1>3, <1>5, <3>1 DEF HistoryOK
    <3> QED
      BY <1>2, <1>7, <1>8, <2>3, <3>1, <3>2
  <2> QED
    BY <2>1, <2>2, <2>3
<1>11. ASSUME NEW x \in Tables, NEW since \in Int, NEW row, since <= configTime, Held(x, row, since)
       PROVE  Held(x, row, since)'
  <2>1. CASE x # t
    BY <1>8, <1>11, <2>1 DEF Held
  <2>2. CASE x = t
    <3>1. PICK n \in 1 .. Len(l) : l[n].row = row /\ (n = Len(l) \/ l[n + 1].since >= since)
      BY <1>5, <1>11, <2>2 DEF Held
    <3>2. Append(l, e)[n].row = row
      BY <1>7, <3>1
    <3>3. CASE n = Len(l)
      <4>1. Append(l, e)[n + 1].since >= since
        BY <1>3, <1>4, <1>7, <1>11, <3>3
      <4>2. n \in 1 .. Len(Append(l, e))
        BY <1>7, <3>1
      <4> QED
        BY <1>8, <2>2, <3>2, <4>1, <4>2 DEF Held
    <3>4. CASE n # Len(l)
      <4>1. n + 1 \in 1 .. Len(l) /\ n \in 1 .. Len(l) + 1
        BY <1>7, <3>1, <3>4
      <4>2. Append(l, e)[n + 1].since >= since
        BY <1>7, <3>1, <3>4, <4>1
      <4> QED
        BY <1>7, <1>8, <2>2, <3>2, <4>1, <4>2 DEF Held
    <3> QED
      BY <3>3, <3>4
  <2> QED
    BY <2>1, <2>2
<1>12. toEmpty' \subseteq Instances /\ snaps' = [j \in Instances |-> snaps'[j]]
  BY <1>2 DEF ConfigInv, ConfigTyped
<1>13. configTime' \in Times /\ configTime' >= configTime
  BY <1>2, <1>3
<1> QED
  BY <1>2, <1>8, <1>9, <1>10, <1>11, <1>12, <1>13, LaterIsOK

LEMMA ConfigStep ==
    ConfigInv /\ [ConfigNext]_configVars => ConfigInv'
<1> SUFFICES ASSUME ConfigInv, [ConfigNext]_configVars PROVE ConfigInv'
  OBVIOUS
<1>t. /\ configTime \in Times /\ configTime \in Int /\ snaps = [i \in Instances |-> snaps[i]]
      /\ toEmpty \subseteq Instances
  BY DEF ConfigInv, ConfigTyped, Times
<1>1. ASSUME NEW i \in Instances, SetVersion(i) \/ SetFlag(i)
      PROVE  ConfigInv'
  BY <1>1, ChangeStep DEF SetVersion, SetFlag, Tables, Contents
<1>2. ASSUME NEW i \in Instances, Invalidate(i)
      PROVE  ConfigInv'
  <2>1. snaps' = [j \in Instances |-> IF j = i THEN NoSnapshot ELSE snaps[j]]
    BY <1>2, <1>t DEF Invalidate
  <2>2. UNCHANGED <<configTime, rows, readers>> /\ toEmpty' \subseteq Instances
    BY <1>2, <1>t DEF Invalidate
  <2> QED
    BY <1>t, <2>1, <2>2, RowsUntouched
<1>3. CASE ConfigTick
  <2>1. UNCHANGED <<rows, snaps, readers, toEmpty>> /\ configTime' \in Times /\ configTime' >= configTime
    BY <1>3, <1>t, ConfigAssumption DEF ConfigTick, Times
  <2> QED
    BY <1>t, <2>1, RowsUntouched
<1>4. CASE UNCHANGED configVars
  BY <1>4, <1>t, RowsUntouched DEF configVars
<1> QED
  BY <1>1, <1>2, <1>3, <1>4, AskStep, AskAgainStep, QueryStep, StoreStep, LoadFailsStep
     DEF ConfigNext

LEMMA ConfigInitial ==
    ConfigInit => ConfigInv
<1> SUFFICES ASSUME ConfigInit PROVE ConfigInv
  OBVIOUS
<1> DEFINE e1 == [row |-> FirstVersions, since |-> 0]
           e2 == [row |-> FirstFlags, since |-> 0]
<1>1. configTime = 0 /\ rows = [versions |-> <<e1>>, flags |-> <<e2>>]
  BY DEF ConfigInit
<1>2. /\ 0 \in Times /\ e1 \in Versionings /\ e2 \in Versionings
      /\ e1.row = FirstVersions /\ e2.row = FirstFlags /\ e1.since = 0 /\ e2.since = 0
  BY ConfigAssumption DEF Times, Versionings
<1> HIDE DEF e1, e2
<1>3. /\ rows["versions"] = <<e1>> /\ rows["flags"] = <<e2>>
      /\ rows = [t \in Tables |-> rows[t]]
  BY <1>1 DEF Tables
<1>4. /\ <<e1>> \in Seq(Versionings) /\ <<e2>> \in Seq(Versionings)
      /\ Len(<<e1>>) = 1 /\ Len(<<e2>>) = 1 /\ <<e1>>[1] = e1 /\ <<e2>>[1] = e2
  BY <1>2
<1>5. \A t \in Tables : HistoryOK(t)
  BY SMTT(60), <1>1, <1>2, <1>3, <1>4, ConfigAssumption DEF HistoryOK, Tables, Contents
<1>6. rows \in [Tables -> Seq(Versionings)]
  BY <1>3, <1>4 DEF Tables
<1>7. ConfigTyped /\ \A i \in Instances : snaps[i] = NoSnapshot
  BY <1>1, <1>2, <1>6 DEF ConfigInit, ConfigTyped
<1>8. ASSUME NEW r \in ConfigReaders
      PROVE  ReaderOK(readers[r])
  <2>1. readers[r] = Reader("idle", "gate", NoInstance, 0, NoSnapshot, {}, {}, FALSE)
    BY DEF ConfigInit, Reader
  <2>2. FieldsOK("idle", "gate", NoInstance, 0, NoSnapshot, {}, {}, FALSE)
    BY <1>1, <1>2 DEF FieldsOK, StateOK, FlagOK, DraftOK, Phases, Kinds
  <2> QED
    BY <2>1, <2>2 DEF ReaderOK
<1> QED
  BY <1>5, <1>7, <1>8 DEF ConfigInv

LEMMA ConfigInductive ==
    ConfigSpec => []ConfigInv
BY ConfigInitial, ConfigStep, PTL DEF ConfigSpec

\* Rows, snapshots and requests are well typed: no snapshot is stored that is
\* half read.
THEOREM ConfigTypeCorrect ==
    ConfigSpec => []ConfigTypeOK
<1>1. ConfigInv => ConfigTypeOK
  <2> SUFFICES ASSUME ConfigInv PROVE ConfigTypeOK
    OBVIOUS
  <2>1. \A i \in Instances : snaps[i] = NoSnapshot \/
          /\ snaps[i].loadedAt \in Times
          /\ snaps[i].versions \in VersionRows \cup {NoRow}
          /\ snaps[i].flags \in FlagRows \cup {NoRow}
    BY DEF ConfigInv, SnapReads, ReadSince, Contents, Tables
  <2>2. ASSUME NEW r \in ConfigReaders
        PROVE  /\ readers[r].phase \in Phases /\ readers[r].kind \in Kinds
               /\ readers[r].state \subseteq States /\ readers[r].flag \subseteq BOOLEAN
    BY ReaderFields DEF ConfigInv, ReaderOK, FieldsOK
  <2>3. /\ configTime \in Times /\ toEmpty \subseteq Instances
        /\ rows \in [Tables -> Seq([row : VersionRows \cup FlagRows, since : Times])]
    BY DEF ConfigInv, ConfigTyped, Versionings
  <2> QED
    BY <2>1, <2>2, <2>3 DEF ConfigTypeOK, Times
<1> QED
  BY <1>1, ConfigInductive, PTL

\* What a request is told, unless a query failed or broke off, follows from
\* rows that were in force when it began or less than CacheTTL before: with any
\* number of instances, requests and changes, although loads overtake one
\* another and an older snapshot may replace a newer one.
THEOREM ConfigStaysRecent ==
    ConfigSpec => []ConfigIsRecent
<1>1. ConfigInv => ConfigIsRecent
  <2> SUFFICES ASSUME ConfigInv, NEW r \in ConfigReaders, ~readers[r].failed
               PROVE  /\ readers[r].state # {} => \E v \in VersionRows :
                            /\ Held("versions", v, readers[r].began - CacheTTL + 1)
                            /\ readers[r].state = {UpdateState(v)}
                      /\ readers[r].flag # {} => \E f \in FlagRows :
                            /\ Held("flags", f, readers[r].began - CacheTTL + 1)
                            /\ readers[r].flag = {RolledOut(f)}
    BY Zenon DEF ConfigIsRecent
  <2>1. PICK p, k, a, b, d, s, f, x : readers[r] = Reader(p, k, a, b, d, s, f, x) /\ FieldsOK(p, k, a, b, d, s, f, x)
    BY DEF ConfigInv, ReaderOK
  <2>2. readers[r].state = s /\ readers[r].flag = f /\ readers[r].failed = x /\ readers[r].began = b
    BY <2>1, ReaderFields
  <2>3. StateOK(s, x, b) /\ FlagOK(f, x, b)
    BY <2>1 DEF FieldsOK
  <2> QED
    BY <2>2, <2>3 DEF StateOK, FlagOK
<1> QED
  BY <1>1, ConfigInductive, PTL

-----------------------------------------------------------------------------
\* Every component of the console behaves by its own specification beside the
\* others.
LEMMA PartsOfConsole ==
    ConsoleSpec => /\ ConfigSpec /\ CatalogSpec /\ ReviewsSpec /\ SupportSpec
                   /\ MerchantsSpec /\ AccountsSpec /\ RiskSpec /\ QuotesSpec
<1>1. ConsoleInit => /\ ConfigInit /\ CatalogInit /\ ReviewsInit /\ SupportInit
                     /\ MerchantsInit /\ AccountsInit /\ RiskInit /\ QuotesInit
  BY DEF ConsoleInit
<1>2. [ConsoleNext]_<<allVars, focus>> =>
          /\ [ConfigNext]_configVars /\ [CatalogNext]_catalogVars
          /\ [ReviewsNext]_reviewVars /\ [SupportNext]_supportVars
          /\ [MerchantsNext]_merchantVars /\ [AccountsNext]_accountVars
          /\ [RiskNext]_riskVars /\ [QuotesNext]_quoteVars
  BY Zenon DEF ConsoleNext, allVars
<1> QED
  BY <1>1, <1>2, PTL DEF ConsoleSpec, ConfigSpec, CatalogSpec, ReviewsSpec, SupportSpec,
                         MerchantsSpec, AccountsSpec, RiskSpec, QuotesSpec

\* The console as a whole is well typed in every reachable state.
THEOREM ConsoleTypeCorrect == ConsoleSpec => []ConsoleTypeOK
<1>1. /\ ConfigTypeOK /\ CatalogTypeOK /\ ReviewsTypeOK /\ SupportTypeOK /\ MerchantsTypeOK
      /\ AccountsTypeOK /\ RiskTypeOK /\ QuotesTypeOK
      => ConsoleTypeOK
  BY DEF ConsoleTypeOK
<1> QED
  BY <1>1, PartsOfConsole, ConfigTypeCorrect, CatalogTypeCorrect, ReviewsTypeCorrect,
     SupportTypeCorrect, MerchantsTypeCorrect, AccountsTypeCorrect, RiskTypeCorrect,
     QuotesTypeCorrect, PTL

\* The configuration, catalog, reviews, support desk, merchants, accounts, risk
\* rules and quotes keep their promises beside each other.
THEOREM ConsoleIsInOrder ==
    ConsoleSpec =>
        /\ [](ConfigIsRecent /\ PricedFromOneVersion /\ RatingsAddUp /\ ClosedTicketsStaySilent)
        /\ [](OpensAsWritten /\ AccountInOrder /\ BurstsAreFlagged /\ QuotedPriceHolds)
<1>1. ConsoleSpec => /\ []ConfigIsRecent /\ []PricedFromOneVersion
                     /\ []RatingsAddUp /\ []ClosedTicketsStaySilent
  BY PartsOfConsole, ConfigStaysRecent, PricesAreOfOneVersion, AggregatesAgree,
     ClosedMeansSilent
<1>2. ConsoleSpec => /\ []OpensAsWritten /\ []AccountInOrder
                     /\ []BurstsAreFlagged /\ []QuotedPriceHolds
  BY PartsOfConsole, OpenMeansOpen, AccountStaysInOrder, NoBurstIsMissed, QuotesHold
<1> QED
  BY <1>1, <1>2, PTL
=============================================================================
