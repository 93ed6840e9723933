--------------------------- MODULE ServiceRequests ---------------------------
(***************************************************************************)
(* Jobs for tradesmen: services.go and provider.go of modules/services.  A *)
(* customer describes a job, approved providers offer their price, the     *)
(* customer accepts one offer.  Handlers that lock the request's row are   *)
(* one step; making an offer reads the request and the provider first and  *)
(* writes later, without a lock, so it is two.  Nothing in the repository  *)
(* calls SettlePending or sets 'no_offers', so neither is here: a service  *)
(* is settled by the handler that completed it, or never.                  *)
(***************************************************************************)
EXTENDS JobPayments, Naturals

CONSTANTS Requests, Providers, NoProvider,
    OfferPrices     \* what providers ask for

ASSUME ServicesAssumption ==
    /\ Requests \subseteq PaidJobs
    /\ NoProvider \notin Providers
    /\ OfferPrices \subseteq Nat \ {0}

VARIABLES
    request,    \* request[r]: state, provider_id and price_minor, 0 for NULL
    bid,        \* bid[r][v]: the state and price of v's service_offers row
    bidding,    \* <<r, v>>: v's MakeOffer has read an open r and an approved
                \* v, and has yet to write
    vetted      \* providers whose status is 'approved'

serviceVars == <<request, bid, bidding, vetted>>

RequestStates == {"none", "open", "booked", "in_progress", "completed", "cancelled"}
BidStates == {"none", "offered", "accepted", "declined", "withdrawn"}

ServiceTransitions(from) ==
    CASE from = "open" -> {"booked", "cancelled", "no_offers"}
      [] from = "booked" -> {"in_progress", "open", "cancelled"}
      [] from = "in_progress" -> {"completed", "cancelled"}
      [] OTHER -> {}

BidsWithdrawn(bids) ==
    [v \in Providers |-> IF bids[v].state = "offered"
                         THEN [bids[v] EXCEPT !.state = "withdrawn"] ELSE bids[v]]

-----------------------------------------------------------------------------
ServicesInit ==
    /\ request = [r \in Requests |-> [state |-> "none", provider |-> NoProvider, price |-> 0]]
    /\ bid = [r \in Requests |-> [v \in Providers |-> [state |-> "none", price |-> 0]]]
    /\ bidding = {}
    /\ vetted = {}

\* Create; payment_status starts as 'none'.
CreateRequest(r) ==
    /\ request[r].state = "none"
    /\ request' = [request EXCEPT ![r].state = "open"]
    /\ UNCHANGED <<bid, bidding, vetted, payVars>>

\* SetProviderStatus.
SetProviderStatus(v) ==
    /\ vetted' = IF v \in vetted THEN vetted \ {v} ELSE vetted \cup {v}
    /\ UNCHANGED <<request, bid, bidding, payVars>>

\* MakeOffer up to its checks.
MakeOffer(r, v) ==
    /\ request[r].state = "open"
    /\ v \in vetted
    /\ bidding' = bidding \cup {<<r, v>>}
    /\ UNCHANGED <<request, bid, vetted, payVars>>

\* Mutant: the conflict clause has no WHERE.
WriteBidOverAny(r, v, price) ==
    /\ <<r, v>> \in bidding
    /\ bidding' = bidding \ {<<r, v>>}
    /\ bid' = [bid EXCEPT ![r][v] = [state |-> "offered", price |-> price]]
    /\ UNCHANGED <<request, vetted, payVars>>

\* MakeOffer's upsert: only a row that is 'offered' or 'declined' is
\* overwritten.
WriteBid(r, v, price) ==
    /\ <<r, v>> \in bidding
    /\ bidding' = bidding \ {<<r, v>>}
    /\ bid' = [bid EXCEPT ![r][v] =
         IF @.state \in {"none", "offered", "declined"}
         THEN [state |-> "offered", price |-> price] ELSE @]
    /\ UNCHANGED <<request, vetted, payVars>>

WithdrawBid(r, v) ==
    /\ bid[r][v].state = "offered"
    /\ bid' = [bid EXCEPT ![r][v].state = "withdrawn"]
    /\ UNCHANGED <<request, bidding, vetted, payVars>>

\* AcceptOffer, at the price the offer has now; the unique index
\* service_requests_one_active_per_provider refuses a busy provider.
BookRequest(r, v) ==
    /\ request[r].state = "open"
    /\ bid[r][v].state = "offered"
    /\ \A q \in Requests :
         request[q].provider = v => request[q].state \notin {"booked", "in_progress"}
    /\ request' = [request EXCEPT ![r] =
         [state |-> "booked", provider |-> v, price |-> bid[r][v].price]]
    /\ bid' = [bid EXCEPT ![r] = [BidsWithdrawn(@) EXCEPT ![v].state = "accepted"]]
    /\ PayBecomes(r, "none")
    /\ UNCHANGED <<bidding, vetted>>

\* Cancel; an accepted offer stays accepted.
CancelRequest(r) ==
    /\ request[r].state \in {"open", "booked"}
    /\ request' = [request EXCEPT ![r].state = "cancelled"]
    /\ bid' = [bid EXCEPT ![r] = BidsWithdrawn(@)]
    /\ UNCHANGED <<bidding, vetted, payVars>>

\* Step: by the request's provider, as the table allows.
ProviderMay(r, v, to) ==
    /\ request[r].provider = v
    /\ to \in ServiceTransitions(request[r].state)

StartWork(r, v) ==
    /\ ProviderMay(r, v, "in_progress")
    /\ request' = [request EXCEPT ![r].state = "in_progress"]
    /\ UNCHANGED <<bid, bidding, vetted, payVars>>

CompleteWork(r, v) ==
    /\ ProviderMay(r, v, "completed")
    /\ request' = [request EXCEPT ![r].state = "completed"]
    /\ JobIsDone(r)
    /\ UNCHANGED <<bid, bidding, vetted>>

GiveUpWork(r, v) ==
    /\ ProviderMay(r, v, "open")
    /\ request' = [request EXCEPT ![r] =
         [state |-> "open", provider |-> NoProvider, price |-> 0]]
    /\ bid' = [bid EXCEPT ![r][v].state = "declined"]
    /\ UNCHANGED <<bidding, vetted, payVars>>

SettleService(r) ==
    /\ SettleStep(r)
    /\ UNCHANGED serviceVars

-----------------------------------------------------------------------------
ServiceStep(r) ==
    \/ CreateRequest(r)
    \/ CancelRequest(r)
    \/ SettleService(r)
    \/ \E v \in Providers :
         \/ MakeOffer(r, v)
         \/ \E price \in OfferPrices : WriteBid(r, v, price)
         \/ WithdrawBid(r, v)
         \/ BookRequest(r, v)
         \/ StartWork(r, v)
         \/ CompleteWork(r, v)
         \/ GiveUpWork(r, v)

ServicesNext ==
    \/ \E r \in Requests : ServiceStep(r)
    \/ \E v \in Providers : SetProviderStatus(v)

ServicesSpec ==
    /\ ServicesInit /\ PaymentsInit
    /\ [][ServicesNext]_<<serviceVars, payVars>>

-----------------------------------------------------------------------------
ServicesTypeOK ==
    /\ request \in [Requests -> [state : RequestStates,
                                 provider : Providers \cup {NoProvider},
                                 price : OfferPrices \cup {0}]]
    /\ bid \in [Requests -> [Providers -> [state : BidStates,
                                           price : OfferPrices \cup {0}]]]
    /\ bidding \subseteq Requests \X Providers
    /\ vetted \subseteq Providers

\* The price is that of the one accepted offer (services/state.go:1-3), from
\* the booking to the bill: no offer written late by an unlocked MakeOffer,
\* no release and no second booking leaves a job without exactly one accepted
\* offer, of its own provider, at the agreed price, and an open job has none.
BookedAsOffered ==
    \A r \in Requests :
        LET taken == {v \in Providers : bid[r][v].state = "accepted"}
        IN  /\ request[r].state = "open" => taken = {}
            /\ request[r].state \in {"booked", "in_progress", "completed"} =>
                 /\ taken = {request[r].provider}
                 /\ request[r].price = bid[r][request[r].provider].price
=============================================================================
