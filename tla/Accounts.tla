------------------------------ MODULE Accounts -------------------------------
\* One user's account and address book (modules/users), and the operator who
\* blocks the account (modules/fraud).  CreateAddress, UpdateProfile and
\* DeleteAccount lock the user's row; UpdateAddress and DeleteAddress lock only
\* the addresses they write, and a unique index allows one default address.
\* What a transaction writes shows when it commits.
EXTENDS Naturals, FiniteSets

CONSTANTS AddressRows,       \* bound on the addresses ever made
          MaxAddresses,
          AccountRequests,
          NoAddress

ASSUME AccountsAssumption ==
    /\ IsFiniteSet(AddressRows) /\ NoAddress \notin AddressRows
    /\ MaxAddresses \in Nat \ {0}

VARIABLES account,     \* users.status
          named,       \* users.full_name, email: whether there is any
          addresses,   \* user_addresses, a live one "live" or "default"
          balance,     \* of the wallet
          asking       \* the requests

accountVars == <<account, named, addresses, balance, asking>>

Live == {a \in AddressRows : addresses[a] \in {"live", "default"}}
Defaults == {a \in AddressRows : addresses[a] = "default"}

\* A request that writes an address has locked, of the default ones it saw,
\* those that were still default.
Idle == [step |-> "idle", row |-> NoAddress, default |-> FALSE, seen |-> {}]

HeldRows(q) == IF asking[q].step = "writing" THEN asking[q].seen ELSE {}

RowsOfOthers(q) == UNION {HeldRows(other) : other \in AccountRequests \ {q}}

\* CreateAddress and UpdateProfile, from their SELECT ... FOR UPDATE on.
HoldsUser(q) ==
    \/ asking[q].step \in {"locked", "profile"}
    \/ asking[q].row = NoAddress /\ asking[q].step \in {"changing", "clearing", "writing"}

\* Mutant: the user's row is read without FOR UPDATE.
NobodyLocksUser == AccountRequests # {}

UserUnlocked == \A q \in AccountRequests : ~HoldsUser(q)

AccountsInit ==
    /\ account = "active"
    /\ named \in BOOLEAN
    /\ addresses = [a \in AddressRows |-> "none"]
    /\ balance = 0
    /\ asking = [q \in AccountRequests |-> Idle]

Ends(q) == asking' = [asking EXCEPT ![q] = Idle]

(***************************************************************************)
(* Addresses.                                                              *)
(***************************************************************************)
\* The lock of CreateAddress does not ask for the status.
AskCreate(q, default) ==
    /\ asking[q] = Idle
    /\ UserUnlocked
    /\ asking' = [asking EXCEPT ![q] = [Idle EXCEPT !.step = "locked", !.default = default]]
    /\ UNCHANGED <<account, named, addresses, balance>>

\* The count; a first address becomes the default.
CountAddresses(q) ==
    LET default == asking[q].default \/ Live = {} IN
    /\ asking[q].step = "locked"
    /\ IF Cardinality(Live) >= MaxAddresses
       THEN Ends(q)
       ELSE asking' = [asking EXCEPT ![q].step = IF default THEN "changing" ELSE "writing",
                                     ![q].default = default]
    /\ UNCHANGED <<account, named, addresses, balance>>

AskUpdate(q, a, default) ==
    /\ asking[q] = Idle
    /\ addresses[a] # "none"
    /\ asking' = [asking EXCEPT ![q] =
        [Idle EXCEPT !.step = IF default THEN "changing" ELSE "writing",
                     !.row = a, !.default = default]]
    /\ UNCHANGED <<account, named, addresses, balance>>

\* clearDefault, an UPDATE: it sees what is committed, waits for the rows, and
\* takes those that are still default.
SeeDefaults(q) ==
    /\ asking[q].step = "changing"
    /\ asking' = [asking EXCEPT ![q].step = "clearing", ![q].seen = Defaults]
    /\ UNCHANGED <<account, named, addresses, balance>>

ClearDefault(q) ==
    /\ asking[q].step = "clearing"
    /\ asking[q].seen \cap RowsOfOthers(q) = {}
    /\ asking' = [asking EXCEPT ![q].step = "writing", ![q].seen = @ \cap Defaults]
    /\ UNCHANGED <<account, named, addresses, balance>>

\* The default addresses that a default a would stand beside.
Rivals(q, a) == IF asking[q].default THEN Defaults \ (asking[q].seen \cup {a}) ELSE {}

Written(q, a) ==
    [b \in AddressRows |->
        IF b = a THEN IF asking[q].default THEN "default" ELSE "live"
        ELSE IF b \in asking[q].seen THEN "live" ELSE addresses[b]]

\* The INSERT of CreateAddress and its commit.
InsertAddress(q, a) ==
    /\ asking[q].step = "writing" /\ asking[q].row = NoAddress
    /\ addresses[a] = "none"
    /\ addresses' = IF Rivals(q, a) = {} THEN Written(q, a) ELSE addresses
    /\ Ends(q)
    /\ UNCHANGED <<account, named, balance>>

\* The UPDATE of UpdateAddress and its commit.
UpdateAddress(q) ==
    LET a == asking[q].row IN
    /\ asking[q].step = "writing" /\ a # NoAddress
    /\ a \notin RowsOfOthers(q)
    /\ addresses' = IF a \in Live /\ Rivals(q, a) = {} THEN Written(q, a) ELSE addresses
    /\ Ends(q)
    /\ UNCHANGED <<account, named, balance>>

DeleteAddress(a) ==
    /\ a \in Live
    /\ \A q \in AccountRequests : a \notin HeldRows(q)
    /\ addresses' = [addresses EXCEPT ![a] = "deleted"]
    /\ UNCHANGED <<account, named, balance, asking>>

(***************************************************************************)
(* The account.                                                            *)
(***************************************************************************)
AskProfile(q) ==
    /\ asking[q] = Idle
    /\ UserUnlocked
    /\ account = "active"
    /\ asking' = [asking EXCEPT ![q].step = "profile"]
    /\ UNCHANGED <<account, named, addresses, balance>>

WriteProfile(q) ==
    /\ asking[q].step = "profile"
    /\ named' \in BOOLEAN
    /\ Ends(q)
    /\ UNCHANGED <<account, addresses, balance>>

\* DeleteAccount reads the balance in a statement of its own, and then makes
\* one transaction of the rest.
AskDelete(q) ==
    /\ asking[q] = Idle
    /\ balance = 0
    /\ asking' = [asking EXCEPT ![q].step = "delete"]
    /\ UNCHANGED <<account, named, addresses, balance>>

DeleteAccount(q) ==
    /\ asking[q].step = "delete"
    /\ account = "active"
    /\ UserUnlocked
    /\ Live \cap RowsOfOthers(q) = {}
    /\ account' = "deleted"
    /\ named' = FALSE
    /\ addresses' = [a \in AddressRows |-> IF a \in Live THEN "deleted" ELSE addresses[a]]
    /\ Ends(q)
    /\ UNCHANGED balance

\* Block and Unblock of the risk desk; who is not active stays what he is.
Block ==
    /\ UserUnlocked
    /\ account' = IF account = "active" THEN "blocked" ELSE account
    /\ UNCHANGED <<named, addresses, balance, asking>>

Unblock ==
    /\ UserUnlocked
    /\ account' = IF account = "blocked" THEN "active" ELSE account
    /\ UNCHANGED <<named, addresses, balance, asking>>

\* Money comes or goes: a top-up, a refund, a ride.
WalletMoves ==
    /\ balance' = 1 - balance
    /\ UNCHANGED <<account, named, addresses, asking>>

\* A transaction rolls back, or a request is refused.
AskingFails(q) ==
    /\ asking[q] # Idle
    /\ Ends(q)
    /\ UNCHANGED <<account, named, addresses, balance>>

AccountsNext ==
    \/ \E q \in AccountRequests :
        \/ \E default \in BOOLEAN :
            \/ AskCreate(q, default)
            \/ \E a \in AddressRows : AskUpdate(q, a, default)
        \/ \E a \in AddressRows : InsertAddress(q, a)
        \/ CountAddresses(q) \/ SeeDefaults(q) \/ ClearDefault(q) \/ UpdateAddress(q)
        \/ AskProfile(q) \/ WriteProfile(q) \/ AskDelete(q) \/ DeleteAccount(q)
        \/ AskingFails(q)
    \/ \E a \in AddressRows : DeleteAddress(a)
    \/ Block \/ Unblock \/ WalletMoves

AccountsSpec == AccountsInit /\ [][AccountsNext]_accountVars

AccountsTypeOK ==
    /\ account \in {"active", "blocked", "deleted"}
    /\ named \in BOOLEAN
    /\ addresses \in [AddressRows -> {"none", "live", "default", "deleted"}]
    /\ balance \in {0, 1}
    /\ \A q \in AccountRequests :
        /\ asking[q].step \in {"idle", "locked", "changing", "clearing", "writing", "profile", "delete"}
        /\ asking[q].row \in AddressRows \cup {NoAddress}

\* Whatever requests run side by side, a user keeps to the limit and to one
\* default address (addresses.go:93), and a deleted account has no name or
\* e-mail again (service.go:146).
AccountInOrder ==
    /\ Cardinality(Live) <= MaxAddresses
    /\ Cardinality(Defaults) <= 1
    /\ account = "deleted" => ~named
=============================================================================
