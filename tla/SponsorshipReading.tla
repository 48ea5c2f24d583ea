------------------------- MODULE SponsorshipReading -------------------------
(***************************************************************************)
(* What an account sponsors for others: the ledger says how many reserves, *)
(* never which.  enumerateSponsoredEntries looks for the owners in the     *)
(* account's own history, reads each of them as it is now, lists the       *)
(* claimable balances, and says "incomplete" when a part failed or the     *)
(* reserves of what it listed are fewer than the ledger counts.            *)
(***************************************************************************)
EXTENDS Integers, FiniteSets, Functions

CONSTANTS
    Owners,        \* other accounts
    Entries,       \* what may be sponsored: an owner's account or entry, a claimable balance
    OwnerOf,       \* the owner of each that has one; the others are claimable balances
    Paged,         \* those read apart from the owner's body: offers, and data entries one by one
    Traced,        \* those whose operation carries the sponsor, so that history names the owner
    Reserve,       \* base reserves each holds
    PoolShares,    \* trustlines of pool shares, which the reading of an owner leaves out
    BalanceCeiling, \* CB_MAX_TOTAL
    MaxMoves       \* bound: entries that begin or cease to be sponsored meanwhile

ASSUME SponsorshipAssumption ==
    /\ DOMAIN OwnerOf \subseteq Entries /\ Range(OwnerOf) \subseteq Owners
    /\ Paged \cup PoolShares \subseteq DOMAIN OwnerOf /\ Traced \subseteq DOMAIN OwnerOf
    /\ Reserve \in [Entries -> Nat \ {0}]
    /\ BalanceCeiling \in Nat /\ MaxMoves \in Nat

ClaimableBalances == Entries \ DOMAIN OwnerOf

VARIABLES
    sponsored,  \* what the account sponsors
    ever,       \* what it ever did, as its history has it
    moves,      \* changes so far
    listing,    \* the reading under way
    joined      \* observed: what came to be sponsored since the reading began

sponsorshipVars == <<sponsored, ever, moves, listing, joined>>

NoListing ==
    [pc |-> "idle", counted |-> 0, parts |-> {}, left |-> {}, listed |-> {}, incomplete |-> FALSE]

SponsorshipInit ==
    /\ ever \in SUBSET Entries
    /\ sponsored \in SUBSET ever
    /\ moves = 0
    /\ listing = NoListing
    /\ joined = {}

ReservesOf(entries) == SumFunctionOnSet(Reserve, entries)

Moves ==
    /\ moves < MaxMoves
    /\ moves' = moves + 1
    /\ \/ \E e \in Entries \ sponsored :
             /\ sponsored' = sponsored \cup {e}
             /\ ever' = ever \cup {e}
             /\ joined' = joined \cup {e}
       \/ \E e \in sponsored :
             /\ sponsored' = sponsored \ {e}
             /\ UNCHANGED <<ever, joined>>
    /\ UNCHANGED listing

\* num_sponsoring, from the body of the account.  A count that is zero is a whole answer; one
\* the provider left out is none, and nothing that is listed then is called complete.
AskListing(known) ==
    /\ listing.pc = "idle"
    /\ listing' =
          IF known /\ sponsored = {}
          THEN [NoListing EXCEPT !.pc = "listed"]
          ELSE [NoListing EXCEPT
                  !.pc = "parts", !.parts = {"history", "balances"},
                  !.counted = IF known THEN ReservesOf(sponsored) ELSE 0,
                  !.incomplete = ~known]
    /\ joined' = {}
    /\ UNCHANGED <<sponsored, ever, moves>>

\* discoverSponsorshipCandidates: owners only, since what they hold is read anew.  It may
\* end at its ceiling or at a failed page, and keeps what it has.
Candidates == {OwnerOf[e] : e \in ever \cap Traced}

ReadHistory(found, ends) ==
    /\ listing.pc = "parts" /\ "history" \in listing.parts
    /\ found \subseteq Candidates /\ (~ends => found = Candidates)
    /\ listing' = [listing EXCEPT
          !.parts = @ \ {"history"},
          !.left = {<<o, part>> : o \in found, part \in {"body", "paged"}},
          !.incomplete = @ \/ ends]
    /\ UNCHANGED <<sponsored, ever, moves, joined>>

\* A page that is full is taken for one with more behind it.
ReadBalances(fails) ==
    /\ listing.pc = "parts" /\ "balances" \in listing.parts
    /\ LET current == sponsored \cap ClaimableBalances
       IN  \E some \in SUBSET current :
             /\ Cardinality(some) <= BalanceCeiling
             /\ fails \/ Cardinality(some) = BalanceCeiling \/ some = current
             /\ listing' = [listing EXCEPT
                   !.parts = @ \ {"balances"}, !.listed = @ \cup some,
                   !.incomplete = @ \/ fails \/ Cardinality(some) = BalanceCeiling]
    /\ UNCHANGED <<sponsored, ever, moves, joined>>

\* fetchOwnerLiveState, in two parts: the owner's body, and what takes a request of its own.
\* What a part shows as sponsored is listed, whether or not the history named it.
Shown(o, part) ==
    {e \in sponsored \cap DOMAIN OwnerOf :
        /\ OwnerOf[e] = o
        /\ e \notin PoolShares
        /\ (e \in Paged) = (part = "paged")}

ReadOwner(o, part) ==
    /\ listing.pc = "parts" /\ listing.parts = {} /\ <<o, part>> \in listing.left
    /\ part = "paged" => <<o, "body">> \notin listing.left
    /\ listing' = [listing EXCEPT !.left = @ \ {<<o, part>>}, !.listed = @ \cup Shown(o, part)]
    /\ UNCHANGED <<sponsored, ever, moves, joined>>

\* An owner that could not be read whole is not confirmed in any part.
OwnerFails(o) ==
    /\ listing.pc = "parts" /\ listing.parts = {} /\ \E part \in {"body", "paged"} : <<o, part>> \in listing.left
    /\ listing' = [listing EXCEPT
          !.left = {l \in @ : l[1] # o},
          !.listed = {e \in @ : e \in DOMAIN OwnerOf => OwnerOf[e] # o},
          !.incomplete = TRUE]
    /\ UNCHANGED <<sponsored, ever, moves, joined>>

\* reconcileSponsoredEntries: fewer reserves than the ledger counts means that some are missing.
UndercountOfEntries(l) == Cardinality(l.listed) = 0 /\ l.counted > 0
Undercount(l) == ReservesOf(l.listed) < l.counted

Reconcile ==
    /\ listing.pc = "parts" /\ listing.parts = {} /\ listing.left = {}
    /\ listing' = [listing EXCEPT !.pc = "listed", !.incomplete = @ \/ Undercount(listing)]
    /\ UNCHANGED <<sponsored, ever, moves, joined>>

SponsorshipNext ==
    \/ Moves
    \/ \E known \in BOOLEAN : AskListing(known)
    \/ \E found \in SUBSET Owners, ends \in BOOLEAN : ReadHistory(found, ends)
    \/ \E fails \in BOOLEAN : ReadBalances(fails)
    \/ \E o \in Owners : OwnerFails(o) \/ \E part \in {"body", "paged"} : ReadOwner(o, part)
    \/ Reconcile

SponsorshipSpec == SponsorshipInit /\ [][SponsorshipNext]_sponsorshipVars
=============================================================================
