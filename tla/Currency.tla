------------------------------ MODULE Currency ------------------------------
(***************************************************************************)
(* The business's currency: its change (backend/app/business_currency.py    *)
(* and change_currency of 0066) against the bookings, the prices and the    *)
(* Stripe account that hold it (payments.connect, 0062).                    *)
(*                                                                          *)
(* A change keeps the business's row locked (FOR UPDATE) and, to relabel    *)
(* the prices, waits for the bookings that have read one (FOR SHARE); a     *)
(* booking that has read one waits for the business's row (its foreign      *)
(* key).  Where each waits for the other the database aborts one of them.   *)
(***************************************************************************)
EXTENDS Naturals, FiniteSets

CONSTANTS
  Currencies, Settled,    \* those a business can hold; those Stripe pays out in, in its country
  Prices,                 \* services that may be saved
  Buyers, Connects,       \* requests on their way: create, and connect
  MaxSold, MaxChanges     \* bounds

ASSUME CurrencyAssumption ==
  /\ Settled \subseteq Currencies /\ Settled # {} /\ "none" \notin Currencies
  /\ IsFiniteSet(Prices)
  /\ MaxSold \in Nat /\ MaxChanges \in Nat

VARIABLES
  currency,               \* tenants.currency
  prices,                 \* services.price_currency
  sold,                   \* bookings: the currency stored, and the one the client was shown
  payee,                  \* payment_accounts: the currency of the account, or none
  change, changes,        \* change_currency on its way, and how many were made
  buyers, connects

currencyVars == <<currency, prices, sold, payee, change, changes, buyers, connects>>

None == "none"

Maybe == Currencies \cup {None}

NoChange == [pc |-> "idle", to |-> None, confirmed |-> 0]

NoBuyer == [pc |-> "idle", shown |-> None, price |-> None]

\* made: Stripe has answered.
NoConnect == [pc |-> "idle", seen |-> None]

CurrencyTypeOK ==
  /\ currency \in Currencies /\ prices \in [Prices -> Maybe]
  /\ sold \subseteq [currency : Currencies, shown : Maybe]
  /\ payee \in Maybe
  /\ change \in [pc : {"idle", "asked", "locked"}, to : Maybe, confirmed : 0 .. Cardinality(Prices)]
  /\ changes \in 0 .. MaxChanges
  /\ buyers \in [Buyers -> [pc : {"idle", "shown", "reading"}, shown : Maybe, price : Maybe]]
  /\ connects \in [Connects -> [pc : {"idle", "seen", "made"}, seen : Maybe]]

CurrencyInit ==
  /\ currency = CHOOSE c \in Settled : TRUE
  /\ prices = [s \in Prices |-> None]
  /\ sold = {} /\ payee = None /\ change = NoChange /\ changes = 0
  /\ buyers = [b \in Buyers |-> NoBuyer]
  /\ connects = [o \in Connects |-> NoConnect]

Saved == {s \in Prices : prices[s] # None}

\* The business's row is locked: a foreign key's look at it waits.
BusinessLocked == change.pc = "locked"

-----------------------------------------------------------------------------
(* Prices and bookings *)

\* create_service: in the business's currency.
SavePrice(s) ==
  /\ prices[s] = None /\ ~ BusinessLocked
  /\ prices' = [prices EXCEPT ![s] = currency]
  /\ UNCHANGED <<currency, sold, payee, change, changes, buyers, connects>>

\* The booking page, with the currency or from the release before, which sends none.
ShowPrice(b, s, sends) ==
  /\ buyers[b].pc = "idle" /\ prices[s] # None
  /\ buyers' = [buyers EXCEPT ![b] = [NoBuyer EXCEPT !.pc = "shown",
                                                    !.shown = IF sends THEN prices[s] ELSE None]]
  /\ UNCHANGED <<currency, prices, sold, payee, change, changes, connects>>

\* What the page showed is what the service's row says.
AsShown(shown, price) == shown \in {None, price}

\* SERVICE, FOR SHARE; 409 currency_changed if it is not.
ReadPrice(b, s) ==
  /\ buyers[b].pc = "shown" /\ prices[s] # None
  /\ buyers' = [buyers EXCEPT ![b] = IF AsShown(@.shown, prices[s])
                                     THEN [@ EXCEPT !.pc = "reading", !.price = prices[s]] ELSE NoBuyer]
  /\ UNCHANGED <<currency, prices, sold, payee, change, changes, connects>>

\* INSERT_BOOKING and the commit: the foreign key to the business's currency decides.
InsertBooking(b) ==
  /\ buyers[b].pc = "reading" /\ ~ BusinessLocked
  /\ Cardinality(sold) < MaxSold
  /\ sold' = IF buyers[b].price = currency
             THEN sold \cup {[currency |-> currency, shown |-> buyers[b].shown]} ELSE sold
  /\ buyers' = [buyers EXCEPT ![b] = NoBuyer]
  /\ UNCHANGED <<currency, prices, payee, change, changes, connects>>

\* Refused for another reason, or the one the database aborts.
BookingFails(b) ==
  /\ buyers[b].pc # "idle"
  /\ buyers' = [buyers EXCEPT ![b] = NoBuyer]
  /\ UNCHANGED <<currency, prices, sold, payee, change, changes, connects>>

-----------------------------------------------------------------------------
(* The Stripe account *)

\* connect, up to the call: an account is made only in a currency its country settles; one that is
\* held is onboarded, which changes nothing here.
SeeBusiness(o) ==
  /\ connects[o].pc = "idle" /\ payee = None /\ currency \in Settled
  /\ connects' = [connects EXCEPT ![o] = [pc |-> "seen", seen |-> currency]]
  /\ UNCHANGED <<currency, prices, sold, payee, change, changes, buyers>>

\* create_account, with the currency in its key; or it fails.
CreateAccount(o) ==
  /\ connects[o].pc = "seen"
  /\ connects' \in {[connects EXCEPT ![o].pc = "made"], [connects EXCEPT ![o] = NoConnect]}
  /\ UNCHANGED <<currency, prices, sold, payee, change, changes, buyers>>

AccountFitsMutant(seen) == TRUE

\* ACCOUNT_CURRENCY, the foreign key of payment_accounts.
AccountFits(seen) == seen = currency

\* ON CONFLICT: an account that another request stored is kept.
StoreAccount(o) ==
  /\ connects[o].pc = "made" /\ ~ BusinessLocked
  /\ payee' = IF payee = None /\ AccountFits(connects[o].seen) THEN connects[o].seen ELSE payee
  /\ connects' = [connects EXCEPT ![o] = NoConnect]
  /\ UNCHANGED <<currency, prices, sold, change, changes, buyers>>

-----------------------------------------------------------------------------
(* The change *)

\* read_currency, and the owner's answer: the prices to relabel, or none confirmed.
AskChange(to, confirmed) ==
  /\ change.pc = "idle" /\ changes < MaxChanges
  /\ confirmed \in {0, Cardinality(Saved)}
  /\ change' = [pc |-> "asked", to |-> to, confirmed |-> confirmed]
  /\ UNCHANGED <<currency, prices, sold, payee, changes, buyers, connects>>

\* change_currency, up to its UPDATE: unchanged, locked_bookings, locked_payments or prices_exist end it.
LockBusiness ==
  /\ change.pc = "asked"
  /\ change' = IF /\ change.to # currency /\ sold = {} /\ payee = None
                  /\ Saved = {} \/ change.confirmed = Cardinality(Saved)
               THEN [change EXCEPT !.pc = "locked"] ELSE NoChange
  /\ UNCHANGED <<currency, prices, sold, payee, changes, buyers, connects>>

\* The UPDATE, whose cascade relabels every saved price, and the commit.
CommitChange ==
  /\ change.pc = "locked" /\ \A b \in Buyers : buyers[b].pc # "reading"
  /\ currency' = change.to
  /\ prices' = [s \in Prices |-> IF s \in Saved THEN change.to ELSE None]
  /\ change' = NoChange /\ changes' = changes + 1
  /\ UNCHANGED <<sold, payee, buyers, connects>>

\* 503 busy: the database aborted it, or the request ended.
AbortChange ==
  /\ change.pc = "locked"
  /\ change' = NoChange
  /\ UNCHANGED <<currency, prices, sold, payee, changes, buyers, connects>>

CurrencyNext ==
  \/ \E s \in Prices : SavePrice(s)
  \/ \E b \in Buyers :
       \/ InsertBooking(b) \/ BookingFails(b)
       \/ \E s \in Prices : ReadPrice(b, s) \/ \E sends \in BOOLEAN : ShowPrice(b, s, sends)
  \/ \E o \in Connects : SeeBusiness(o) \/ CreateAccount(o) \/ StoreAccount(o)
  \/ \E to \in Currencies, confirmed \in 0 .. Cardinality(Prices) : AskChange(to, confirmed)
  \/ LockBusiness \/ CommitChange \/ AbortChange

CurrencySpec == CurrencyInit /\ [][CurrencyNext]_currencyVars

-----------------------------------------------------------------------------
(* Properties *)

\* The prices, the bookings and the Stripe account are all in the business's currency, however its
\* change falls between a look at it and the write that follows: a call to Stripe lies between the two
\* of connect (ACCOUNT_CURRENCY).
OneCurrency ==
  /\ \A s \in Saved : prices[s] = currency
  /\ \A b \in sold : b.currency = currency
  /\ payee \in {None, currency}

\* Nobody is booked at a price in a currency other than the page showed it in (shown_currency; create's
\* comment: "Neither books a price the client did not see").
BookedAsShown == \A b \in sold : b.shown \in {None, b.currency}

\* Everything with a price is in one currency, the one its buyer saw.
CurrencyInv == CurrencyTypeOK /\ OneCurrency /\ BookedAsShown

=============================================================================
