---------------------------- MODULE BankProducts ----------------------------
(***************************************************************************)
(* The products a tenant uses over an account in sandbox mode: transfers   *)
(* over a rail, savings vaults, credit lines, currency exchange against a  *)
(* quote, and the ramps that turn money into a coin and back.              *)
(***************************************************************************)
EXTENDS BankPolicies, NodeClock

CONSTANTS
  Transfers, Vaults, Lines, Quotes,
  AccountOf,         \* [Vaults \cup Lines -> Accounts]
  Rails,             \* rail, by its clearing account -> [currency, min, max, instant]
  Limit,             \* the limit of every credit line
  Ltv,               \* loan to value, in basis points
  Worths,            \* what collateral may be worth, in the line's currency
  Mid,               \* [Currencies -> Nat]: reference mids in millionths of a dollar
  Spread,            \* basis points an exchange costs
  QuoteLife,         \* how long a quote can be executed
  Coins              \* coin -> the currency it is redeemed for

VARIABLES
  transfer,          \* [status, account, rail, amount]
  vault,             \* "none", "active" or "closed"
  line,              \* what can be drawn on a line, -1 before it is opened
  quote              \* [status, from, to, pays, gets, expiresAt]

productVars == <<transfer, vault, line, quote>>

(* The bank's own books that these products post to, beside the rails'.    *)
OwnBooks ==
  {Funds[1], Funds[2], "clearing:credit", "clearing:credit:liability",
   "clearing:card_authorisations", "fx:clearing", "reserve:issuer", "issuance:coin"}

ASSUME ProductAssumption ==
  /\ \A c \in Currencies : Mid[c] \in Nat \ {0}
  /\ Spread \in 0 .. 10000 /\ Ltv \in 1 .. 10000 /\ QuoteLife \in Nat
  /\ Vaults \cup Lines \subseteq Held \ Accounts /\ Vaults \cap Lines = {}
  /\ AccountOf \in [Vaults \cup Lines -> Accounts]
  /\ OwnBooks \subseteq House /\ DOMAIN Rails \subseteq House \ OwnBooks
  /\ \A r \in DOMAIN Rails : Rails[r].currency \in Currencies
  /\ DOMAIN Coins \subseteq Currencies
  /\ \A coin \in DOMAIN Coins : Coins[coin] \in Currencies \ DOMAIN Coins
  /\ NoOne \notin Accounts \cup DOMAIN Rails
  /\ IsFiniteSet(Accounts) /\ IsFiniteSet(Currencies) /\ IsFiniteSet(Simulations)
  /\ IsFiniteSet(Transfers) /\ IsFiniteSet(Lines)

ProductTypeOK ==
  /\ transfer \in [Transfers -> [status : {"none", "funds_received", "settled", "canceled"},
                                 account : Accounts \cup {NoOne},
                                 rail : DOMAIN Rails \cup {NoOne}, amount : Nat]]
  /\ vault \in [Vaults -> {"none", "active", "closed"}]
  /\ line \in [Lines -> Nat \cup {-1}]
  /\ quote \in [Quotes -> [status : {"none", "open", "executed"},
                           from : Currencies, to : Currencies,
                           pays : Nat, gets : Nat, expiresAt : Nat]]

ProductInit ==
  /\ transfer = [t \in Transfers |->
       [status |-> "none", account |-> NoOne, rail |-> NoOne, amount |-> 0]]
  /\ vault = [v \in Vaults |-> "none"]
  /\ line = [l \in Lines |-> -1]
  /\ quote = [q \in Quotes |->
       [status |-> "none", from |-> AnyCurrency, to |-> AnyCurrency, pays |-> 0, gets |-> 0, expiresAt |-> 0]]

-----------------------------------------------------------------------------
(* Transfers. The money waits in the rail's clearing account; in sandbox   *)
(* mode a rail that takes seconds settles within the request.              *)
CreateTransfer(t, a, r, n) ==
  /\ t \in FirstFree(Transfers, transfer)
  /\ Open(a) /\ Rails[r].currency = CurrencyOf[a]
  /\ Rails[r].min <= n /\ n <= Rails[r].max
  /\ n <= Holds(a, CurrencyOf[a])
  /\ Move(n, CurrencyOf[a], a, r)
  /\ transfer' = [transfer EXCEPT ![t] =
       [status |-> IF Rails[r].instant THEN "settled" ELSE "funds_received",
        account |-> a, rail |-> r, amount |-> n]]
  /\ UNCHANGED <<customerVars, vault, line, quote>>

(* On a day the rail runs; the calendar is not modelled.                   *)
Settle(t) ==
  /\ transfer[t].status = "funds_received"
  /\ transfer' = [transfer EXCEPT ![t].status = "settled"]
  /\ UNCHANGED <<ledger, customerVars, vault, line, quote>>

CancelableAgain(t) == transfer[t].status # "none"      \* mutant: any status
Cancelable(t) == transfer[t].status = "funds_received"

CancelTransfer(t) ==
  /\ Cancelable(t)
  /\ LET x == transfer[t] IN Move(x.amount, CurrencyOf[x.account], x.rail, x.account)
  /\ transfer' = [transfer EXCEPT ![t].status = "canceled"]
  /\ UNCHANGED <<customerVars, vault, line, quote>>

-----------------------------------------------------------------------------
(* Vaults. A vault stays usable when its account is closed.                *)
InCurrencyOf(p) == CurrencyOf[AccountOf[p]]

CreateVault(v) ==
  /\ vault[v] = "none" /\ Open(AccountOf[v])
  /\ vault' = [vault EXCEPT ![v] = "active"]
  /\ UNCHANGED <<ledger, customerVars, transfer, line, quote>>

Deposit(v, n) ==
  /\ vault[v] = "active"
  /\ n <= Holds(AccountOf[v], InCurrencyOf(v))
  /\ Move(n, InCurrencyOf(v), AccountOf[v], v)
  /\ UNCHANGED <<customerVars, productVars>>

Withdraw(v, n) ==
  /\ vault[v] = "active"
  /\ n <= Holds(v, InCurrencyOf(v))
  /\ Move(n, InCurrencyOf(v), v, AccountOf[v])
  /\ UNCHANGED <<customerVars, productVars>>

Swept(v) == Holds(v, InCurrencyOf(v))

CloseVault(v) ==
  /\ vault[v] = "active"
  /\ IF Swept(v) > 0 THEN Move(Swept(v), InCurrencyOf(v), v, AccountOf[v]) ELSE UNCHANGED ledger
  /\ vault' = [vault EXCEPT ![v] = "closed"]
  /\ UNCHANGED <<customerVars, transfer, line, quote>>

-----------------------------------------------------------------------------
(* Credit lines. What is drawn is the balance of the line's own book.      *)
Drawable(worth) == LET cap == (worth * Ltv) \div 10000 IN IF Limit < cap THEN Limit ELSE cap

Drawn(l) == Holds(l, InCurrencyOf(l))

OpenLine(l) ==
  /\ line[l] = -1 /\ Open(AccountOf[l])
  /\ \E most \in {Limit} \cup {Drawable(w) : w \in Worths} : line' = [line EXCEPT ![l] = most]
  /\ UNCHANGED <<ledger, customerVars, transfer, vault, quote>>

(* Lower collateral is taken even when more has been drawn.                *)
AdjustCollateral(l, worth) ==
  /\ line[l] >= 0
  /\ line' = [line EXCEPT ![l] = Drawable(worth)]
  /\ UNCHANGED <<ledger, customerVars, transfer, vault, quote>>

FourLegs(l, n) ==
  Together(Moved(n, InCurrencyOf(l), "clearing:credit", AccountOf[l]),
           Moved(n, InCurrencyOf(l), "clearing:credit:liability", l))

Draw(l, n) ==
  /\ line[l] >= 0
  /\ n <= line[l] - Drawn(l)
  /\ Post(FourLegs(l, n))
  /\ UNCHANGED <<customerVars, productVars>>

Repay(l, n) ==
  /\ line[l] >= 0
  /\ n <= Drawn(l) /\ n <= Holds(AccountOf[l], InCurrencyOf(l))
  /\ Post(FourLegs(l, -n))
  /\ UNCHANGED <<customerVars, productVars>>

-----------------------------------------------------------------------------
(* Exchange against a quote: the output is rounded down, and both legs     *)
(* pass through the bank's clearing account.                               *)
Converted(n, from, to, spread) == (n * Mid[from] * (10000 - spread)) \div (Mid[to] * 10000)

CreateQuote(q, from, to, n) ==
  /\ q \in FirstFree(Quotes, quote)
  /\ quote' = [quote EXCEPT ![q] =
       [status |-> "open", from |-> from, to |-> to, pays |-> n,
        gets |-> Converted(n, from, to, Spread), expiresAt |-> now + QuoteLife]]
  /\ UNCHANGED <<ledger, customerVars, transfer, vault, line>>

Executable(q) == quote[q].status = "open" /\ now <= quote[q].expiresAt

ExecuteQuote(q, a, b) ==
  /\ Executable(q)
  /\ Opened(a) /\ Opened(b)
  /\ CurrencyOf[a] = quote[q].from /\ CurrencyOf[b] = quote[q].to
  /\ quote[q].pays <= Holds(a, quote[q].from)
  /\ Post(Together(Moved(quote[q].pays, quote[q].from, a, "fx:clearing"),
                   Moved(quote[q].gets, quote[q].to, "fx:clearing", b)))
  /\ quote' = [quote EXCEPT ![q].status = "executed"]
  /\ UNCHANGED <<customerVars, transfer, vault, line>>

-----------------------------------------------------------------------------
(* Ramps. The account the money leaves is the one that holds the coin.     *)
Ramp(a, coin, n) ==
  Post(Together(Moved(n, Coins[coin], a, "reserve:issuer"), Moved(n, coin, "issuance:coin", a)))

OnRamp(a, coin, n) ==
  /\ Opened(a) /\ CurrencyOf[a] = Coins[coin]
  /\ n <= Holds(a, CurrencyOf[a])
  /\ Ramp(a, coin, n)
  /\ UNCHANGED <<customerVars, productVars>>

OffRamp(a, coin, n) ==
  /\ Opened(a) /\ CurrencyOf[a] = Coins[coin]
  /\ n <= Holds(a, coin)
  /\ Ramp(a, coin, -n)
  /\ UNCHANGED <<customerVars, productVars>>

Rail ==
  \E t \in Transfers :
    \/ \E a \in Accounts, r \in DOMAIN Rails, n \in Amounts : CreateTransfer(t, a, r, n)
    \/ Settle(t) \/ CancelTransfer(t)

Saving ==
  \/ \E v \in Vaults :
       \/ CreateVault(v) \/ CloseVault(v)
       \/ \E n \in Amounts : Deposit(v, n) \/ Withdraw(v, n)
  \/ \E l \in Lines :
       \/ OpenLine(l)
       \/ \E w \in Worths : AdjustCollateral(l, w)
       \/ \E n \in Amounts : Draw(l, n) \/ Repay(l, n)

Exchanging ==
  \/ \E q \in Quotes :
       \/ \E c \in Currencies, d \in Currencies, n \in Amounts :
            CreateQuote(q, c, d, n)
       \/ \E a \in Accounts, b \in Accounts : ExecuteQuote(q, a, b)
  \/ \E a \in Accounts, coin \in DOMAIN Coins, n \in Amounts :
       OnRamp(a, coin, n) \/ OffRamp(a, coin, n)

-----------------------------------------------------------------------------
(* The bank's own books can be explained from the records alone, whatever  *)
(* was cancelled, repaid, closed or exchanged in between: a rail's         *)
(* clearing account holds the transfers that were not cancelled, the       *)
(* credit books what is drawn, a closed vault nothing, an exchange never   *)
(* costs the bank anything at the mids, the reserve backs every coin, and  *)
(* the simulator paid in what its settled payments say.                    *)
(* (server.js transfers; products.js; fx.js ramps; platform.js sandbox.)   *)
Sent(r) == {t \in Transfers : transfer[t].rail = r /\ transfer[t].status # "canceled"}
LinesIn(c) == {l \in Lines : InCurrencyOf(l) = c}
DrawnIn(c) == SumFunctionOnSet([l \in Lines |-> Drawn(l)], LinesIn(c))

RailExplained(r) ==
  Holds(r, Rails[r].currency) =
    SumFunctionOnSet([t \in Transfers |-> transfer[t].amount], Sent(r))

CreditExplained(c) ==
  /\ \A l \in LinesIn(c) : Drawn(l) >= 0
  /\ Holds("clearing:credit:liability", c) = -DrawnIn(c)
  /\ Holds("clearing:credit", c) = -DrawnIn(c)

ExchangeCovered ==
  SumFunctionOnSet([c \in Currencies |-> Holds("fx:clearing", c) * Mid[c]], Currencies) >= 0

(* One issuer stands behind every coin; its reserve is kept by currency.   *)
RedeemedIn(c) == {coin \in DOMAIN Coins : Coins[coin] = c}
ReserveExplained(c) ==
  Holds("reserve:issuer", c) =
    -SumFunctionOnSet([coin \in DOMAIN Coins |-> Holds("issuance:coin", coin)], RedeemedIn(c))

ProductBooksExplained ==
  /\ \A r \in DOMAIN Rails : RailExplained(r)
  /\ \A c \in Currencies : CreditExplained(c)
  /\ ExchangeCovered
  /\ \A v \in Vaults : vault[v] = "closed" => Holds(v, InCurrencyOf(v)) = 0
  /\ \A coin \in DOMAIN Coins : Holds("issuance:coin", coin) <= 0
  /\ \A c \in Currencies : ReserveExplained(c)
  /\ \A c \in Currencies : -Holds("external:sandbox", c) = PaidBySimulation(c)

-----------------------------------------------------------------------------
(***************************************************************************)
(* Cards over an account: freezing by whoever asks first, authorisations   *)
(* that hold no money until they are approved, and disputes.               *)
(***************************************************************************)
CONSTANTS
  Cards, Authorisations, Disputes,
  CardAccount,       \* [Cards -> Accounts]
  Physical,          \* the cards that are shipped before they work
  CardKeys,          \* API keys of the tenant
  Admins,            \* those that hold the `cards:*` permission
  Controls,          \* what may be set for a card, see CardsAssumption
  MerchantCategories,
  DayLength,         \* ticks of the clock in a day
  MonthLength,       \* and in a month
  ResponseTime       \* how long a dispute takes evidence

(* The most one authorisation may take, those of a day and those of a      *)
(* month; the categories that are declined, and if any are named the only  *)
(* ones that are not.                                                      *)
ASSUME CardsAssumption ==
  /\ CardAccount \in [Cards -> Accounts]
  /\ Controls \subseteq [each : Nat, daily : Nat, monthly : Nat,
                         blocked : SUBSET MerchantCategories, allowed : SUBSET MerchantCategories]

VARIABLES
  card,              \* [status, by]: by is the key recorded with the freeze
  controls,          \* the limits and merchant categories of a card
  authorisation,     \* [status, card, amount, at]
  dispute,           \* [status, of, deadline]
  holds              \* history: the keys whose freeze nobody entitled has lifted

cardVars == <<card, controls, authorisation, dispute, holds>>

CardTypeOK ==
  /\ card \in [Cards -> [status : {"none", "pending_activation", "active", "frozen"},
                         by : CardKeys \cup {NoOne}]]
  /\ controls \in [Cards -> Controls]
  /\ authorisation \in [Authorisations ->
       [status : {"none", "pending", "settled", "declined"}, card : Cards \cup {NoOne},
        amount : Nat, at : Nat]]
  /\ dispute \in [Disputes -> [status : {"none", "open", "evidence_submitted"},
                               of : Authorisations \cup {NoOne}, deadline : Nat]]
  /\ holds \in [Cards -> SUBSET CardKeys]

CardInit ==
  /\ card = [k \in Cards |-> [status |-> "none", by |-> NoOne]]
  /\ controls = [k \in Cards |-> CHOOSE set \in Controls : TRUE]
  /\ authorisation = [u \in Authorisations |->
       [status |-> "none", card |-> NoOne, amount |-> 0, at |-> 0]]
  /\ dispute = [d \in Disputes |-> [status |-> "none", of |-> NoOne, deadline |-> 0]]
  /\ holds = [k \in Cards |-> {}]

-----------------------------------------------------------------------------
Issued(k) == card[k].status # "none"

CreateCard(k, set) ==
  /\ ~Issued(k)
  /\ Open(CardAccount[k]) /\ Active(HolderOf[CardAccount[k]])
  /\ card' = [card EXCEPT ![k].status =
       IF k \in Physical THEN "pending_activation" ELSE "active"]
  /\ controls' = [controls EXCEPT ![k] = set]
  /\ UNCHANGED <<ledger, customerVars, authorisation, dispute, holds>>

(* Freezing a frozen card replaces the key recorded with it.               *)
Freeze(k, key) ==
  /\ Issued(k)
  /\ card' = [card EXCEPT ![k] = [status |-> "frozen", by |-> key]]
  /\ holds' = [holds EXCEPT ![k] = @ \cup {key}]
  /\ UNCHANGED <<ledger, customerVars, controls, authorisation, dispute>>

MayUnfreeze(k, key) == key \in Admins \/ card[k].by = key

(* A card that never was activated leaves the freeze active.               *)
Unfreeze(k, key) ==
  /\ card[k].status = "frozen" /\ MayUnfreeze(k, key)
  /\ card' = [card EXCEPT ![k] = [status |-> "active", by |-> NoOne]]
  /\ holds' = [holds EXCEPT ![k] = IF key \in Admins THEN {} ELSE @ \ {key}]
  /\ UNCHANGED <<ledger, customerVars, controls, authorisation, dispute>>

SetControls(k, set) ==
  /\ Issued(k)
  /\ controls' = [controls EXCEPT ![k] = set]
  /\ UNCHANGED <<ledger, customerVars, card, authorisation, dispute, holds>>

-----------------------------------------------------------------------------
(* Authorisations. Neither the balance nor the account's status is looked  *)
(* at when one is asked for; what a pending one will take is not held.     *)
(* Policies come first, then what the card declines and keeps a record of, *)
(* then its limits, which leave none.                                      *)
Counted(u, k, length) ==
  /\ authorisation[u].card = k /\ authorisation[u].status \in {"pending", "settled"}
  /\ authorisation[u].at \div length = now \div length

SpentIn(length, k) ==
  SumOf({u \in Authorisations : Counted(u, k, length)}, LAMBDA u : authorisation[u].amount)

DeclinedAtOnce(k, category) ==
  \/ card[k].status \in {"frozen", "pending_activation"}
  \/ category \in controls[k].blocked
  \/ controls[k].allowed # {} /\ category \notin controls[k].allowed

WithinLimits(k, n) ==
  /\ n <= controls[k].each
  /\ SpentIn(DayLength, k) + n <= controls[k].daily
  /\ SpentIn(MonthLength, k) + n <= controls[k].monthly

Authorise(u, k, n, category) ==
  /\ u \in FirstFree(Authorisations, authorisation)
  /\ Issued(k) /\ WithinPolicies(k, n)
  /\ DeclinedAtOnce(k, category) \/ WithinLimits(k, n)
  /\ authorisation' = [authorisation EXCEPT ![u] =
       [status |-> IF DeclinedAtOnce(k, category) THEN "declined" ELSE "pending",
        card |-> k, amount |-> n, at |-> now]]
  /\ UNCHANGED <<ledger, customerVars, card, controls, dispute, holds>>

ApproveAuthorisation(u) ==
  LET a == CardAccount[authorisation[u].card] IN
  /\ authorisation[u].status = "pending"
  /\ authorisation[u].amount <= Holds(a, CurrencyOf[a])
  /\ Move(authorisation[u].amount, CurrencyOf[a], a, "clearing:card_authorisations")
  /\ authorisation' = [authorisation EXCEPT ![u].status = "settled"]
  /\ UNCHANGED <<customerVars, card, controls, dispute, holds>>

DeclineAuthorisation(u) ==
  /\ authorisation[u].status = "pending"
  /\ authorisation' = [authorisation EXCEPT ![u].status = "declined"]
  /\ UNCHANGED <<ledger, customerVars, card, controls, dispute, holds>>

-----------------------------------------------------------------------------
(* Disputes of what has settled; no handler ever decides one.              *)
CreateDispute(d, u) ==
  /\ dispute[d].status = "none"
  /\ authorisation[u].status = "settled"
  /\ \A e \in Disputes : dispute[e].of # u
  /\ dispute' = [dispute EXCEPT ![d] =
       [status |-> "open", of |-> u, deadline |-> now + ResponseTime]]
  /\ UNCHANGED <<ledger, customerVars, card, controls, authorisation, holds>>

SubmitEvidence(d) ==
  /\ dispute[d].status # "none"
  /\ now <= dispute[d].deadline
  /\ dispute' = [dispute EXCEPT ![d].status = "evidence_submitted"]
  /\ UNCHANGED <<ledger, customerVars, card, controls, authorisation, holds>>

CardNext ==
  \/ /\ \/ \E k \in Cards :
             \/ \E key \in CardKeys : Freeze(k, key) \/ Unfreeze(k, key)
             \/ \E set \in Controls : CreateCard(k, set) \/ SetControls(k, set)
             \/ \E u \in Authorisations, n \in Amounts, category \in MerchantCategories :
                  Authorise(u, k, n, category)
        \/ \E u \in Authorisations :
             \/ ApproveAuthorisation(u) \/ DeclineAuthorisation(u)
             \/ \E d \in Disputes : CreateDispute(d, u)
        \/ \E d \in Disputes : SubmitEvidence(d)
     /\ UNCHANGED policy
  \/ PolicyNext({k \in Cards : Issued(k)}) /\ UNCHANGED <<ledger, customerVars, cardVars>>

-----------------------------------------------------------------------------
(* A freeze stays on a card until the key that set it, or an administrator *)
(* of cards, lifts it: no other key of the tenant can undo it              *)
(* (kernel.js assertRouteAuthority; cards.js freeze and unfreeze).         *)
FreezeAuthority == \A k \in Cards : holds[k] # {} => card[k].status = "frozen"
=============================================================================
