--------------------------- MODULE MonetaryReserve ---------------------------
(***************************************************************************)
(* MonetaryEngine (packages/fx-monetary/src/index.js): instruments backed  *)
(* by settled reserve deposits, and receipts that lock reserve for a       *)
(* purpose until they are consumed or lapse.                               *)
(*                                                                         *)
(* Every call is one synchronous transaction; a call that throws changes   *)
(* nothing, the receipts it had let lapse included. What an instrument is  *)
(* backed by is fixed, as the runtime configures it at each start. Names,  *)
(* beneficiaries and purposes are left out. The event table is kept as the *)
(* sum of the amounts of each kind of event.                               *)
(***************************************************************************)
EXTENDS NodeClock, Integers, FiniteSets, Functions

CONSTANTS
  Instruments, Currencies,
  BackedBy,         \* BackedBy[i]: reserve currency of an instrument
  Coverage,         \* Coverage[i]: minimum coverage in basis points
  Deposits,         \* deposit identifiers, in their order (a set of numbers)
  Receipts,         \* receipt identifiers
  References,       \* provider references of deposits
  Sizes,            \* amounts of calls
  Capital,          \* amounts of risk capital
  Terms             \* lifetimes of receipts

ASSUME MonetaryAssumption ==
  /\ Currencies # {} /\ BackedBy \in [Instruments -> Currencies]
  /\ Coverage \in [Instruments -> Nat] /\ \A i \in Instruments : Coverage[i] >= 10000
  /\ Deposits \subseteq Nat /\ IsFiniteSet(Deposits)
  /\ IsFiniteSet(Instruments) /\ IsFiniteSet(Receipts)
  /\ Sizes \subseteq Nat \ {0} /\ Capital \subseteq Nat /\ Terms \subseteq Nat \ {0}

VARIABLES
  enabled,     \* instruments that may be minted
  supply,      \* monetary_supply
  deposits,    \* monetary_reserve_deposits
  receipts,    \* monetary_receipts
  capital,     \* monetary_risk_capital
  booked       \* monetary_events, summed by kind and currency

monetaryVars == <<enabled, supply, deposits, receipts, capital, booked>>

DepositStates == {"none", "PENDING", "SETTLED", "REDEEMED", "DISBURSED"}
ReceiptStates == {"none", "ACTIVE", "CONSUMED", "EXPIRED"}
Kinds == {"SETTLED", "MINTED", "REDEEMED", "CREATED", "CONSUMED", "EXPIRED"}
AnyCurrency == CHOOSE c \in Currencies : TRUE
NoReference == "none"

MonetaryTypeOK ==
  /\ enabled \subseteq Instruments
  /\ supply \in [Instruments -> Nat]
  /\ deposits \in [Deposits -> [state : DepositStates, currency : Currencies,
                                amount : Nat, reference : References \cup {NoReference}, settledAt : Nat]]
  /\ receipts \in [Receipts -> [state : ReceiptStates, currency : Currencies,
                                amount : Nat, expiresAt : Nat]]
  /\ capital \in [Currencies -> Nat]
  /\ booked \in [Kinds -> [Currencies -> Nat]]

MonetaryInit ==
  /\ enabled = Instruments
  /\ supply = [i \in Instruments |-> 0]
  /\ deposits = [d \in Deposits |-> [state |-> "none", currency |-> AnyCurrency,
                    amount |-> 0, reference |-> NoReference, settledAt |-> 0]]
  /\ receipts = [r \in Receipts |-> [state |-> "none", currency |-> AnyCurrency,
                    amount |-> 0, expiresAt |-> 0]]
  /\ capital = [c \in Currencies |-> 0]
  /\ booked = [k \in Kinds |-> [c \in Currencies |-> 0]]

-----------------------------------------------------------------------------
(* Totals of a currency *)

Live(d, c) == deposits[d].state = "SETTLED" /\ deposits[d].currency = c
Locked(r, c) == receipts[r].state = "ACTIVE" /\ receipts[r].currency = c
Lapsed(r, c) == Locked(r, c) /\ receipts[r].expiresAt <= now

Settled(c) == SumFunctionOnSet([d \in Deposits |-> deposits[d].amount],
                               {d \in Deposits : Live(d, c)})
Supply(c) == SumFunctionOnSet(supply, {i \in Instruments : BackedBy[i] = c})
LockedIn(S) == SumFunctionOnSet([r \in Receipts |-> receipts[r].amount], S)
LockedReceipts(c) == LockedIn({r \in Receipts : Locked(r, c)})
LapsedReceipts(c) == LockedIn({r \in Receipts : Lapsed(r, c)})

(* Once the lapsed receipts are put aside. *)
Unallocated(c) == Settled(c) - Supply(c) - (LockedReceipts(c) - LapsedReceipts(c))

Book(kind, c, n) == booked' = [booked EXCEPT ![kind][c] = @ + n]

(* expireReceipts, with what else the transaction books. *)
Expired(c) == [r \in Receipts |-> IF Lapsed(r, c)
                 THEN [receipts[r] EXCEPT !.state = "EXPIRED"] ELSE receipts[r]]
BookToo(kind, c, n) ==
  booked' = [booked EXCEPT !["EXPIRED"][c] = @ + LapsedReceipts(c), ![kind][c] = @ + n]

-----------------------------------------------------------------------------
(* configureInstrument and disableInstrument, at a start of the runtime.   *)

ConfigureInstrument(i) ==
  /\ enabled' = enabled \cup {i}
  /\ UNCHANGED <<supply, deposits, receipts, capital, booked>>

DisableInstrument(i) ==
  /\ supply[i] = 0
  /\ enabled' = enabled \ {i}
  /\ UNCHANGED <<supply, deposits, receipts, capital, booked>>

SetRiskCapital(c, n) ==
  /\ capital' = [capital EXCEPT ![c] = n]
  /\ UNCHANGED <<enabled, supply, deposits, receipts, booked>>

(* A reference of the reserve's provider is used once. *)
CreateReserveDeposit(d, c, n, ref) ==
  /\ deposits[d].state = "none"
  /\ \A x \in Deposits : deposits[x].reference # ref
  /\ deposits' = [deposits EXCEPT ![d] = [state |-> "PENDING", currency |-> c,
                    amount |-> n, reference |-> ref, settledAt |-> 0]]
  /\ UNCHANGED <<enabled, supply, receipts, capital, booked>>

SettleAgain(d) == deposits[d].state \in {"PENDING", "SETTLED"}   \* mutant
Settles(d) == deposits[d].state = "PENDING"
SettleReserveDeposit(d) ==
  /\ Settles(d)
  /\ deposits' = [deposits EXCEPT ![d].state = "SETTLED", ![d].settledAt = now]
  /\ Book("SETTLED", deposits[d].currency, deposits[d].amount)
  /\ UNCHANGED <<enabled, supply, receipts, capital>>

-----------------------------------------------------------------------------
(* Reserve is spent from the settled deposits, the oldest first. *)

Before(x, d) == \/ deposits[x].settledAt < deposits[d].settledAt
                \/ deposits[x].settledAt = deposits[d].settledAt /\ x < d
Ahead(d, c) == SumFunctionOnSet([x \in Deposits |-> deposits[x].amount],
                                {x \in Deposits : Live(x, c) /\ Before(x, d)})
Taken(d, c, n) ==
  LET left == n - Ahead(d, c) IN
  IF ~Live(d, c) \/ left <= 0 THEN 0
  ELSE IF left < deposits[d].amount THEN left ELSE deposits[d].amount

Spent(d, c, n, final) ==
  IF ~Live(d, c) \/ Taken(d, c, n) = 0 THEN deposits[d]
  ELSE IF Taken(d, c, n) = deposits[d].amount
       THEN [deposits[d] EXCEPT !.amount = 0, !.state = final]
       ELSE [deposits[d] EXCEPT !.amount = @ - Taken(d, c, n)]
Spend(c, n, final) ==
  /\ Settled(c) >= n
  /\ deposits' = [d \in Deposits |-> Spent(d, c, n, final)]

(* Minting looks at the coverage of every instrument of the currency. *)
Required(i, n) == (n * Coverage[i] + 9999) \div 10000
Covered(c, i, n) ==
  Settled(c) >= SumFunctionOnSet(
    [x \in Instruments |-> Required(x, supply[x] + IF x = i THEN n ELSE 0)],
    {x \in Instruments : BackedBy[x] = c})

Mint(i, n) ==
  LET c == BackedBy[i] IN
  /\ i \in enabled
  /\ Unallocated(c) >= n
  /\ Covered(c, i, n)
  /\ supply' = [supply EXCEPT ![i] = @ + n]
  /\ receipts' = Expired(c)
  /\ BookToo("MINTED", c, n)
  /\ UNCHANGED <<enabled, deposits, capital>>

Redeem(i, n) ==
  LET c == BackedBy[i] IN
  /\ supply[i] >= n
  /\ Spend(c, n, "REDEEMED")
  /\ supply' = [supply EXCEPT ![i] = @ - n]
  /\ Book("REDEEMED", c, n)
  /\ UNCHANGED <<enabled, receipts, capital>>

CreateReceipt(r, c, n, term) ==
  /\ receipts[r].state = "none"
  /\ Unallocated(c) >= n
  /\ receipts' = [Expired(c) EXCEPT ![r] = [state |-> "ACTIVE", currency |-> c,
                    amount |-> n, expiresAt |-> now + term]]
  /\ BookToo("CREATED", c, n)
  /\ UNCHANGED <<enabled, supply, deposits, capital>>

StillMarked(r) == receipts[r].state \in {"ACTIVE", "EXPIRED"}   \* mutant
Consumable(r) == receipts[r].state = "ACTIVE" /\ receipts[r].expiresAt > now
ConsumeReceipt(r) ==
  LET c == receipts[r].currency  n == receipts[r].amount IN
  /\ Consumable(r)
  /\ Spend(c, n, "DISBURSED")
  /\ receipts' = [receipts EXCEPT ![r].state = "CONSUMED"]
  /\ Book("CONSUMED", c, n)
  /\ UNCHANGED <<enabled, supply, capital>>

(* health, and getReceipt of a receipt that has lapsed. *)
Look(c) ==
  /\ \E r \in Receipts : Lapsed(r, c)
  /\ receipts' = Expired(c)
  /\ Book("EXPIRED", c, LapsedReceipts(c))
  /\ UNCHANGED <<enabled, supply, deposits, capital>>

MonetaryNext ==
  \/ \E i \in Instruments : ConfigureInstrument(i) \/ DisableInstrument(i)
  \/ \E c \in Currencies : Look(c) \/ \E n \in Capital : SetRiskCapital(c, n)
  \/ \E d \in Deposits, c \in Currencies, n \in Sizes, ref \in References :
       CreateReserveDeposit(d, c, n, ref)
  \/ \E d \in Deposits : SettleReserveDeposit(d)
  \/ \E i \in Instruments, n \in Sizes : Mint(i, n) \/ Redeem(i, n)
  \/ \E r \in Receipts, c \in Currencies, n \in Sizes, term \in Terms :
       CreateReceipt(r, c, n, term)
  \/ \E r \in Receipts : ConsumeReceipt(r)

MonetarySpec ==
  /\ MonetaryInit /\ now = 0
  /\ [][(MonetaryNext /\ UNCHANGED now) \/ (Tick /\ UNCHANGED monetaryVars)]_<<monetaryVars, now>>

-----------------------------------------------------------------------------
(* Settled reserve covers every instrument outstanding and every receipt   *)
(* that is active, so that a holder who redeems and the bearer of a live   *)
(* receipt always find it. Reserve is spent from deposits that belong to   *)
(* nobody in particular, by redemptions and receipts alike; only the       *)
(* checks at issue keep the one from spending what the other counts on.    *)
Backed == \A c \in Currencies : Settled(c) >= Supply(c) + LockedReceipts(c)

(* The event table reconciles with the balances: what was settled less     *)
(* what was redeemed and disbursed is still there, what was minted less    *)
(* what was redeemed is outstanding, and every receipt is accounted for.   *)
EventsReconcile ==
  \A c \in Currencies :
    /\ Settled(c) = booked["SETTLED"][c] - booked["REDEEMED"][c] - booked["CONSUMED"][c]
    /\ Supply(c) = booked["MINTED"][c] - booked["REDEEMED"][c]
    /\ LockedReceipts(c) = booked["CREATED"][c] - booked["CONSUMED"][c] - booked["EXPIRED"][c]

(* What may be redeemed or collected is there, and the events tell how it  *)
(* came about (packages/fx-monetary).                                      *)
HoldersCanCollect == Backed /\ EventsReconcile
=============================================================================
