--------------------------- MODULE BankCustomers ---------------------------
(***************************************************************************)
(* The banking API's ledger and the unit of work every request runs in.    *)
(*                                                                         *)
(* Requests are serialized, and the rows a request writes are committed    *)
(* together or not at all, so a request is one action: what it posts,      *)
(* what it changes in its records and the events it stages happen in one   *)
(* step, and a request that throws changes nothing. Amounts are minor      *)
(* units. A book is one account in one currency.                           *)
(***************************************************************************)
EXTENDS Integers, FiniteSetsExt, Functions, TLC

CONSTANTS
  Held,         \* accounts, wallets, vaults: names without a colon
  House,        \* the bank's own accounts: names with a colon
  Currencies,
  NoOne         \* where nothing is named

AnyCurrency == CHOOSE c \in Currencies : TRUE      \* of what is not there yet

Books == (Held \cup House) \X Currencies

VARIABLE ledger      \* the balance of every book

LedgerTypeOK == ledger \in [Books -> Int]

LedgerInit == ledger = [b \in Books |-> 0]

-----------------------------------------------------------------------------
(* One transaction: entries gives the amount added to each book it names.  *)
Balanced(entries) == FoldFunction(+, 0, entries) = 0

(* A customer's book cannot be overdrawn; the bank's own books can.        *)
NoOverdraft(entries) ==
  \A b \in DOMAIN entries :
    b[1] \in Held /\ entries[b] < 0 => ledger[b] + entries[b] >= 0

Posted(entries) ==
  [b \in Books |-> ledger[b] + IF b \in DOMAIN entries THEN entries[b] ELSE 0]

Post(entries) ==
  Balanced(entries) /\ NoOverdraft(entries) /\ ledger' = Posted(entries)

Moved(n, c, from, to) == [b \in {<<from, c>>, <<to, c>>} |-> IF b = <<from, c>> THEN -n ELSE n]

(* Two transactions of one request.                                        *)
Together(one, two) ==
  [b \in DOMAIN one \cup DOMAIN two |->
     (IF b \in DOMAIN one THEN one[b] ELSE 0) + (IF b \in DOMAIN two THEN two[b] ELSE 0)]

Move(n, c, from, to) == Post(Moved(n, c, from, to))

Holds(a, c) == ledger[<<a, c>>]

(* Rows are created in the order of their ids, 1 .. n.                     *)
FirstFree(ids, row) ==
  {n \in ids : row[n].status = "none" /\ n = 1 + Cardinality({m \in ids : row[m].status # "none"})}

SumOf(S, n(_)) == FoldSet(LAMBDA x, total : n(x) + total, 0, S)

-----------------------------------------------------------------------------
(***************************************************************************)
(* Customers, their onboarding applications, their accounts and the        *)
(* sandbox simulations that settle payments and decide onboarding.         *)
(***************************************************************************)
CONSTANTS
  Customers, Accounts, Applications, Simulations,
  HolderOf,          \* [Accounts -> Customers]: whom the account is opened for
  CurrencyOf,        \* [Accounts -> Currencies]
  Amounts,           \* amounts a request may name
  MaxFunds           \* bound: what enters an account from outside in one run

VARIABLES
  customer,          \* [live, status, decision] of a customer
  account,           \* "none", "open" or "closed"
  application,       \* [of, status, decision]
  simulation         \* [of, status, amount]

customerVars == <<customer, account, application, simulation>>

Decisions == {"approved", "declined", "withdrawn"}
Funds == <<"external:funding", "external:sandbox">>

ASSUME CustomersAssumption ==
  /\ Held \cap House = {}
  /\ Accounts \subseteq Held /\ {Funds[1], Funds[2]} \subseteq House
  /\ CurrencyOf \in [Accounts -> Currencies]
  /\ Amounts \subseteq Nat

CustomerTypeOK ==
  /\ customer \in [Customers ->
       [live : {"no", "yes", "deleted"},
        status : {"pending", "in_review", "compliance_hold", "completed"},
        decision : Decisions \cup {"none"}]]
  /\ account \in [Accounts -> {"none", "open", "closed"}]
  /\ application \in [Applications ->
       [of : Customers \cup {NoOne},
        status : {"none", "pending", "submitted", "compliance_review", "completed"},
        decision : Decisions \cup {"none"}]]
  /\ simulation \in [Simulations ->
       [of : Customers \cup Accounts \cup {NoOne},
        status : {"none", "awaiting_confirmation", "settled", "failed", "in_review",
                  "compliance_hold", "completed"},
        amount : Nat]]

CustomerInit ==
  /\ customer = [c \in Customers |-> [live |-> "no", status |-> "pending", decision |-> "none"]]
  /\ account = [a \in Accounts |-> "none"]
  /\ application = [p \in Applications |-> [of |-> NoOne, status |-> "none", decision |-> "none"]]
  /\ simulation = [s \in Simulations |-> [of |-> NoOne, status |-> "none", amount |-> 0]]

-----------------------------------------------------------------------------
(* What every product asks before it starts (resource-lifecycle.js).       *)
Active(c) == customer[c].live = "yes"
Open(a) == account[a] = "open"
Opened(a) == account[a] # "none"
Existing(c) == customer[c].live # "no"

CreateCustomer(c) ==
  /\ ~Existing(c)
  /\ customer' = [customer EXCEPT ![c].live = "yes"]
  /\ UNCHANGED <<ledger, account, application, simulation>>

Decided(c, status, decision) ==
  customer' = [customer EXCEPT ![c].status = status, ![c].decision = decision]

(* The sandbox helper that decides a customer; the record may be deleted.  *)
VerifyCustomer(c, decision) ==
  /\ Existing(c)
  /\ Decided(c, "completed", decision)
  /\ UNCHANGED <<ledger, account, application, simulation>>

(* An account record, even a closed one, and an application still under    *)
(* way keep a customer; linked names those the other products keep.        *)
DeleteCustomer(c, linked) ==
  /\ Active(c)
  /\ c \notin linked
  /\ \A a \in Accounts : Opened(a) => HolderOf[a] # c
  /\ \A p \in Applications :
       application[p].of = c => application[p].status \in {"none", "completed"}
  /\ customer' = [customer EXCEPT ![c].live = "deleted"]
  /\ UNCHANGED <<ledger, account, application, simulation>>

-----------------------------------------------------------------------------
(* Onboarding applications.                                                *)
CreateApplication(p, c) ==
  /\ application[p].status = "none"
  /\ c # NoOne => Active(c)
  /\ application' = [application EXCEPT ![p] = [of |-> c, status |-> "pending", decision |-> "none"]]
  /\ UNCHANGED <<ledger, customer, account, simulation>>

SubmitApplication(p) ==
  /\ application[p].status = "pending"
  /\ application[p].of # NoOne => Active(application[p].of)
  /\ application' = [application EXCEPT ![p].status = "submitted"]
  /\ UNCHANGED <<ledger, customer, account, simulation>>

(* Enhanced due diligence: with a decision it completes an application     *)
(* whatever its stage; without, it only moves a submitted one to review.   *)
EnhancedDueDiligence(p, decision) ==
  /\ application[p].status \notin {"none", "completed"}
  /\ application' =
       IF decision # "none"
       THEN [application EXCEPT ![p].status = "completed", ![p].decision = decision]
       ELSE IF application[p].status = "submitted"
       THEN [application EXCEPT ![p].status = "compliance_review"]
       ELSE application
  /\ UNCHANGED <<ledger, customer, account, simulation>>

-----------------------------------------------------------------------------
(* Accounts.                                                               *)
OpenAccount(a) ==
  /\ ~Opened(a) /\ Active(HolderOf[a])
  /\ account' = [account EXCEPT ![a] = "open"]
  /\ UNCHANGED <<ledger, customer, application, simulation>>

Entered == -SumOf({Funds[1], Funds[2]} \X Currencies, LAMBDA b : ledger[b])

CreditAccount(a, n) ==
  /\ Opened(a)
  /\ Entered + n <= MaxFunds
  /\ Move(n, CurrencyOf[a], Funds[1], a)
  /\ UNCHANGED customerVars

(* Only the balance in the account's own currency is looked at.            *)
CloseAccount(a) ==
  /\ Open(a)
  /\ Holds(a, CurrencyOf[a]) = 0
  /\ account' = [account EXCEPT ![a] = "closed"]
  /\ UNCHANGED <<ledger, customer, application, simulation>>

-----------------------------------------------------------------------------
(* Simulations. A simulation id that exists is answered with the existing  *)
(* simulation, so each is created once.                                    *)
CreditSandboxAccount(status, a, n) ==
  IF status = "settled" /\ a # NoOne
  THEN Move(n, CurrencyOf[a], Funds[2], a)
  ELSE UNCHANGED ledger

SimulatePayment(s, status, a, n) ==
  /\ simulation[s].status = "none"
  /\ a # NoOne => Opened(a) /\ Entered + n <= MaxFunds
  /\ simulation' = [simulation EXCEPT ![s] = [of |-> a, status |-> status, amount |-> n]]
  /\ CreditSandboxAccount(status, a, n)
  /\ UNCHANGED <<customer, account, application>>

SimulateOnboarding(s, status, decision, c) ==
  /\ simulation[s].status = "none"
  /\ c # NoOne => Existing(c)
  /\ simulation' = [simulation EXCEPT ![s] = [of |-> c, status |-> status, amount |-> 0]]
  /\ IF c # NoOne THEN Decided(c, status, decision) ELSE UNCHANGED customer
  /\ UNCHANGED <<ledger, account, application>>

Awaiting(s) ==
  simulation[s].status \in {"awaiting_confirmation", "in_review", "compliance_hold"}

AdvancePayment(s, status) ==
  /\ Awaiting(s) /\ simulation[s].status = "awaiting_confirmation"
  /\ simulation' = [simulation EXCEPT ![s].status = status]
  /\ CreditSandboxAccount(status, simulation[s].of, simulation[s].amount)
  /\ UNCHANGED <<customer, account, application>>

AdvanceOnboarding(s, decision) ==
  /\ Awaiting(s) /\ simulation[s].status # "awaiting_confirmation"
  /\ simulation' = [simulation EXCEPT ![s].status = "completed"]
  /\ IF simulation[s].of # NoOne
     THEN Decided(simulation[s].of, "completed", decision) ELSE UNCHANGED customer
  /\ UNCHANGED <<ledger, account, application>>

Scenarios == {<<"completed", "approved">>, <<"completed", "declined">>,
              <<"in_review", "none">>, <<"compliance_hold", "none">>}

Onboarding(linked) ==
  \/ \E c \in Customers :
       \/ CreateCustomer(c) \/ DeleteCustomer(c, linked)
       \/ \E d \in Decisions : VerifyCustomer(c, d)
  \/ \E p \in Applications :
       \/ \E c \in Customers \cup {NoOne} : CreateApplication(p, c)
       \/ SubmitApplication(p)
       \/ \E d \in Decisions \cup {"none"} : EnhancedDueDiligence(p, d)
  \/ \E s \in Simulations :
       \/ \E c \in Customers \cup {NoOne}, w \in Scenarios : SimulateOnboarding(s, w[1], w[2], c)
       \/ \E d \in Decisions : AdvanceOnboarding(s, d)

Banking(accounts) ==
  \E a \in accounts :
       \/ OpenAccount(a) \/ CloseAccount(a)
       \/ \E n \in Amounts : CreditAccount(a, n)

Simulating ==
  \E s \in Simulations :
       \/ \E a \in Accounts \cup {NoOne}, n \in Amounts :
            \E status \in {"settled", "awaiting_confirmation", "failed"} :
              SimulatePayment(s, status, a, n)
       \/ \E status \in {"settled", "failed"} : AdvancePayment(s, status)

-----------------------------------------------------------------------------
(* What the simulations paid in is what the ledger says came from them.    *)
SettledIn(c) ==
  {s \in Simulations : simulation[s].status = "settled"
     /\ simulation[s].of \in Accounts /\ CurrencyOf[simulation[s].of] = c}

PaidBySimulation(c) ==
  SumFunctionOnSet([s \in Simulations |-> simulation[s].amount], SettledIn(c))
=============================================================================
