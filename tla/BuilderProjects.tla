---------------------------- MODULE BuilderProjects ----------------------------
(***************************************************************************)
(* The sandbox builder: a product brief becomes a project whose test       *)
(* customers and accounts live in the bank's own ledger beside everyone    *)
(* else's. A blueprint is reduced to the currencies it names, in order.    *)
(***************************************************************************)
EXTENDS BankProducts, Sequences

CONSTANTS
  Projects,
  Seeds,             \* [Projects -> SUBSET Accounts]: what provisioning may open
  SeedBook, PayoutBook,    \* [Projects -> House]
  SeedAmount,        \* [Accounts -> Amounts]
  Blueprints,        \* sequences of currencies a brief may ask for
  MaxSeeded,         \* how many of them are opened for the test customers
  Payments           \* ids of test payments, 1 .. n

VARIABLES
  project,           \* [status, currencies, accounts]
  journey            \* [status, of, from, amount] of a test payment

builderVars == <<project, journey>>

(* A brief asks for currencies that its test accounts are kept in, and     *)
(* every project has two books of its own.                                 *)
ProjectBooks == {SeedBook[p] : p \in Projects} \cup {PayoutBook[p] : p \in Projects}

ASSUME ProjectsAssumption ==
  /\ Seeds \in [Projects -> SUBSET Accounts] /\ SeedAmount \in [Accounts -> Nat]
  /\ \A blueprint \in Blueprints :
       /\ blueprint \in Seq(Currencies)
       /\ \A p \in Projects, i \in DOMAIN blueprint \cap 1 .. MaxSeeded :
            \E a \in Seeds[p] : CurrencyOf[a] = blueprint[i]
  /\ ProjectBooks \subseteq House \ (OwnBooks \cup DOMAIN Rails)
  /\ \A p, q \in Projects :
       SeedBook[p] # PayoutBook[q] /\ (p # q => SeedBook[p] # SeedBook[q] /\ PayoutBook[p] # PayoutBook[q])
  /\ NoOne \notin Projects /\ IsFiniteSet(Payments)

NoProject == [status |-> "none", currencies |-> <<>>, accounts |-> {}]
NoJourney == [status |-> "none", of |-> NoOne, from |-> NoOne, amount |-> 0]

BuilderTypeOK ==
  /\ project \in [Projects ->
       [status : {"none", "blueprint_ready", "ready"}, currencies : Seq(Currencies),
        accounts : SUBSET Accounts]]
  /\ journey \in [Payments ->
       [status : {"none", "settled"}, of : Projects \cup {NoOne},
        from : Accounts \cup {NoOne}, amount : Nat]]

BuilderInit ==
  /\ project = [p \in Projects |-> NoProject]
  /\ journey = [j \in Payments |-> NoJourney]

-----------------------------------------------------------------------------
CreateProject(p, blueprint) ==
  /\ project[p].status = "none"
  /\ project' = [project EXCEPT ![p] =
       [status |-> "blueprint_ready", currencies |-> blueprint, accounts |-> {}]]
  /\ UNCHANGED <<ledger, customerVars, journey>>

PatchProject(p, blueprint) ==
  /\ project[p].status = "blueprint_ready"
  /\ project' = [project EXCEPT ![p].currencies = blueprint]
  /\ UNCHANGED <<ledger, customerVars, journey>>

(* Provisioning opens and funds an account for every test user and each of *)
(* the first currencies of the blueprint, in one unit of work; a ready     *)
(* project is answered as it stands.                                       *)
Opening(p) == {project[p].currencies[i] : i \in DOMAIN project[p].currencies \cap 1 .. MaxSeeded}
ToSeed(p) == {a \in Seeds[p] : CurrencyOf[a] \in Opening(p)}

SeedTotal(accounts, c) == SumFunctionOnSet(SeedAmount, {a \in accounts : CurrencyOf[a] = c})

SeedEntries(p) ==
  [b \in (ToSeed(p) \cup {SeedBook[p]}) \X Currencies |->
     IF b[1] = SeedBook[p] THEN -SeedTotal(ToSeed(p), b[2])
     ELSE IF CurrencyOf[b[1]] = b[2] THEN SeedAmount[b[1]] ELSE 0]

Provision(p) ==
  /\ project[p].status = "blueprint_ready"
  /\ \A a \in Seeds[p] : ~Existing(HolderOf[a])
  /\ Post(SeedEntries(p))
  /\ project' = [project EXCEPT ![p].status = "ready", ![p].accounts = ToSeed(p)]
  /\ customer' = [c \in Customers |->
       IF c \in {HolderOf[a] : a \in Seeds[p]}
       THEN [live |-> "yes", status |-> "completed", decision |-> "approved"] ELSE customer[c]]
  /\ account' = [a \in Accounts |-> IF a \in ToSeed(p) THEN "open" ELSE account[a]]
  /\ UNCHANGED <<application, simulation, journey>>

(* A test payment leaves one of the project's accounts, by its balance;    *)
(* that the account was closed is not asked.                               *)
AnyAccount(p, a) == Opened(a)      \* mutant: the account need not be the project's
OfProject(p, a) == a \in project[p].accounts

TestPayment(j, p, a, n) ==
  /\ j \in FirstFree(Payments, journey)
  /\ project[p].status = "ready" /\ OfProject(p, a)
  /\ Holds(a, CurrencyOf[a]) >= n
  /\ Move(n, CurrencyOf[a], a, PayoutBook[p])
  /\ journey' = [journey EXCEPT ![j] = [status |-> "settled", of |-> p, from |-> a, amount |-> n]]
  /\ UNCHANGED <<customerVars, project>>

BuilderNext ==
  \E p \in Projects :
    \/ \E blueprint \in Blueprints : CreateProject(p, blueprint) \/ PatchProject(p, blueprint)
    \/ Provision(p)
    \/ \E j \in Payments, a \in Accounts, n \in Amounts : TestPayment(j, p, a, n)

-----------------------------------------------------------------------------
(* What a project was given and what it paid out account for its two       *)
(* books, it holds an account for each currency it was to open, and it     *)
(* only ever paid from its own accounts (builder.js).                      *)
PaidOut(p, c) ==
  SumFunctionOnSet([j \in Payments |-> journey[j].amount],
                   {j \in Payments : journey[j].of = p /\ CurrencyOf[journey[j].from] = c})

ProjectsExplained ==
  \A p \in Projects :
    /\ \A c \in Currencies :
         /\ Holds(PayoutBook[p], c) = PaidOut(p, c)
         /\ -Holds(SeedBook[p], c) = SeedTotal(project[p].accounts, c)
    /\ project[p].status = "ready" =>
         {CurrencyOf[a] : a \in project[p].accounts} = Opening(p)
    /\ \A j \in Payments : journey[j].of = p => journey[j].from \in project[p].accounts

-----------------------------------------------------------------------------
(* The products and the builder together, over one ledger and one set of   *)
(* accounts.                                                               *)
booksVars == <<now, ledger, customerVars, productVars, cardVars, policy, builderVars>>

BooksInit ==
  /\ now = 0
  /\ LedgerInit /\ CustomerInit /\ ProductInit /\ CardInit /\ PolicyInit /\ BuilderInit

BooksNext ==
  \/ Tick /\ UNCHANGED <<ledger, customerVars, productVars, cardVars, policy, builderVars>>
  \/ /\ UNCHANGED now
     /\ \/ /\ Onboarding({}) \/ Banking(Accounts) \/ Simulating
           /\ UNCHANGED <<productVars, cardVars, policy, builderVars>>
        \/ (Rail \/ Saving \/ Exchanging) /\ UNCHANGED <<cardVars, policy, builderVars>>
        \/ CardNext /\ UNCHANGED <<productVars, builderVars>>
        \/ BuilderNext /\ UNCHANGED <<productVars, cardVars, policy>>

BooksSpec == BooksInit /\ [][BooksNext]_booksVars

(* Every book of the bank accounts for what the products and the builder   *)
(* did, in whatever order they did it (server.js, products.js, fx.js,      *)
(* platform.js, builder.js).                                               *)
BooksExplained == ProductBooksExplained /\ ProjectsExplained
=============================================================================
