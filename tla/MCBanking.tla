------------------------------ MODULE MCBanking ------------------------------
(***************************************************************************)
(* Small instances of the banking API. Its products meet in the ledger and *)
(* in the customers and accounts; each part below exercises the modules    *)
(* that share state, chosen at the start.                                  *)
(***************************************************************************)
EXTENDS BankProducts, ProviderInbound, SwapMarket, ApiRequests, UnitOfWork,
        BankRecords, BuilderProjects, QrCodes

CONSTANTS Parts, cu, acc, bcc, coinacc, vlt, crl, wal, k1, tr, lp

VARIABLE part

SeededRows == {"x1"}
AnyOf(S) == CHOOSE x \in S : TRUE

edgeVars == <<gateVars, book>>
bankVars == <<ledger, customerVars, productVars, cardVars, walletVars, inbound, swapVars>>
serverVars == <<commandVars, unitVars, keyVars, qrVars, reportVars, edgeVars>>
bankingVars == <<part, now, bankVars, recordVars, builderVars, serverVars>>

BankingTypeOK ==
  /\ LedgerTypeOK /\ CustomerTypeOK /\ ProductTypeOK /\ CardTypeOK /\ WalletTypeOK
  /\ InboundTypeOK /\ SwapTypeOK /\ CommandTypeOK /\ UnitTypeOK
  /\ RecordTypeOK /\ KeyTypeOK /\ BuilderTypeOK /\ ReportTypeOK /\ GateTypeOK
  /\ PriceTypeOK

BankingInit ==
  /\ part \in Parts /\ now = 0
  /\ IF part = "swap"
     THEN ledger = [b \in Books |-> IF b[1] \in Traders /\ b[2] \in Traded THEN Endowment ELSE 0]
     ELSE LedgerInit
  /\ CustomerInit /\ ProductInit /\ CardInit /\ WalletInit
  /\ InboundInit /\ SwapInit /\ CommandInit /\ UnitInit
  /\ RecordInit /\ KeyInit /\ BuilderInit /\ QrInit /\ ReportInit
  /\ GateInit /\ PriceInit
  /\ part # "gate" => setting = AnyOf(Environments)
  /\ part # "swap" => maxPosition = 0
  /\ disk = [r \in Records |-> IF part = "unit" /\ r \in SeededRows
                               THEN [f \in Fields |-> Seeded] ELSE Absent]

-----------------------------------------------------------------------------
(* The currencies that are exchanged: dollars for euros, or for the coin,  *)
(* which then has an account of its own beside the ramps.                  *)
Quoted == CASE part = "exchange" -> {"usd", "eur"} [] part = "coins" -> {"usd", "coin"} [] OTHER -> {}
ExchangingQuoted ==
  /\ Exchanging
  /\ \A q \in Quotes : quote'[q].status # "none" => {quote'[q].from, quote'[q].to} \subseteq Quoted
  /\ \A b \in Books : b[2] \notin Quoted => ledger'[b] = 0

BankStep ==
  \/ /\ \/ part = "onboarding" /\
             \/ Onboarding({}) \/ \E a \in {acc, bcc} : OpenAccount(a) \/ CloseAccount(a)
        \/ part \in {"rails", "savings", "exchange", "coins", "cards", "limits", "wallets", "inbound"} /\
             \E c \in Customers : CreateCustomer(c)
        \/ part \in {"rails", "savings", "exchange", "coins", "cards", "limits"} /\
             Banking({acc} \cup {a \in Accounts : CurrencyOf[a] \in Quoted})
        \/ part = "rails" /\ Simulating
        \/ part = "inbound" /\ \E a \in {acc, bcc} : OpenAccount(a) \/ CloseAccount(a)
     /\ UNCHANGED <<productVars, cardVars, walletVars, inbound>>
  \/ /\ \/ part = "rails" /\ Rail
        \/ part = "savings" /\ Saving
        \/ part \in {"exchange", "coins"} /\ ExchangingQuoted
     /\ UNCHANGED <<cardVars, walletVars, inbound>>
  \/ /\ \/ part = "cards" /\ CardNext /\ UNCHANGED policy
        \/ part = "limits" /\ CardNext /\ UNCHANGED dispute /\ \A k \in Cards : holds'[k] \subseteq Admins
     /\ UNCHANGED <<productVars, wallet, chain, approval, keys, inbound>>
  \/ part = "wallets" /\ WalletNext /\ UNCHANGED <<productVars, cardVars, inbound>>
  \/ /\ part = "inbound"
     /\ \/ InboundNext
        \/ \E w \in Wallets : CreateWallet(w) /\ UNCHANGED inbound
     /\ UNCHANGED <<productVars, cardVars>>

Recording ==
  \/ /\ part = "mandates" /\ MandateNext /\ UNCHANGED <<ledger, customerVars>>
  \/ /\ part = "payees" /\ (MemberNext \/ PayeeNext) /\ UNCHANGED <<ledger, customerVars>>
  \/ /\ part = "papers" /\ PaperNext /\ UNCHANGED <<ledger, customerVars>>
  \/ /\ part = "mandates" /\ (\E c \in Customers : CreateCustomer(c) \/ DeleteCustomer(c, Linked))
     /\ UNCHANGED recordVars
  \/ part = "papers" /\ Onboarding({}) /\ UNCHANGED recordVars

Building ==
  \/ BuilderNext
  \/ Banking({acc, bcc}) /\ UNCHANGED builderVars

Reporting ==
  \/ part = "statements" /\ StatementNext
  \/ part = "pages" /\ PageNext
  \/ part = "netting" /\ NettingNext

Edging ==
  \/ part = "gate" /\ GateNext /\ UNCHANGED book
  \/ part = "prices" /\ PriceNext /\ UNCHANGED gateVars

Timed == {"exchange", "coins", "cards", "limits", "commands", "keys", "statements", "gate", "prices"}

BankingNext ==
  /\ UNCHANGED part
  /\ \/ part \in Timed /\ Tick /\ UNCHANGED <<bankVars, recordVars, builderVars, serverVars>>
     \/ UNCHANGED now /\
          \/ BankStep /\ UNCHANGED <<swapVars, recordVars, builderVars, serverVars>>
          \/ /\ part = "swap" /\ SwapNext
             /\ UNCHANGED <<customerVars, productVars, cardVars, walletVars, inbound,
                            recordVars, builderVars, serverVars>>
          \/ /\ Recording
             /\ UNCHANGED <<productVars, cardVars, walletVars, inbound, swapVars,
                            builderVars, serverVars>>
          \/ /\ part = "builder" /\ Building
             /\ UNCHANGED <<productVars, cardVars, walletVars, inbound, swapVars,
                            recordVars, serverVars>>
          \/ /\ UNCHANGED <<bankVars, recordVars, builderVars>>
             /\ \/ part = "commands" /\ CommandNext
                   /\ UNCHANGED <<unitVars, keyVars, qrVars, reportVars, edgeVars>>
                \/ part = "unit" /\ UnitNext
                   /\ UNCHANGED <<commandVars, keyVars, qrVars, reportVars, edgeVars>>
                \/ part = "keys" /\ KeyNext
                   /\ UNCHANGED <<commandVars, unitVars, qrVars, reportVars, edgeVars>>
                \/ part = "qr" /\ QrNext
                   /\ UNCHANGED <<commandVars, unitVars, keyVars, reportVars,
                                   edgeVars>>
                \/ Edging
                   /\ UNCHANGED <<commandVars, unitVars, keyVars, qrVars, reportVars>>
                \/ Reporting
                   /\ UNCHANGED <<commandVars, unitVars, keyVars, qrVars, edgeVars>>

BankingSpec == BankingInit /\ [][BankingNext]_bankingVars

(* What the bank reports and asks: statements, pages and settlements add   *)
(* up, a pool holds what its providers are owed, and a corridor's price    *)
(* moves the right way (products.js, fx-lp.js, pricing.js).                *)
FiguresAddUp == ReportsAddUp /\ ProvidersCovered /\ (part = "prices" => PricesInOrder)

-----------------------------------------------------------------------------
(* One customer has an account in dollars and one in euros, with a vault   *)
(* and a credit line over the first; a euro is worth more than a dollar    *)
(* and neither divides the other. The coin is redeemed for dollars.        *)
BankBooks ==
  {"external:funding", "external:sandbox", "external:inbound", "external:custody",
   "external:wallet_send", "sandbox:wallet_funding", "clearing:fast", "clearing:slow",
   "clearing:credit", "clearing:credit:liability", "clearing:card_authorisations",
   "fx:clearing", "reserve:issuer", "issuance:coin", "lp:", "principal:", "spread:",
   "external:sandbox:project", "external:sandbox:payout:project"}
Holder == [a \in Accounts |-> cu]
SomeBlueprints == {<<"eur">>, <<"eur", "usd", "coin">>}
SeedsOf == "project" :> {acc, bcc}
SeedOf == acc :> 2 @@ bcc :> 1 @@ coinacc :> 0
SeedBooks == "project" :> "external:sandbox:project"
PayoutBooks == "project" :> "external:sandbox:payout:project"
Alpha(n) == 64 + n
Plain == [name |-> <<Alpha(1), Alpha(2)>>, city |-> Tag(60) \o Tag(1), id |-> Tag(1),
          amount |-> <<>>, reference |-> <<>>, currency |-> "usd"]
Tricky == [Plain EXCEPT !.name = Tag(63) \o Tag(4), !.amount = Tag(10),
                        !.reference = <<Alpha(5)>>, !.currency = "eur"]
TooLong == [Plain EXCEPT !.name = [i \in 1 .. 26 |-> Alpha(1)]]
(* The longest id whose template still has a length of two digits, and one *)
(* character more.                                                         *)
IdOf(n) == [i \in 1 .. n |-> Alpha(3)]
Longest == [Plain EXCEPT !.id = IdOf(75)]
Longer == [Plain EXCEPT !.id = IdOf(76)]
SomeSheets == {Plain, Tricky, TooLong, Longest, Longer}
Iso == "usd" :> Tag(84) \o <<Digit(0)>> @@ "eur" :> Tag(97) \o <<Digit(8)>>
OurName == [i \in 1 .. 16 |-> Alpha(2)]
AnyCountry == <<Alpha(19), Alpha(7)>>
Damages == {Digit(0), Digit(1), Alpha(1), 97}
PayeeOf == "dest" :> "payee"
Denominated == acc :> "usd" @@ bcc :> "eur" @@ coinacc :> "coin"
Over == vlt :> acc @@ crl :> acc
TwoRails ==
  "clearing:fast" :> [currency |-> "usd", min |-> 1, max |-> 1, instant |-> TRUE] @@
  "clearing:slow" :> [currency |-> "usd", min |-> 1, max |-> 2, instant |-> FALSE]
Mids == "usd" :> 2 @@ "eur" :> 3 @@ "coin" :> 2
OneCoin == "coin" :> "usd"
CardOver == "card" :> acc
Wide == [each |-> 2, daily |-> 3, monthly |-> 3, blocked |-> {}, allowed |-> {}]
Tight == [each |-> 1, daily |-> 1, monthly |-> 3, blocked |-> {"games"}, allowed |-> {"food"}]
SomeControls == {Wide, Tight}
Starts == {<<2, "usd">>}
OfWallet == wal :> cu
InWallet == wal :> "usd"
Asked == {{}, {<<"keys", "write">>, <<"cards", "read">>}, {<<"cards", "write">>}}
SomePeriods == {<<-1, -1>>, <<1, -1>>, <<0, 1>>, <<0, 0>>}
OwnerOf == "k1" :> "ta" @@ "k2" :> "tb"
Path(access, mutates, sandbox) == [access |-> access, mutates |-> mutates, sandbox |-> sandbox]
SomePaths ==
  "signup" :> Path("public", TRUE, TRUE) @@ "act" :> Path("tenant", TRUE, FALSE) @@
  "metrics" :> Path("operator", FALSE, FALSE)
Configured ==
  {[mode |-> "production", trusting |-> FALSE, operator |-> TRUE],
   [mode |-> "sandbox", trusting |-> TRUE, operator |-> FALSE]}
WorthOf == "a" :> <<1, 2>> @@ "b" :> <<2, 3>>
Shares == tr :> 9500 @@ lp :> 5000
=============================================================================
