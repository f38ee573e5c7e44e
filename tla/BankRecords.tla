---------------------------- MODULE BankRecords ----------------------------
(***************************************************************************)
(* Records one of which is derived from another: a subscription from a     *)
(* mandate, the name check of a destination from the name it holds, an     *)
(* organisation from its members, and the papers of an application that    *)
(* is decided on them.                                                     *)
(***************************************************************************)
EXTENDS BankCustomers, NodeClock, Sequences, SequencesExt

CONSTANTS
  Mandates, Subscriptions,
  Members,               \* who may belong to the organisation
  Recipients, Destinations,
  RecipientOf,           \* [Destinations -> Recipients]
  Names,
  MaxEdits               \* bound of the exploration: edits of an application

VARIABLES
  mandate,               \* [of, currency, max]; max 0 is no maximum
  subscription,          \* [of, mandate, currency, amount]
  member,                \* the role of each member of the organisation
  recipient,             \* "none", "live" or "deleted"
  destination,           \* [held, check, of]: of, the name the bank checked
  papers                 \* [content, attested]: how often each was written

recordVars == <<mandate, subscription, member, recipient, destination, papers>>

Results == {"match", "close_match", "no_match"}
Roles == {"owner", "admin"}
NoMandate == [of |-> NoOne]
NoSubscription == [of |-> NoOne]
NoDestination == [held |-> NoOne]

RecordTypeOK ==
  /\ mandate \in [Mandates -> [of : Customers, currency : Currencies, max : Nat] \cup {NoMandate}]
  /\ subscription \in
       [Subscriptions -> [of : Customers, mandate : Mandates, currency : Currencies, amount : Nat]
                           \cup {NoSubscription}]
  /\ member \in [Members -> Roles \cup {"none"}]
  /\ recipient \in [Recipients -> {"none", "live", "deleted"}]
  /\ destination \in
       [Destinations -> [held : Names, check : Results \cup {"unchecked"}, of : Names \cup {NoOne}]
                          \cup {NoDestination}]
  /\ papers \in [Applications -> [content : Nat, attested : Nat]]

RecordInit ==
  /\ mandate = [m \in Mandates |-> NoMandate]
  /\ subscription = [s \in Subscriptions |-> NoSubscription]
  /\ member = [m \in Members |-> "none"]
  /\ recipient = [r \in Recipients |-> "none"]
  /\ destination = [d \in Destinations |-> NoDestination]
  /\ papers = [p \in Applications |-> [content |-> 0, attested |-> 0]]

-----------------------------------------------------------------------------
(* Mandates and subscriptions. The customer's record is asked for, not     *)
(* whether it was deleted.                                                 *)
CreateMandate(m, c, currency, max) ==
  /\ mandate[m] = NoMandate
  /\ Existing(c)
  /\ mandate' = [mandate EXCEPT ![m] = [of |-> c, currency |-> currency, max |-> max]]
  /\ UNCHANGED <<subscription, member, recipient, destination, papers>>

AnyAmount(m, amount) == TRUE      \* mutant: the maximum is not looked at
WithinMaximum(m, amount) == mandate[m].max = 0 \/ amount <= mandate[m].max

CreateSubscription(s, c, m, currency, amount) ==
  /\ subscription[s] = NoSubscription
  /\ Existing(c) /\ mandate[m] # NoMandate
  /\ mandate[m].of = c /\ mandate[m].currency = currency
  /\ WithinMaximum(m, amount)
  /\ subscription' = [subscription EXCEPT ![s] =
       [of |-> c, mandate |-> m, currency |-> currency, amount |-> amount]]
  /\ UNCHANGED <<mandate, member, recipient, destination, papers>>

(* Mandates and subscriptions stay active once made, and keep a customer.  *)
Linked ==
  {mandate[m].of : m \in Mandates} \cup {subscription[s].of : s \in Subscriptions}

-----------------------------------------------------------------------------
(* The organisation: its founder is an owner, and so may an invited member *)
(* be.                                                                     *)
Owners == {m \in Members : member[m] = "owner"}
Founded == \E m \in Members : member[m] # "none"

CreateOrg(m) ==
  /\ ~Founded
  /\ member' = [member EXCEPT ![m] = "owner"]
  /\ UNCHANGED <<mandate, subscription, recipient, destination, papers>>

InviteMember(m, role) ==
  /\ Founded /\ member[m] = "none"
  /\ member' = [member EXCEPT ![m] = role]
  /\ UNCHANGED <<mandate, subscription, recipient, destination, papers>>

RemoveMember(m) ==
  /\ member[m] # "none"
  /\ member[m] = "owner" => Cardinality(Owners) > 1
  /\ member' = [member EXCEPT ![m] = "none"]
  /\ UNCHANGED <<mandate, subscription, recipient, destination, papers>>

-----------------------------------------------------------------------------
(* Recipients and where their money lands.                                 *)
CreateRecipient(r) ==
  /\ recipient[r] = "none"
  /\ recipient' = [recipient EXCEPT ![r] = "live"]
  /\ UNCHANGED <<mandate, subscription, member, destination, papers>>

DeleteRecipient(r) ==
  /\ recipient[r] = "live"
  /\ recipient' = [recipient EXCEPT ![r] = "deleted"]
  /\ destination' = [d \in Destinations |->
       IF RecipientOf[d] = r THEN NoDestination ELSE destination[d]]
  /\ UNCHANGED <<mandate, subscription, member, papers>>

AddDestination(d, name) ==
  /\ recipient[RecipientOf[d]] = "live" /\ destination[d] = NoDestination
  /\ destination' = [destination EXCEPT ![d] =
       [held |-> name, check |-> "unchecked", of |-> NoOne]]
  /\ UNCHANGED <<mandate, subscription, member, recipient, papers>>

KeptCheck(d, name, check) == check      \* mutant: a rename keeps the result
CheckAfter(d, name, check) == IF name # destination[d].held THEN "unchecked" ELSE check

(* The body may carry anything, a result of the check included.            *)
PatchDestination(d, name, given) ==
  /\ destination[d] # NoDestination
  /\ LET check == IF given = "none" THEN destination[d].check ELSE given IN
     destination' = [destination EXCEPT ![d] =
       [held |-> name, check |-> CheckAfter(d, name, check),
        of |-> IF given = "none" THEN @.of ELSE NoOne]]
  /\ UNCHANGED <<mandate, subscription, member, recipient, papers>>

(* The name the caller gives is compared with the name held.               *)
VerifyDestination(d, result) ==
  /\ destination[d] # NoDestination
  /\ destination' = [destination EXCEPT ![d].check = result, ![d].of = destination[d].held]
  /\ UNCHANGED <<mandate, subscription, member, recipient, papers>>

RemoveDestination(d) ==
  /\ destination[d] # NoDestination
  /\ destination' = [destination EXCEPT ![d] = NoDestination]
  /\ UNCHANGED <<mandate, subscription, member, recipient, papers>>

-----------------------------------------------------------------------------
(* The papers of an application: business or personal facts, individuals   *)
(* and documents. Attestations are taken at any stage.                     *)
AnyStage(p) == application[p].status # "none"      \* mutant
Mutable(p) == application[p].status \notin {"none", "completed"}

EditPapers(p) ==
  /\ Mutable(p) /\ papers[p].content < MaxEdits
  /\ papers' = [papers EXCEPT ![p].content = @ + 1]
  /\ UNCHANGED <<mandate, subscription, member, recipient, destination>>

Attest(p) ==
  /\ application[p].status # "none" /\ papers[p].attested < MaxEdits
  /\ papers' = [papers EXCEPT ![p].attested = @ + 1]
  /\ UNCHANGED <<mandate, subscription, member, recipient, destination>>

MandateNext ==
  \/ \E m \in Mandates, c \in Customers, currency \in Currencies, max \in Amounts \cup {0} :
       CreateMandate(m, c, currency, max)
  \/ \E s \in Subscriptions, c \in Customers, m \in Mandates, currency \in Currencies, n \in Amounts :
       CreateSubscription(s, c, m, currency, n)

MemberNext ==
  \E m \in Members : CreateOrg(m) \/ RemoveMember(m) \/ \E role \in Roles : InviteMember(m, role)

PayeeNext ==
  \/ \E r \in Recipients : CreateRecipient(r) \/ DeleteRecipient(r)
  \/ \E d \in Destinations :
       \/ RemoveDestination(d)
       \/ \E result \in Results : VerifyDestination(d, result)
       \/ \E name \in Names :
            \/ AddDestination(d, name)
            \/ \E given \in Results \cup {"none"} : PatchDestination(d, name, given)

PaperNext == \E p \in Applications : EditPapers(p) \/ Attest(p)

-----------------------------------------------------------------------------
(* What a record was derived from still bears it out, in whatever order    *)
(* the requests came: a subscription is within its mandate, a name check   *)
(* the bank made is one of the name now held, an organisation never loses  *)
(* its last owner, and an application is completed on the papers it keeps. *)
(* (payments.js subscriptions, business.js, identity.js guardMutable.)     *)
SubscriptionsWithin ==
  \A s \in Subscriptions : subscription[s] # NoSubscription =>
    LET m == mandate[subscription[s].mandate] IN
    /\ m # NoMandate /\ m.of = subscription[s].of /\ m.currency = subscription[s].currency
    /\ m.max > 0 => subscription[s].amount <= m.max

ChecksStand ==
  \A d \in Destinations :
    destination[d] # NoDestination =>
      destination[d].check = "unchecked" \/ destination[d].of \in {NoOne, destination[d].held}

RecordsBorneOut ==
  [][/\ SubscriptionsWithin' /\ ChecksStand' /\ (Founded => Owners' # {})
     /\ \A p \in Applications :
          application[p].status = "completed" =>
            papers'[p].content = papers[p].content /\ application'[p] = application[p]
    ]_<<customerVars, recordVars>>

-----------------------------------------------------------------------------
(***************************************************************************)
(* What the banking API reads out of what it keeps: statements of an       *)
(* account and fee settings (routes/platform.js), the pages of a list      *)
(* (kernel.js paginate), and the netting of the coin market's fills        *)
(* (routes/fx-swap.js). Ownership is in ApiRequests. Minor units.           *)
(***************************************************************************)
CONSTANTS
  Ledgered, StatementsOf,   \* accounts, each in one currency; those statements are made of
  Periods,              \* pairs of from and to
  PostedAmounts, MaxTxns, MaxStatements,
  RowIds, PageLimits, MaxRowsListed,
  FillSizes, FillSpreads, MaxFills, ValueOf       \* ValueOf: coin -> value in USD, as <<n, d>>

VARIABLES
  journal,       \* the ledger: a sequence of [account, with, amount, at]
  statements,   \* sequence of the statements made
  payout,       \* the tenant's fee configuration
  listed,       \* rows of one list, in its order
  removed,      \* rows that were in it; an id is not given twice
  reader,       \* who pages through it
  fills, batches

reportVars == <<journal, statements, payout, listed, removed, reader, fills, batches>>

NoAccount == "nobody"
Unbounded == -1                \* no `from`, no `to`

ReportTypeOK ==
  /\ journal \in Seq([account : Ledgered, with : Ledgered, amount : PostedAmounts, at : Nat])
  /\ payout \in Ledgered \cup {NoAccount}
  /\ listed \in Seq(RowIds) /\ removed \subseteq RowIds /\ reader.state \in {"idle", "reading", "done", "lost"}
  /\ \A i \in DOMAIN fills : fills[i].batch \in 0..Len(batches)

ReportInit ==
  /\ journal = <<>> /\ statements = <<>> /\ payout = NoAccount
  /\ listed = <<>> /\ removed = {}
  /\ reader = [state |-> "idle", going |-> "after", cursor |-> 0, seen |-> <<>>,
               all |-> {}, limit |-> 1]
  /\ fills = <<>> /\ batches = <<>>

-----------------------------------------------------------------------------
(* A transaction moves an amount between two accounts: two rows.           *)
PostTransfer(a, b, n) ==
  /\ Len(journal) < MaxTxns
  /\ journal' = Append(journal, [account |-> a, with |-> b, amount |-> n, at |-> now])
  /\ UNCHANGED <<statements, payout, listed, removed, reader, fills, batches>>

NetOf(a, S) ==
  MapThenSumSet(LAMBDA i : IF journal[i].account = a THEN -journal[i].amount
                           ELSE journal[i].amount,
                {i \in S : a \in {journal[i].account, journal[i].with}})
BalanceNow(a) == NetOf(a, DOMAIN journal)

AfterFrom(t, from, to) == t > from /\ (to = Unbounded \/ t <= to)    \* mutant: off by one
InPeriod(t, from, to) == t >= from /\ (to = Unbounded \/ t <= to)

(* POST /v2/statements: the transactions that touch the account in the     *)
(* period with all their rows; closing is the balance of today whatever    *)
(* the period, opening is what is left of it. The totals of debits and     *)
(* credits are those of balanced transactions and are left out.            *)
MakeStatement(a, from, to) ==
  /\ Len(statements) < MaxStatements
  /\ LET rows == {i \in DOMAIN journal :
                    a \in {journal[i].account, journal[i].with} /\ InPeriod(journal[i].at, from, to)}
     IN  statements' = Append(statements,
           [account |-> a, from |-> from, to |-> to, made |-> now, rows |-> rows,
            seen |-> Len(journal),
            closing |-> BalanceNow(a), opening |-> BalanceNow(a) - NetOf(a, rows)])
  /\ UNCHANGED <<journal, payout, listed, removed, reader, fills, batches>>

ConfigureFees(a) ==
  /\ payout' = a /\ a # payout
  /\ UNCHANGED <<journal, statements, listed, removed, reader, fills, batches>>

-----------------------------------------------------------------------------
(* A list changes between the pages: some grow at the end, the events at   *)
(* the front, sorted ones anywhere.                                        *)
InsertRow(id, place) ==
  /\ id \notin ToSet(listed) \cup removed /\ Len(listed) < MaxRowsListed
  /\ listed' = InsertAt(listed, place, id)
  /\ UNCHANGED <<journal, statements, payout, removed, reader, fills, batches>>
RemoveRow(id) ==
  /\ id \in ToSet(listed)
  /\ listed' = Remove(listed, id) /\ removed' = removed \cup {id}
  /\ reader' = [reader EXCEPT !.all = @ \ {id}]
  /\ UNCHANGED <<journal, statements, payout, fills, batches>>

Place(id) == CHOOSE i \in DOMAIN listed : listed[i] = id

(* paginate. all: the rows on the way that stay there, for the reader.     *)
FirstPage(limit, cursor) ==
  /\ reader.state = "idle"
  /\ \/ /\ cursor = 0 /\ listed # <<>>
        /\ reader' = [state |-> "reading", going |-> "after", cursor |-> 0, seen |-> <<>>,
                      all |-> ToSet(listed), limit |-> limit]
     \/ /\ cursor \in ToSet(listed)
        /\ reader' = [state |-> "reading", going |-> "before", cursor |-> cursor, seen |-> <<>>,
                      all |-> ToSet(SubSeq(listed, 1, Place(cursor) - 1)), limit |-> limit]
  /\ UNCHANGED <<journal, statements, payout, listed, removed, fills, batches>>

CursorKnown == reader.cursor = 0 \/ reader.cursor \in ToSet(listed)
StartByCount == Len(reader.seen)          \* mutant: an offset for a cursor
StartAfter == IF reader.cursor = 0 THEN 0 ELSE Place(reader.cursor)

PageAfter == SubSeq(listed, StartAfter + 1, Min({StartAfter + reader.limit, Len(listed)}))
PageBefore ==
  SubSeq(listed, Max({1, Place(reader.cursor) - reader.limit}), Place(reader.cursor) - 1)
MoreAfter == StartAfter + reader.limit < Len(listed)
MoreBefore == Place(reader.cursor) - 1 - reader.limit > 0

Turned(page, more, cursor, seen) ==
  [reader EXCEPT !.state = IF more THEN "reading" ELSE "done", !.seen = seen,
                 !.cursor = IF page = <<>> THEN @ ELSE cursor]
NextPage ==
  /\ reader.state = "reading"
  /\ reader' =
       IF ~CursorKnown THEN [reader EXCEPT !.state = "lost"]
       ELSE IF reader.going = "after"
       THEN Turned(PageAfter, MoreAfter, Last(PageAfter), reader.seen \o PageAfter)
       ELSE Turned(PageBefore, MoreBefore, Head(PageBefore), PageBefore \o reader.seen)
  /\ UNCHANGED <<journal, statements, payout, listed, removed, fills, batches>>

-----------------------------------------------------------------------------
(* Netting: every fill no batch has taken, position by position of a pair; *)
(* amounts of both coins are valued in USD, rounded down, each by itself.  *)
InUsd(n, coin) == (n * ValueOf[coin][1]) \div ValueOf[coin][2]
OtherCoin(coin) == CHOOSE c \in DOMAIN ValueOf : c # coin
OutOf(n, coin, bps) ==
  (n * ValueOf[coin][1] * ValueOf[OtherCoin(coin)][2] * (10000 - bps))
    \div (ValueOf[coin][2] * ValueOf[OtherCoin(coin)][1] * 10000)

RecordFill(coin, n, bps) ==
  /\ Len(fills) < MaxFills
  /\ fills' = Append(fills, [coin |-> coin, in |-> n, out |-> OutOf(n, coin, bps), batch |-> 0])
  /\ UNCHANGED <<journal, statements, payout, listed, removed, reader, batches>>

EveryFill(i) == TRUE                      \* mutant: fills are netted again
Unsettled(i) == fills[i].batch = 0
Magnitude(n) == IF n < 0 THEN -n ELSE n
PositionIn(coin, S) ==
  MapThenSumSet(LAMBDA i : IF fills[i].coin = coin THEN -fills[i].in ELSE fills[i].out, S)

Net ==
  LET taken == {i \in DOMAIN fills : Unsettled(i)}
      gross == MapThenSumSet(LAMBDA i : InUsd(fills[i].in, fills[i].coin), taken)
      position == [c \in DOMAIN ValueOf |-> PositionIn(c, taken)]
  IN
  /\ taken # {}
  /\ batches' = Append(batches, [size |-> Cardinality(taken), gross |-> gross, net |-> position,
       residual |-> Max({InUsd(Magnitude(position[c]), c) : c \in DOMAIN ValueOf})])
  /\ fills' = [i \in DOMAIN fills |->
       IF i \in taken THEN [fills[i] EXCEPT !.batch = Len(batches) + 1] ELSE fills[i]]
  /\ UNCHANGED <<journal, statements, payout, listed, removed, reader>>

-----------------------------------------------------------------------------
StatementNext ==
  \/ \E a \in Ledgered, b \in Ledgered, n \in PostedAmounts : a # b /\ PostTransfer(a, b, n)
  \/ \E a \in StatementsOf, p \in Periods : MakeStatement(a, p[1], p[2])
PageNext ==
  \/ NextPage
  \/ \E id \in RowIds : RemoveRow(id) \/ \E place \in 1..(Len(listed) + 1) : InsertRow(id, place)
  \/ \E limit \in PageLimits, cursor \in RowIds \cup {0} : FirstPage(limit, cursor)
NettingNext ==
  \/ Net \/ \E a \in Ledgered : ConfigureFees(a)
  \/ \E coin \in DOMAIN ValueOf, n \in FillSizes, bps \in FillSpreads : RecordFill(coin, n, bps)

-----------------------------------------------------------------------------
(* A statement that runs to the present opens with what the account held   *)
(* before the period and closes with what it holds, and one taken later    *)
(* from where it ended opens where it closed, unless something was posted   *)
(* in that very instant. Statements of one past period list the same       *)
(* transactions whenever they are made; their balances are of the days     *)
(* they were made on, which nothing in the code denies.                    *)
ToPresent(s) == s.to = Unbounded \/ s.to >= s.made
Follows(t, s) ==
  /\ t.account = s.account /\ t.from = s.made + 1
  /\ \A p \in (s.seen + 1)..Len(journal) : journal[p].at > s.made

StatementsFit ==
  \A i \in DOMAIN statements : LET s == statements[i] IN
    /\ ToPresent(s) => s.opening = NetOf(s.account, {p \in 1..s.seen : journal[p].at < s.from})
    /\ \A j \in (i + 1)..Len(statements) : LET t == statements[j] IN
         /\ ToPresent(s) /\ ToPresent(t) /\ Follows(t, s) => t.opening = s.closing
         /\ ~ToPresent(s) /\ <<t.account, t.from, t.to>> = <<s.account, s.from, s.to>>
              => t.rows = s.rows

(* Following the cursors shows every row that stayed in the list exactly   *)
(* once and in the list's order, however it grew meanwhile; a reader whose *)
(* cursor row was removed is told so (paginate).                           *)
PagesComplete ==
  /\ reader.state = "done" => reader.all \subseteq ToSet(reader.seen)
  /\ IsInjective(reader.seen)
  /\ LET still == SelectSeq(reader.seen, LAMBDA id : id \in ToSet(listed))
     IN  \A i, j \in DOMAIN still : i < j => Place(still[i]) < Place(still[j])

(* A fill is netted in one batch; a batch and the fills it took say the    *)
(* same; and what is left to settle is never more than what was traded, up *)
(* to the rounding of each fill (POST /v2/fx/net).                         *)
NettingWhole ==
  \A b \in DOMAIN batches :
    LET own == {i \in DOMAIN fills : fills[i].batch = b} IN
    /\ batches[b].size = Cardinality(own)
    /\ \A c \in DOMAIN ValueOf : batches[b].net[c] = PositionIn(c, own)
    /\ batches[b].residual <= batches[b].gross + batches[b].size

ReportsAddUp == StatementsFit /\ PagesComplete /\ NettingWhole
=============================================================================
