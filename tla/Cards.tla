------------------------------- MODULE Cards -------------------------------
(***************************************************************************)
(* What a card is worth: how cards are issued, activated, topped up,       *)
(* renewed, upgraded, extended, adjusted, compensated, suspended, voided   *)
(* and archived, and how their balances stay those of the ledger, part of  *)
(* which is archived to files.                                             *)
(*                                                                         *)
(* Every operation of engine.rs is one mutation under the state lock that  *)
(* ends in one commit. Compensations are the exception: what the requests  *)
(* were charged is looked up before the lock is taken. Holds are Billing's *)
(* subject: here a request's charge is one step. Tokens and devices are    *)
(* those of Sessions.                                                      *)
(***************************************************************************)
EXTENDS Integers, Sequences, FiniteSets, SequencesExt, FiniteSetsExt, Functions

CONSTANTS
  CardIds,            \* cards there may be
  Orders,             \* orders of the selling platform
  TopupCodes,         \* top-up codes registered
  Worth, Days,        \* what each code gives: credits, and days or none
  Durations,          \* the validity of the plans sold, in days; 0 for ever
  IssuedCredits,      \* the credits of the plans sold
  RenewalDays,        \* how long a renewed card lasts at least (30)
  CardRequests,       \* requests made with the cards
  RequestCharges,     \* what a request may be charged
  Asks,               \* the adjustments operators ask for, each under a key
  Keys,               \* the idempotency keys of these and of upgrades
  Upgrades,           \* the upgrades operators sell: credits and days
  PlatformCards,      \* the cards orders are fulfilled with; operators issue the others
  OperatedCards,      \* the cards operators suspend, extend, void and archive
  MaxOperated,        \* and while the books have at most how many entries
  MaxDay, MaxUntil,   \* bounds on the clock and on validity
  MaxEntries          \* bound on the entries with credits

ASSUME SomethingIsSold ==
  /\ IssuedCredits \in Nat \ {0} /\ RenewalDays \in Nat
  /\ PlatformCards \subseteq CardIds
  /\ Durations \subseteq Nat /\ RequestCharges \subseteq Nat
  /\ Worth \in [TopupCodes -> Nat] /\ Days \in [TopupCodes -> Nat]
  /\ Upgrades \subseteq Nat \X Nat
  /\ Asks \subseteq [card : CardIds, delta : Int, names : Seq(CardRequests),
                    again : BOOLEAN, key : Keys]
  /\ \A ask \in Asks : IsInjective(ask.names)

\* Operators' keys are not the ids under which the engine books what it does itself.
ASSUME KeysApart == Keys \cap ({"none"} \cup CardRequests \cup TopupCodes \cup CardIds) = {}

VARIABLES
  books,   \* what is saved: cards, codes used, ledger, archives and their summary, orders
  index,   \* memory: what positive adjustments gave each request of each card
  calls,   \* adjustments being made, with what their requests were found to be charged
  day      \* the clock

cardVars == <<books, index, calls, day>>

----------------------------------------------------------------------------
(* Entries and what is derived from them.                                  *)

\* `again` is allow_repeat, which the code checks and does not record.
Entry(c, kind, credits) ==
  [card |-> c, kind |-> kind, credits |-> credits, key |-> "none",
   names |-> <<>>, charged |-> <<>>, again |-> FALSE]

Sum(s) == FoldLeft(LAMBDA a, b : a + b, 0, s)

\* An amount shared in proportion to weights, evenly when there are none, rounded
\* down along the running total.
Split(amount, weights) ==
  LET w == IF Sum(weights) <= 0 THEN [i \in DOMAIN weights |-> 1] ELSE weights
      upto(i) == (amount * Sum(SubSeq(w, 1, i))) \div Sum(w)
  IN [i \in DOMAIN w |-> upto(i) - upto(i - 1)]

IsCompensation(e) == e.kind = "adjustment" /\ e.credits > 0 /\ e.names # <<>>

\* The index with one more adjustment counted.
AddCompensation(idx, e) ==
  IF ~IsCompensation(e) THEN idx
  ELSE LET share == Split(e.credits, e.charged) IN
       [x \in DOMAIN idx \cup {<<e.card, r>> : r \in Range(e.names)} |->
          (IF x \in DOMAIN idx THEN idx[x] ELSE 0)
            + (IF x[1] = e.card /\ x[2] \in Range(e.names)
               THEN share[CHOOSE i \in DOMAIN e.names : e.names[i] = x[2]] ELSE 0)]

NoSummary == [given |-> [c \in CardIds |-> 0], taken |-> [c \in CardIds |-> 0],
              adjustments |-> <<>>]

\* MUTANT: what an adjustment took is not summed.
IncludeGiven(sum, e) ==
  [sum EXCEPT
    !.given[e.card] = @ + (IF e.kind # "usage" /\ e.credits > 0 THEN e.credits ELSE 0),
    !.taken[e.card] = @ + (IF e.kind = "usage" THEN e.credits ELSE 0),
    !.adjustments = IF e.kind = "adjustment" /\ e.key # "none"
                    THEN [k \in DOMAIN @ \cup {e.key} |-> IF k = e.key THEN e ELSE @[k]]
                    ELSE @]

\* The summary with one more entry drained to an archive: sums by card, and every
\* adjustment by its key.
Include(sum, e) ==
  [sum EXCEPT
    !.given[e.card] = @ + (IF e.kind # "usage" /\ e.credits > 0 THEN e.credits ELSE 0),
    !.taken[e.card] = @ + (IF e.kind = "usage" THEN e.credits
                           ELSE IF e.credits < 0 THEN -e.credits ELSE 0),
    !.adjustments = IF e.kind = "adjustment" /\ e.key # "none"
                    THEN [k \in DOMAIN @ \cup {e.key} |-> IF k = e.key THEN e ELSE @[k]]
                    ELSE @]

\* The index a start builds: from the adjustments of the live ledger and of the
\* summary, which keeps them when their entries are archived.
BuildIndex(b) ==
  FoldLeft(AddCompensation,
           FoldSet(LAMBDA k, idx : AddCompensation(idx, b.summary.adjustments[k]), <<>>,
                   DOMAIN b.summary.adjustments),
           b.ledger)

\* The entry a key was used for, live or archived.
UsedFor(b, key) ==
  {e \in Range(b.ledger) : e.kind = "adjustment" /\ e.key = key}
    \cup {b.summary.adjustments[k] : k \in DOMAIN b.summary.adjustments \cap {key}}

\* Where a request was charged: in the live ledger or in an archive.
ChargeOf(b, r) ==
  {e \in Range(b.ledger) \cup Range(b.archives) : e.kind = "usage" /\ e.key = r}

----------------------------------------------------------------------------
(* Cards.                                                                  *)

NewCard(duration) ==
  [status |-> "unactivated", frozenFrom |-> "none", archived |-> FALSE,
   activated |-> FALSE, until |-> 0, duration |-> duration,
   total |-> IssuedCredits, used |-> 0]

Sold(c) == c \in DOMAIN books.cards

Card(c) == books.cards[c]

\* Whether a card serves requests now. No code stores the status Expired any more.
CheckActiveCard(k) == k.status = "active" /\ (k.until = 0 \/ day < k.until)

AvailableCredits(k) == IF k.total > k.used THEN k.total - k.used ELSE 0

AwaitsActivation(k) == ~k.activated /\ k.until = 0 /\ k.status # "active"

Later(a, b) == IF a > b THEN a ELSE b

\* A commit that is saved: published, or found by the next start because the
\* process dies first. One that is not saved changes nothing.
CommitBooks(next, idx, rest) ==
  /\ books' = next
  /\ \/ index' = idx /\ calls' = rest
     \/ index' = BuildIndex(next) /\ calls' = {}
  /\ UNCHANGED day

\* One card becomes `k`, with these entries in the ledger.
Change(c, k, entries) ==
  CommitBooks([books EXCEPT !.cards[c] = k, !.ledger = @ \o entries],
              FoldLeft(AddCompensation, index, entries), calls)

Issued(b, c, duration) ==
  [b EXCEPT !.cards = [x \in DOMAIN @ \cup {c} |-> IF x = c THEN NewCard(duration) ELSE @[x]]]

IssueCard(c, duration) ==
  /\ ~Sold(c)
  /\ CommitBooks(Issued(books, c, duration), index, calls)

\* The platform's order: the card and the record of the order in one commit. An
\* order there is a record of is answered from it.
FulfillCardOrder(o, c, duration) ==
  /\ ~Sold(c)
  /\ o \notin DOMAIN books.orders
  /\ CommitBooks([Issued(books, c, duration) EXCEPT
                    !.orders = [x \in DOMAIN @ \cup {o} |-> IF x = o THEN c ELSE @[x]]],
                 index, calls)

ActivateCard(c) ==
  LET k == Card(c) IN
  /\ k.status = "unactivated"
  /\ Change(c, [k EXCEPT !.activated = TRUE, !.status = "active",
                         !.until = IF k.duration > 0 THEN day + k.duration ELSE 0], <<>>)

\* A request is served and charged.
ChargeRequest(r, c, credits) ==
  LET k == Card(c) IN
  /\ CheckActiveCard(k) /\ AvailableCredits(k) > 0
  /\ ChargeOf(books, r) = {}
  /\ Change(c, [k EXCEPT !.used = @ + credits],
            <<[Entry(c, "usage", credits) EXCEPT !.key = r]>>)

----------------------------------------------------------------------------
(* Customers.                                                              *)

RedeemTopup(c, code) ==
  LET k == Card(c) IN
  /\ code \notin books.codes
  /\ k.status \notin {"frozen", "banned", "voided"}
  /\ Days[code] > 0 => k.status # "unactivated" /\ k.until # 0
  /\ CommitBooks(
       [books EXCEPT
         !.codes = @ \cup {code},
         !.cards[c].total = @ + Worth[code],
         !.cards[c].until = IF Days[code] > 0 THEN Later(@, day) + Days[code] ELSE @,
         !.ledger = Append(@, [Entry(c, "topup", Worth[code]) EXCEPT !.key = code])],
       index, calls)

\* The credits of the card whose code pays go over, and it is voided, used up.
Renewed(c, s) ==
  [books EXCEPT
    !.cards[c].total = @ + Card(s).total,
    !.cards[c].until = IF @ = 0 THEN 0 ELSE Later(@, day + RenewalDays),
    !.cards[s].status = "voided",
    !.cards[s].used = Card(s).total,
    !.ledger = @ \o <<[Entry(c, "topup", Card(s).total) EXCEPT !.key = s],
                      [Entry(s, "adjustment", -Card(s).total) EXCEPT !.key = s]>>]

RenewWithCard(c, s) ==
  /\ s # c
  /\ Card(s).status = "unactivated" /\ ~Card(s).activated /\ Card(s).until = 0
  /\ Card(s).used = 0 /\ Card(s).total > 0
  /\ Card(c).status = "active" /\ Card(c).activated
  /\ CommitBooks(Renewed(c, s), index, calls)

----------------------------------------------------------------------------
(* Operators: adjustments.                                                 *)

\* What the requests of an adjustment were charged, read before the state lock. One
\* that was charged nothing is refused whatever happens next.
LookUpRequests(ask) ==
  LET found == [i \in DOMAIN ask.names |-> ChargeOf(books, ask.names[i])] IN
  /\ Cardinality(calls) < 2
  /\ \A i \in DOMAIN found : found[i] # {}
  /\ calls' = calls \cup {[ask |-> ask, found |-> found]}
  /\ UNCHANGED <<books, index, day>>

\* MUTANT: only the sum given so far is compared with the charges.
CheckCompensationSum(ask, found) ==
  LET charged == Sum([i \in DOMAIN found |-> (CHOOSE e \in found[i] : TRUE).credits]) IN
  \/ ask.delta <= 0 \/ ask.again
  \/ ask.delta <= charged

\* Each request was this card's; a positive adjustment that does not say it repeats
\* names none an earlier one made up for, and gives no more than they were charged.
CheckCompensation(ask, found) ==
  LET charged == Sum([i \in DOMAIN found |-> (CHOOSE e \in found[i] : TRUE).credits]) IN
  \/ ask.delta <= 0 \/ ask.again
  \/ /\ \A i \in DOMAIN found : <<ask.card, ask.names[i]>> \notin DOMAIN index
     /\ ask.delta <= charged

RequestsOf(ask, found) ==
  \A i \in DOMAIN found : \A e \in found[i] : e.card = ask.card

AdjustmentEntry(call) ==
  [Entry(call.ask.card, "adjustment", call.ask.delta) EXCEPT
    !.key = call.ask.key, !.names = call.ask.names, !.again = call.ask.again,
    !.charged = [i \in DOMAIN call.found |-> (CHOOSE e \in call.found[i] : TRUE).credits]]

\* A key already used answers with its entry, or conflicts, and changes nothing.
AdjustCardBalance(call) ==
  LET ask == call.ask
      k == Card(ask.card)
      entry == AdjustmentEntry(call)
  IN
  /\ UsedFor(books, ask.key) = {}
  /\ Sold(ask.card)
  /\ RequestsOf(ask, call.found) /\ CheckCompensation(ask, call.found)
  /\ k.status # "voided"
  /\ ask.delta < 0 => -ask.delta <= AvailableCredits(k)
  /\ CommitBooks(
       [books EXCEPT
         !.cards[ask.card] = IF ask.delta > 0 THEN [k EXCEPT !.total = @ + ask.delta]
                             ELSE [k EXCEPT !.used = @ - ask.delta],
         !.ledger = Append(@, entry)],
       AddCompensation(index, entry), calls \ {call})

\* A refusal, a replay, a commit that failed or a connection that closed.
CallEnds(call) ==
  /\ calls' = calls \ {call}
  /\ UNCHANGED <<books, index, day>>

----------------------------------------------------------------------------
(* Operators: the rest.                                                    *)

\* More days: from the end of the validity or from now once it is over, or on the
\* validity still to begin.
Extended(k, days) ==
  IF AwaitsActivation(k) THEN [k EXCEPT !.duration = @ + days]
  ELSE [k EXCEPT !.until = Later(@, day) + days]

Perpetual(k) == IF AwaitsActivation(k) THEN k.duration = 0 ELSE k.until = 0

MayGrow(k) == k.status # "voided" /\ ~k.archived

\* MUTANT: the key is looked for in the live ledger only.
UpgradedInLiveLedger(key) ==
  {e \in Range(books.ledger) : e.kind = "adjustment" /\ e.key = key}

UpgradedBefore(key) == UsedFor(books, key)

UpgradeCard(c, key, credits, days) ==
  LET k == Card(c) IN
  /\ UpgradedBefore(key) = {}
  /\ MayGrow(k)
  /\ days > 0 => ~Perpetual(k)
  /\ Change(c, [(IF days > 0 THEN Extended(k, days) ELSE k) EXCEPT !.total = @ + credits],
            <<[Entry(c, "adjustment", credits) EXCEPT !.key = key]>>)

\* All of the cards or none.
ExtendValidity(cs) ==
  /\ \A c \in cs : MayGrow(Card(c)) /\ ~Perpetual(Card(c))
  /\ CommitBooks([books EXCEPT !.cards =
                    [c \in DOMAIN @ |-> IF c \in cs THEN Extended(@[c], 1) ELSE @[c]]],
                 index, calls)

\* To a given day, which may not be earlier than the validity's end.
ExtendUntil(cs, until) ==
  /\ until > day
  /\ \A c \in cs : /\ MayGrow(Card(c)) /\ ~Perpetual(Card(c))
                   /\ ~AwaitsActivation(Card(c)) /\ Card(c).until <= until
  /\ CommitBooks([books EXCEPT !.cards =
                    [c \in DOMAIN @ |-> IF c \in cs THEN [@[c] EXCEPT !.until = until] ELSE @[c]]],
                 index, calls)

Freeze(c) ==
  /\ Card(c).status \in {"unactivated", "active"}
  /\ Change(c, [Card(c) EXCEPT !.frozenFrom = Card(c).status, !.status = "frozen"], <<>>)

Unfreeze(c) ==
  /\ Card(c).status = "frozen"
  /\ Change(c, [Card(c) EXCEPT !.status = Card(c).frozenFrom, !.frozenFrom = "none"], <<>>)

Ban(c) ==
  /\ Card(c).status \notin {"voided", "banned"}
  /\ Change(c, [Card(c) EXCEPT !.status = "banned"], <<>>)

Unban(c) ==
  /\ Card(c).status = "banned" /\ ~Card(c).archived
  /\ Change(c, [Card(c) EXCEPT
                 !.status = IF Card(c).frozenFrom # "none" THEN "frozen"
                            ELSE IF Card(c).activated THEN "active" ELSE "unactivated"], <<>>)

Void(c) ==
  /\ Card(c).status # "voided"
  /\ Change(c, [Card(c) EXCEPT !.status = "voided"], <<>>)

ArchiveCard(c) ==
  LET k == Card(c) IN
  /\ ~k.archived
  /\ k.status \in {"banned", "voided"} \/ (k.until # 0 /\ day >= k.until)
  /\ Change(c, [k EXCEPT !.archived = TRUE], <<>>)

UnarchiveCard(c) ==
  /\ Card(c).archived
  /\ Change(c, [Card(c) EXCEPT !.archived = FALSE], <<>>)

\* The oldest entries go to a file, which is kept, and into the summary.
ArchiveEntries(n) ==
  LET drained == SubSeq(books.ledger, 1, n) IN
  CommitBooks([books EXCEPT !.ledger = SubSeq(@, n + 1, Len(@)),
                            !.archives = @ \o drained,
                            !.summary = FoldLeft(Include, @, drained)],
              index, calls)

\* A restart; with a summary that does not count every archived entry, or lacks
\* what later releases keep in it, it is made anew from the files.
RestartBooks ==
  /\ \E rebuilt \in {books.summary, FoldLeft(Include, NoSummary, books.archives)} :
       books' = [books EXCEPT !.summary = rebuilt]
  /\ index' = BuildIndex(books')
  /\ calls' = {}
  /\ UNCHANGED day

DayPasses ==
  /\ day < MaxDay
  /\ day' = day + 1
  /\ UNCHANGED <<books, index, calls>>

----------------------------------------------------------------------------

CardsInit ==
  /\ books = [cards |-> <<>>, codes |-> {}, ledger |-> <<>>, archives |-> <<>>,
              summary |-> NoSummary, orders |-> <<>>]
  /\ index = <<>> /\ calls = {} /\ day = 0

Entries == Len(books.ledger) + Len(books.archives)

Operates(c) ==
  /\ c \in OperatedCards /\ Entries <= MaxOperated
  /\ \/ Freeze(c) \/ Unfreeze(c) \/ Ban(c) \/ Unban(c) \/ Void(c)
     \/ ArchiveCard(c) \/ UnarchiveCard(c)

\* What puts entries in the ledger.
Books ==
  \/ \E c \in DOMAIN books.cards :
       \/ \E r \in CardRequests, n \in RequestCharges : ChargeRequest(r, c, n)
       \/ \E code \in TopupCodes : RedeemTopup(c, code)
       \/ \E s \in DOMAIN books.cards : RenewWithCard(c, s)
       \/ \E key \in Keys, u \in Upgrades : UpgradeCard(c, key, u[1], u[2])
  \/ \E call \in calls : AdjustCardBalance(call)

CardsNext ==
  \/ \E c \in CardIds \ PlatformCards, d \in Durations : IssueCard(c, d)
  \/ \E c \in PlatformCards, d \in Durations, o \in Orders : FulfillCardOrder(o, c, d)
  \/ Entries < MaxEntries /\ Books
  \/ \E c \in DOMAIN books.cards : ActivateCard(c)
  \/ \E c \in DOMAIN books.cards : Operates(c)
  \/ \E ask \in Asks : LookUpRequests(ask)
  \/ \E call \in calls : CallEnds(call)
  \/ \E cs \in SUBSET (DOMAIN books.cards \cap OperatedCards) \ {{}} :
       /\ Entries <= MaxOperated
       /\ \A c \in cs : Card(c).until < MaxUntil /\ Card(c).duration < MaxUntil
       /\ ExtendValidity(cs) \/ \E until \in 1..MaxUntil : ExtendUntil(cs, until)
  \/ \E n \in 1..Len(books.ledger) : ArchiveEntries(n)
  \/ RestartBooks
  \/ DayPasses

CardsSpec == CardsInit /\ [][CardsNext]_cardVars

----------------------------------------------------------------------------
(* Properties.                                                             *)

\* The shape of the books.
CardsTypeOK ==
  /\ DOMAIN books.cards \subseteq CardIds
  /\ \A c \in DOMAIN books.cards :
       /\ Card(c).status \in {"unactivated", "active", "frozen", "banned", "voided"}
       /\ Card(c).frozenFrom \in {"none", "unactivated", "active"}
       /\ Card(c).until \in Nat /\ Card(c).duration \in Nat
       /\ Card(c).total \in Nat /\ Card(c).used \in Nat
  /\ books.codes \subseteq TopupCodes
  /\ DOMAIN books.orders \subseteq Orders /\ Range(books.orders) \subseteq DOMAIN books.cards
  /\ \A call \in calls : call.ask \in Asks

TotalOf(s, Of(_)) == FoldLeft(LAMBDA n, e : n + Of(e), 0, s)

GivenTo(c) ==
  books.summary.given[c]
    + TotalOf(books.ledger,
             LAMBDA e : IF e.card = c /\ e.kind # "usage" /\ e.credits > 0 THEN e.credits ELSE 0)

TakenFrom(c) ==
  books.summary.taken[c]
    + TotalOf(books.ledger,
             LAMBDA e : IF e.card # c THEN 0 ELSE IF e.kind = "usage" THEN e.credits
                        ELSE IF e.credits < 0 THEN -e.credits ELSE 0)

\* What reconcile_card_balance audits: a card has what it was issued with and given, and
\* has used what was charged and taken.
CardsReconcile ==
  \A c \in DOMAIN books.cards :
    Card(c).total = IssuedCredits + GivenTo(c) /\ Card(c).used = TakenFrom(c)

EveryEntry == books.archives \o books.ledger

\* Credits are sold once: over all cards there is as much left as was issued, topped
\* up with a code, and given under a key, less what was charged; and every card is what
\* its entries say, also when part of them are in archives of which only sums are kept.
\* A retry, a crash, an archived key or the renewal of one card with another makes none
\* of it twice.
SoldOnce ==
  /\ CardsReconcile
  /\ \A key \in Keys : Cardinality({i \in DOMAIN EveryEntry : EveryEntry[i].key = key}) <= 1
  /\ MapThenSumSet(LAMBDA c : Card(c).total - Card(c).used, DOMAIN books.cards)
       = IssuedCredits * Cardinality(DOMAIN books.cards)
         + MapThenSumSet(LAMBDA t : Worth[t], books.codes)
         + TotalOf(EveryEntry, LAMBDA e : IF e.key \in Keys THEN e.credits
                                         ELSE IF e.kind = "usage" THEN -e.credits ELSE 0)

Compensates(e, r) == IsCompensation(e) /\ r \in Range(e.names)

ShareOf(e, r) == Split(e.credits, e.charged)[CHOOSE i \in DOMAIN e.names : e.names[i] = r]

\* A request is made up for once and for no more than it was charged, unless an
\* operator said to do it again: whatever is archived, charged or compensated while
\* another compensation is between its lookup and its commit. The index in memory
\* that decides it is the one a restart would build.
CompensatedOnce ==
  /\ index = BuildIndex(books)
  /\ \A r \in CardRequests :
       (\A e \in Range(EveryEntry) : Compensates(e, r) => ~e.again) =>
         TotalOf(EveryEntry, LAMBDA e : IF Compensates(e, r) THEN ShareOf(e, r) ELSE 0)
           <= MapThenSumSet(LAMBDA e : e.credits, ChargeOf(books, r))
=============================================================================
