------------------------------- MODULE Reports -------------------------------
(***************************************************************************)
(* The operator's financials of a period (the financials handler and       *)
(* observability.rs): sales, cash, adjustments and usage revenue, computed *)
(* from the cards and the ledger as they are when asked, although prices,  *)
(* the face value of a credit and the plans of cards change and part of    *)
(* the ledger is archived. Times are days; money and credits small numbers.*)
(***************************************************************************)
EXTENDS Integers, SequencesExt, BagsExt

CONSTANTS
  SoldCards, Plans,
  PlanPrices,              \* [plan, price]: what the catalog may ask
  FaceValues, Payments,    \* of a credit; paid for an upgrade or returned
  Kinds,                   \* of adjustments, with or without money: [name, credits]
  LegacyUse,               \* how many usage entries of a release that recorded no face value
  LastDay, MaxEntries, MaxActs  \* bounds

VARIABLES
  catalog,   \* plan -> price
  face,      \* the face value of a credit, and the frozen one of older entries
  sold,      \* card -> the card
  books,     \* the live ledger
  kept,      \* archived adjustments, in no order
  today,
  acts,      \* bound: what was done so far
  archivedTo, \* ghost: entries before it are archived
  journal    \* ghost: a bag of what happened, as it was when it happened

reportVars == <<catalog, face, sold, books, kept, today, acts, archivedTo, journal>>

NoPlan == [id |-> "none", price |-> 0]
NoFace == 0
Never == 0
OldCard == "one of an older release"

Happened(what, card, money) == [what |-> what, card |-> card, at |-> today, money |-> money]

LineOf(kind, card, credits) ==
  [kind |-> kind, card |-> card, at |-> today, credits |-> credits, face |-> NoFace,
   cash |-> 0, previous |-> NoPlan]

MayRecord == Len(books) + Len(kept) < MaxEntries

----------------------------------------------------------------------------
(* The operator, and customers.                                            *)

\* A card is sold at what was paid for it, or at its plan's price.
Issue(c, p, paid) ==
  /\ sold[c].at = Never
  /\ sold' = [sold EXCEPT ![c] = [at |-> today, activated |-> Never, voided |-> FALSE,
                                  plan |-> [id |-> p, price |-> paid]]]
  /\ journal' = BagAdd(journal, Happened("sale", c, paid))
  /\ UNCHANGED <<catalog, face, books, kept, today, archivedTo>>

Usable(c) == sold[c].at # Never /\ ~sold[c].voided

SaleOf(c) == CHOOSE f \in DOMAIN journal : f.card = c /\ f.what = "sale"

Activate(c) ==
  /\ Usable(c) /\ sold[c].activated = Never
  /\ sold' = [sold EXCEPT ![c].activated = today]
  /\ journal' = BagAdd(journal, Happened("activation", c, SaleOf(c).money))
  /\ UNCHANGED <<catalog, face, books, kept, today, archivedTo>>

\* Voided before it was activated, a card was never sold.
Unsold(c) == BagRemove(journal, SaleOf(c))

VoidSold(c) ==
  /\ Usable(c)
  /\ sold' = [sold EXCEPT ![c].voided = TRUE]
  /\ journal' = IF sold[c].activated = Never THEN Unsold(c) ELSE journal
  /\ UNCHANGED <<catalog, face, books, kept, today, archivedTo>>

\* A card's credits renew another: it is voided unactivated, and leaves the sales as well.
RenewWithCard(c, source) ==
  /\ c # source /\ Usable(c) /\ Usable(source) /\ MayRecord
  /\ sold[c].activated # Never /\ sold[source].activated = Never
  /\ sold' = [sold EXCEPT ![source].voided = TRUE]
  /\ books' = Append(books, LineOf("correction", source, -1))
  /\ journal' = BagAdd(Unsold(source), Happened("correction", source, -1))
  /\ UNCHANGED <<catalog, face, kept, today, archivedTo>>

UpgradeCard(c, p, cash) ==
  /\ Usable(c) /\ MayRecord
  /\ sold' = [sold EXCEPT ![c].plan = [id |-> p, price |-> cash]]
  /\ books' = Append(books, [LineOf("upgrade", c, 1) EXCEPT !.cash = cash, !.previous = sold[c].plan])
  /\ journal' = BagAdd(journal, Happened("upgrade", c, cash))
  /\ UNCHANGED <<catalog, face, kept, today, archivedTo>>

\* A gift, a compensation, a correction, or a refund with the money returned.
AdjustBalance(c, kind, cash) ==
  /\ Usable(c) /\ MayRecord
  /\ (kind.name = "refund") <=> (cash # 0)
  /\ books' = Append(books, [LineOf(kind.name, c, kind.credits) EXCEPT !.cash = cash])
  /\ journal' = BagAdd(journal, Happened(kind.name, c, IF cash # 0 THEN cash ELSE kind.credits))
  /\ UNCHANGED <<catalog, face, sold, kept, today, archivedTo>>

\* A charge records the face value it was earned at. One recovered late is dated when it
\* was made.
Charge(c, late) ==
  /\ Usable(c) /\ sold[c].activated # Never /\ MayRecord
  /\ today - late >= 1 /\ today - late >= archivedTo
  /\ books' = Append(books, [LineOf("usage", c, 1) EXCEPT !.at = today - late, !.face = face.now])
  /\ journal' = BagAdd(journal, [Happened("revenue", c, face.now) EXCEPT !.at = today - late])
  /\ UNCHANGED <<catalog, face, sold, kept, today, archivedTo>>

\* The first change of it freezes the one entries without their own were earned at.
SetFaceValue(value) ==
  /\ value # face.now
  /\ face' = [now |-> value, legacy |-> IF face.legacy = NoFace THEN face.now ELSE face.legacy]
  /\ UNCHANGED <<catalog, sold, books, kept, today, archivedTo, journal>>

PricePlan(offer) ==
  /\ catalog[offer.plan] # offer.price
  /\ catalog' = [catalog EXCEPT ![offer.plan] = offer.price]
  /\ UNCHANGED <<face, sold, books, kept, today, archivedTo, journal>>

\* The archive's summary keeps adjustments, and of usage only sums.
ArchiveBooks(cutoff) ==
  /\ \E n \in DOMAIN books : books[n].at < cutoff
  /\ books' = SelectSeq(books, LAMBDA e : e.at >= cutoff)
  /\ kept' = kept \o SelectSeq(books, LAMBDA e : e.at < cutoff /\ e.kind # "usage")
  /\ archivedTo' = IF cutoff > archivedTo THEN cutoff ELSE archivedTo
  /\ UNCHANGED <<catalog, face, sold, today, journal>>

NextDay ==
  /\ today < LastDay /\ today' = today + 1
  /\ UNCHANGED <<catalog, face, sold, books, kept, archivedTo, journal>>

ReportsInit ==
  /\ catalog \in [Plans -> {offer.price : offer \in PlanPrices}]
  /\ \A p \in Plans : [plan |-> p, price |-> catalog[p]] \in PlanPrices
  /\ face \in [now : FaceValues, legacy : {NoFace}]
  /\ sold = [c \in SoldCards |-> [at |-> Never, activated |-> Never, voided |-> FALSE, plan |-> NoPlan]]
  /\ today = 1 /\ acts = 0 /\ archivedTo = 0 /\ kept = <<>>
  /\ \E n \in LegacyUse :
       /\ books = [k \in 1..n |-> LineOf("usage", OldCard, 1)]
       /\ journal = IF n = 0 THEN EmptyBag ELSE Happened("revenue", OldCard, face.now) :> n

Act ==
  \/ \E c \in SoldCards :
       \/ \E p \in Plans : \/ \E paid \in {catalog[p]} \cup Payments : Issue(c, p, paid)
                           \/ \E cash \in Payments : UpgradeCard(c, p, cash)
       \/ Activate(c) \/ VoidSold(c)
       \/ \E source \in SoldCards : RenewWithCard(c, source)
       \/ \E kind \in Kinds, cash \in {0} \cup Payments : AdjustBalance(c, kind, cash)
       \/ \E late \in 0..1 : Charge(c, late)
  \/ \E value \in FaceValues : SetFaceValue(value)
  \/ \E offer \in PlanPrices : PricePlan(offer)
  \/ \E cutoff \in 2..today : ArchiveBooks(cutoff)
  \/ NextDay

ReportsNext == acts < MaxActs /\ acts' = acts + 1 /\ Act

----------------------------------------------------------------------------
(* The report of a period [from, to).                                      *)

Within(at, period) == at >= period[1] /\ at < period[2]

AllEntries == books \o kept

EntriesIn(period) == SelectSeq(AllEntries, LAMBDA e : Within(e.at, period))

SumOver(s, Of(_)) == FoldSeq(LAMBDA e, sum : Of(e) + sum, 0, s)

PlanChanges(s, c) == SelectSeq(s, LAMBDA e : e.kind = "upgrade" /\ e.card = c)

\* Of the changes of a card's plan the earliest.
Earliest(s) == SelectSeq(s, LAMBDA e : \A f \in Range(s) : e.at <= f.at)

\* Mutant: a card counts at what it last sold for.
CardAsNow(c) == sold[c].plan

CardAsIssued(c) ==
  LET changes == PlanChanges(AllEntries, c) IN
  IF changes = <<>> THEN sold[c].plan ELSE Head(Earliest(changes)).previous

ComputeSales(period) ==
  LET issued == {c \in SoldCards : /\ sold[c].at # Never /\ Within(sold[c].at, period)
                                   /\ ~(sold[c].voided /\ sold[c].activated = Never)}
      activated == {c \in SoldCards : sold[c].activated # Never /\ Within(sold[c].activated, period)}
      Value(C) == MapThenSumSet(LAMBDA c : CardAsIssued(c).price, C)
      OfPlan(C, p) == {c \in C : CardAsIssued(c).id = p}
  IN [issued |-> Cardinality(issued), issuedValue |-> Value(issued), activatedValue |-> Value(activated),
      byPlan |-> [p \in Plans |-> [cards |-> Cardinality(OfPlan(issued, p)),
                                   value |-> Value(OfPlan(issued, p))]]]

EntryFaceValue(e) ==
  IF e.face # NoFace THEN e.face ELSE IF face.legacy # NoFace THEN face.legacy ELSE face.now

IsUsage(e) == e.kind = "usage"
IsAdjustment(e) == e.kind \notin {"usage", "upgrade"}

\* From the live ledger alone.
MarginDashboard(period) ==
  LET usage == SelectSeq(books, LAMBDA e : IsUsage(e) /\ Within(e.at, period))
  IN [requests |-> Len(usage), credits |-> SumOver(usage, LAMBDA e : e.credits),
      revenue |-> SumOver(usage, LAMBDA e : e.credits * EntryFaceValue(e))]

KindNames == {"gift", "compensation", "correction", "refund"}

ComputeAdjustments(period) ==
  LET entries == SelectSeq(EntriesIn(period), IsAdjustment)
      Of(kind) == SelectSeq(entries, LAMBDA e : e.kind = kind)
  IN [net |-> SumOver(entries, LAMBDA e : e.credits),
      byKind |-> [kind \in KindNames |->
        [count |-> Len(Of(kind)), credits |-> SumOver(Of(kind), LAMBDA e : e.credits),
         cash |-> SumOver(Of(kind), LAMBDA e : e.cash)]]]

ComputeCash(period) ==
  LET entries == EntriesIn(period)
      Paid(kind) == SumOver(SelectSeq(entries, LAMBDA e : e.kind = kind), LAMBDA e : e.cash)
  IN [sales |-> ComputeSales(period).issuedValue, upgrades |-> Paid("upgrade"), refunds |-> Paid("refund"),
      net |-> ComputeSales(period).issuedValue + Paid("upgrade") - Paid("refund")]

----------------------------------------------------------------------------
(* Properties.                                                             *)

\* Two changes of a card's plan at one moment, both archived: their order is lost.
Ambiguous == \E c \in SoldCards : Len(Earliest(PlanChanges(kept, c))) > 1

JournalOf(what, period) ==
  MapThenSumSet(LAMBDA f : f.money * journal[f],
                {f \in DOMAIN journal : f.what = what /\ Within(f.at, period)})

\* The report of a period says what happened in it, whenever it is asked for: neither a
\* new price or face value, nor an upgrade or an archived ledger restates the past. Only a
\* card voided before it was activated leaves the sales again, and the usage of archived
\* days the revenue.
ReportsStand ==
  \A period \in {<<from, to>> \in (1..today) \X (2..today + 1) : from < to} :
    LET cash == ComputeCash(period)
        sales == ComputeSales(period)
        adjusted == ComputeAdjustments(period) IN
    /\ ~Ambiguous =>
         /\ cash.sales = JournalOf("sale", period)
         /\ sales.activatedValue = JournalOf("activation", period)
         /\ cash.net = JournalOf("sale", period) + JournalOf("upgrade", period) - JournalOf("refund", period)
    /\ \A kind \in KindNames \ {"refund"} :
         adjusted.byKind[kind].credits = JournalOf(kind, period)
    /\ adjusted.byKind["refund"].cash = cash.refunds
    /\ period[1] >= archivedTo => MarginDashboard(period).revenue = JournalOf("revenue", period)
    /\ sales.issuedValue = MapThenSumSet(LAMBDA p : sales.byPlan[p].value, Plans)
=============================================================================
