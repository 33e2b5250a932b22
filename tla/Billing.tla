------------------------------- MODULE Billing -------------------------------
(***************************************************************************)
(* The billing engine of crates/billing: the hold a request takes on its   *)
(* card before it is served, the settlement that charges it, the refund    *)
(* that returns the hold, the janitor, the recovery of settlements whose   *)
(* write failed, the operator's adjustments, and the saved state that      *)
(* every committed mutation replaces.                                      *)
(*                                                                         *)
(* Every operation runs under BillingEngine::state_lock, so each is one    *)
(* action.  The engine's tables are one record, `mem`; `disk` is the       *)
(* record the last commit saved.  The commit itself is one step here; the  *)
(* files it is made of are the subject of module SnapshotStore.            *)
(***************************************************************************)
EXTENDS Integers, FiniteSets, SequencesExt

CONSTANTS
  Cards,            \* the card keys sold
  Invocations,      \* the request ids clients send, scoped to one card each
  CardOf,           \* the card of an invocation: gateway keys are "card:id"
  AdjustKeys,       \* idempotency keys of operator adjustments
  HoldAmounts,      \* the upper bounds a request may be reserved at
  Charges,          \* the prices its real usage may come to
  MaxSettlement,    \* MAX_SETTLEMENT_MICRO_CREDITS
  Deltas,           \* the adjustments operators make, in credits
  OperatedCards,    \* the cards operators freeze, ban and void
  ArchiveCutoffs,   \* the cutoffs operators archive the ledger at
  Balance,          \* the credits each card is sold with
  MaxConcurrency, DailyLimit, MonthlyLimit, ValidUntil,   \* per card
  DayLength, MonthLength,  \* the windows of the two limits
  Ttl,              \* how long an orphaned hold is kept
  Retention,        \* TERMINAL_RESERVATION_RETENTION_SECS
  MaxTime,          \* bound: the last instant modelled
  MaxLeases,        \* bound: concurrent owners of one invocation
  ClientsReuseIds   \* whether clients reuse an id after Retention

ASSUME IdsAssumption == CardOf \in [Invocations -> Cards]

ASSUME AmountsAssumption ==
  /\ HoldAmounts \subseteq Nat /\ Charges \subseteq Nat
  /\ MaxSettlement \in Nat /\ Deltas \subseteq Int \ {0}

ASSUME CardsAssumption ==
  /\ OperatedCards \subseteq Cards
  /\ Balance \in [Cards -> Nat] /\ MaxConcurrency \in [Cards -> Nat]
  /\ DailyLimit \in [Cards -> Nat] /\ MonthlyLimit \in [Cards -> Nat]
  /\ ValidUntil \in [Cards -> Nat]

ASSUME TimesAssumption ==
  /\ DayLength \in Nat \ {0} /\ MonthLength \in Nat
  /\ Ttl \in Nat /\ Retention \in Nat /\ MaxTime \in Nat
  /\ ArchiveCutoffs \subseteq Nat /\ MaxLeases \in Nat
  /\ ClientsReuseIds \in BOOLEAN

VARIABLES
  mem,          \* the tables in memory
  disk,         \* the tables of the last committed snapshot
  leases,       \* active_reservations: the owners of each invocation
  writeFailed,  \* last_persistence_error is set: reservations are refused
  up,           \* the process is running
  now

vars == <<mem, disk, leases, writeFailed, up, now>>

Statuses == {"active", "frozen", "banned", "voided"}
\* `frozen` says that frozen_from is set.
Card == [total : Nat, used : Nat, reserved : Int, status : Statuses,
         frozen : BOOLEAN]
Reservation == [state : {"held", "settled", "released"},
                amount : Nat, created : Nat, expires : Nat]
Bill == [charge : Nat, ts : Nat]
Entry == [kind : {"usage", "adjustment"}, card : Cards,
          ref : Invocations \cup AdjustKeys, credits : Int, ts : Nat]
UnpaidCharge == [ref : Invocations, amount : Nat]

\* One BillingSnapshot.  `archived` marks the ledger entries drained to the
\* archive files: their sums and keys stay in the summary, so only what reads
\* the live ledger tells them apart.
IsSnapshot(s) ==
  /\ DOMAIN s = {"cards", "reservations", "pending", "ledger", "archived", "unpaid"}
  /\ s = [table \in DOMAIN s |-> s[table]]

TablesOK(s) ==
  /\ IsSnapshot(s)
  /\ s.cards \in [Cards -> Card]
  /\ s.reservations \in [DOMAIN s.reservations -> Reservation]
  /\ DOMAIN s.reservations \subseteq Invocations
  /\ s.pending \in [DOMAIN s.pending -> Bill]
  /\ DOMAIN s.pending \subseteq Invocations
  /\ s.ledger \in Seq(Entry)
  /\ s.archived \subseteq DOMAIN s.ledger
  /\ s.unpaid \in Seq(UnpaidCharge)

TypeOK ==
  /\ TablesOK(mem) /\ TablesOK(disk)
  /\ leases \in [Invocations -> 0 .. MaxLeases]
  /\ writeFailed \in BOOLEAN /\ up \in BOOLEAN
  /\ now \in 0 .. MaxTime

-----------------------------------------------------------------------------
\* Reading the tables.

Positive(x) == IF x > 0 THEN x ELSE 0

\* The sum of a function's values.  The test changes nothing for functions of
\* integers; it is what gives the fold a type the prover can use.
Total(f) == LET sum == SumFunction(f) IN IF sum \in Int THEN sum ELSE 0

Put(f, key, value) ==
  [k \in DOMAIN f \cup {key} |-> IF k = key THEN value ELSE f[k]]

Without(f, keys) == Restrict(f, DOMAIN f \ keys)

HeldOn(s, c) ==
  {i \in DOMAIN s.reservations :
     s.reservations[i].state = "held" /\ CardOf[i] = c}

AmountOf(s, ids) == Total([i \in ids |-> s.reservations[i].amount])

HeldCredits(s, c) == AmountOf(s, HeldOn(s, c))

UsageOf(s, i) ==
  {k \in DOMAIN s.ledger : s.ledger[k].kind = "usage" /\ s.ledger[k].ref = i}

LiveUsageOf(s, i) == UsageOf(s, i) \ s.archived

UsageSince(s, c, since) ==
  {k \in DOMAIN s.ledger :
     /\ s.ledger[k].kind = "usage" /\ s.ledger[k].card = c
     /\ s.ledger[k].ts >= since}

Credits(s, entries) == Total([k \in entries |-> s.ledger[k].credits])

StartOfDay(t) == (t \div DayLength) * DayLength
StartOfMonth(t) == Positive(t - MonthLength)

\* Mutant: credit on hold can be spent again.
AvailableDespiteHolds(card) == Positive(card.total - card.used)

Available(card) == Positive(card.total - (card.used + card.reserved))
Debt(card) == Positive(card.used - card.total)

-----------------------------------------------------------------------------
\* Committing.  A commit saves the candidate tables first and publishes them
\* in memory only then; a failed write leaves `orElse` in memory and refuses
\* reservations from then on; a process that dies between the two leaves the
\* candidate saved.

Stopped ==
  /\ up' = FALSE
  /\ mem' = disk'               \* what the next start will read
  /\ leases' = [i \in Invocations |-> 0]
  /\ writeFailed' = FALSE

Saved(candidate) ==
  /\ disk' = candidate /\ mem' = candidate
  /\ writeFailed' = FALSE
  /\ UNCHANGED <<leases, up>>

NotSaved(orElse) ==
  /\ mem' = orElse
  /\ writeFailed' = TRUE
  /\ UNCHANGED <<disk, leases, up>>

DiedOnceSaved(candidate) == disk' = candidate /\ Stopped

\* Mutant: memory is changed before the write, and not changed back.
CommitInMemoryFirst(candidate, orElse) ==
  /\ \/ Saved(candidate)
     \/ NotSaved(candidate)
     \/ DiedOnceSaved(candidate)
  /\ UNCHANGED now

Commit(candidate, orElse) ==
  /\ \/ Saved(candidate)
     \/ NotSaved(orElse)
     \/ DiedOnceSaved(candidate)
  /\ UNCHANGED now

InPlace(tables) ==
  /\ mem' = tables
  /\ UNCHANGED <<disk, leases, writeFailed, up, now>>

-----------------------------------------------------------------------------
\* Holds.

\* Mutant: what is on hold does not count against the limits.
WithinQuotaOfUsage(s, c, extra) ==
  /\ \A i \in DOMAIN s.pending : CardOf[i] # c
  /\ extra <= DailyLimit[c] - Credits(s, UsageSince(s, c, StartOfDay(now)))
  /\ extra <= MonthlyLimit[c] - Credits(s, UsageSince(s, c, StartOfMonth(now)))

\* check_quota: no settlement of the card outstanding, and the credit held
\* and used in each window leaves room.
WithinQuota(s, c, extra) ==
  /\ \A i \in DOMAIN s.pending : CardOf[i] # c
  /\ extra <= DailyLimit[c]
       - (Credits(s, UsageSince(s, c, StartOfDay(now))) + HeldCredits(s, c))
  /\ extra <= MonthlyLimit[c]
       - (Credits(s, UsageSince(s, c, StartOfMonth(now))) + HeldCredits(s, c))

\* Card::check_can_reserve
CanReserve(card, c, amount) ==
  /\ card.status = "active" /\ now < ValidUntil[c]
  /\ amount <= Available(card)

\* Mutant: only a hold that stands refuses its invocation.
TakenWhileHeld(s, i) ==
  i \in DOMAIN s.reservations /\ s.reservations[i].state = "held"

\* A record refuses its invocation unless the hold was returned unused.
Taken(s, i) ==
  /\ i \in DOMAIN s.reservations
  /\ s.reservations[i].state # "released" \/ i \in DOMAIN s.pending

\* What clients send: an id once charged is retried while its record lasts,
\* and afterwards only where ClientsReuseIds says so.
Sendable(i) ==
  \/ ClientsReuseIds
  \/ UsageOf(mem, i) = {}
  \/ i \in DOMAIN mem.reservations

Hold(s, i, amount) ==
  [s EXCEPT
     !.cards[CardOf[i]].reserved = @ + amount,
     !.reservations = Put(@, i, [state |-> "held", amount |-> amount,
                                 created |-> now, expires |-> now + Ttl])]

Reserve(i, amount) ==
  LET c == CardOf[i] IN
  /\ up /\ ~writeFailed
  /\ Sendable(i)
  /\ now + Ttl <= MaxTime
  /\ ~Taken(mem, i)
  /\ Cardinality(HeldOn(mem, c)) < MaxConcurrency[c]
  /\ WithinQuota(mem, c, amount)
  /\ Debt(mem.cards[c]) = 0
  /\ CanReserve(mem.cards[c], c, amount)
  /\ InPlace(Hold(mem, i, amount))

Extended(s, i, amount) ==
  [s EXCEPT
     !.cards[CardOf[i]].reserved = @ + (amount - s.reservations[i].amount),
     !.reservations[i].amount = amount]

ExtendReservation(i, amount) ==
  LET c == CardOf[i]
      extra == amount - mem.reservations[i].amount IN
  /\ up
  /\ i \in DOMAIN mem.reservations /\ mem.reservations[i].state = "held"
  /\ extra >= 0
  /\ WithinQuota(mem, c, extra)
  /\ CanReserve(mem.cards[c], c, extra)
  /\ Debt(mem.cards[c]) = 0
  /\ Commit(Extended(mem, i, amount), mem)

\* The holds of `ids` returned to their cards.
Refunded(s, ids) ==
  [c \in Cards |->
     [s.cards[c] EXCEPT !.reserved = @ - AmountOf(s, {i \in ids : CardOf[i] = c})]]

Closed(s, ids) ==
  [i \in DOMAIN s.reservations |->
     IF i \in ids THEN [s.reservations[i] EXCEPT !.state = "released"]
                  ELSE s.reservations[i]]

Returned(s, ids) ==
  [s EXCEPT !.cards = Refunded(s, ids), !.reservations = Closed(s, ids)]

Release(i) ==
  /\ up
  /\ i \notin DOMAIN mem.pending
  /\ i \in DOMAIN mem.reservations /\ mem.reservations[i].state = "held"
  /\ InPlace(Returned(mem, {i}))

ProtectReservation(i) ==
  /\ up /\ leases[i] < MaxLeases
  /\ leases' = [leases EXCEPT ![i] = @ + 1]
  /\ UNCHANGED <<mem, disk, writeFailed, up, now>>

\* Mutant: a lease may be dropped twice.
DropLeaseAgain(i) ==
  /\ up
  /\ leases' = [leases EXCEPT ![i] = @ - 1]
  /\ UNCHANGED <<mem, disk, writeFailed, up, now>>

DropLease(i) ==
  /\ up /\ leases[i] > 0
  /\ leases' = [leases EXCEPT ![i] = @ - 1]
  /\ UNCHANGED <<mem, disk, writeFailed, up, now>>

-----------------------------------------------------------------------------
\* Settlement.

UsageEntry(i, bill) ==
  [kind |-> "usage", card |-> CardOf[i], ref |-> i,
   credits |-> bill.charge, ts |-> bill.ts]

\* Mutant: the charge is capped at the balance, its ledger entry is not.
ChargedUpToBalance(s, i, bill) ==
  LET card == s.cards[CardOf[i]]
      left == Positive(card.total - card.used) IN
  [card EXCEPT !.used = @ + (IF bill.charge < left THEN bill.charge ELSE left),
               !.reserved = @ - s.reservations[i].amount]

\* Mutant: the hold stays reserved beside the charge.
ChargedBesideHold(s, i, bill) ==
  [s.cards[CardOf[i]] EXCEPT !.used = @ + bill.charge]

\* The hold returned, and the card charged in full even beyond its balance.
Charged(s, i, bill) ==
  [s.cards[CardOf[i]] EXCEPT !.used = @ + bill.charge,
                             !.reserved = @ - s.reservations[i].amount]

\* Mutant: the evidence forgets what had been used before.
DebtBesideOldUse(s, i, bill) ==
  Positive(bill.charge - s.cards[CardOf[i]].total)

AddedDebt(s, i, bill) ==
  Debt(Charged(s, i, bill)) - Debt(s.cards[CardOf[i]])

\* apply_pending_settlement: the debt the charge adds is kept as evidence.
Debited(s, i, bill) ==
  [s EXCEPT
     !.cards[CardOf[i]] = Charged(s, i, bill),
     !.reservations[i].state = "settled",
     !.pending = Without(@, {i}),
     !.ledger = Append(@, UsageEntry(i, bill)),
     !.unpaid = IF AddedDebt(s, i, bill) > 0
                THEN Append(@, [ref |-> i, amount |-> AddedDebt(s, i, bill)])
                ELSE @]

\* The intent a failed settlement keeps in memory, for recovery to complete.
Intended(s, i, bill) == [s EXCEPT !.pending = Put(@, i, bill)]

BillFor(charge) ==
  [charge |-> IF charge < MaxSettlement THEN charge ELSE MaxSettlement, ts |-> now]

\* Mutant: a replay is charged at its own price.
SettleAnew(i, charge) ==
  LET bill == BillFor(charge) IN
  /\ up
  /\ i \in DOMAIN mem.reservations /\ mem.reservations[i].state = "held"
  /\ Commit(Debited(mem, i, bill), Intended(mem, i, bill))

Settle(i, charge) ==
  LET bill == BillFor(charge) IN
  /\ up
  /\ i \in DOMAIN mem.reservations /\ mem.reservations[i].state = "held"
  /\ \/ /\ i \notin DOMAIN mem.pending
        /\ Commit(Debited(mem, i, bill), Intended(mem, i, bill))
     \/ /\ i \in DOMAIN mem.pending          \* a replay of the same usage
        /\ mem.pending[i].charge = bill.charge
        /\ Commit(Debited(mem, i, mem.pending[i]), mem)

\* Mutant: an intent is retried only while its hold lasts.
RetryWhileHoldLasts(i) ==
  /\ up
  /\ i \in DOMAIN mem.pending
  /\ mem.reservations[i].state = "held" /\ now < mem.reservations[i].expires
  /\ Commit(Debited(mem, i, mem.pending[i]), mem)

\* retry_pending_settlement: an entry of the invocation in the live ledger is
\* returned as the answer, with nothing completed.
RetryPendingSettlement(i) ==
  /\ up
  /\ i \in DOMAIN mem.pending
  /\ LiveUsageOf(mem, i) = {}
  /\ mem.reservations[i].state = "held"
  /\ Commit(Debited(mem, i, mem.pending[i]), mem)

-----------------------------------------------------------------------------
\* The background task: the persistence probe and the janitor.

SpentOf(s, c) ==
  Credits(s, {k \in DOMAIN s.ledger :
                s.ledger[k].kind = "usage" /\ s.ledger[k].card = c})
  - Credits(s, {k \in DOMAIN s.ledger :
                  /\ s.ledger[k].kind = "adjustment"
                  /\ s.ledger[k].card = c /\ s.ledger[k].credits < 0})

\* What load_from_file accepts.
ValidSnapshot(s) ==
  /\ \A i \in DOMAIN s.pending :
       /\ i \in DOMAIN s.reservations
       /\ s.reservations[i].state = "held"
       /\ LiveUsageOf(s, i) = {}
  /\ \A c \in Cards :
       /\ s.cards[c].reserved >= 0
       /\ s.cards[c].used = SpentOf(s, c)

ProbePersistence ==
  /\ up /\ writeFailed
  /\ ValidSnapshot(mem)
  /\ Commit(mem, mem)

\* Mutant: a hold whose settlement is pending is reclaimed like any other.
OrphansWithIntents ==
  {i \in DOMAIN mem.reservations :
     /\ mem.reservations[i].state = "held"
     /\ now >= mem.reservations[i].expires
     /\ leases[i] = 0}

Orphans ==
  {i \in DOMAIN mem.reservations :
     /\ mem.reservations[i].state = "held"
     /\ now >= mem.reservations[i].expires
     /\ leases[i] = 0
     /\ i \notin DOMAIN mem.pending}

\* The terminal records too old to keep, an orphan just reclaimed included.
Forgettable(s) ==
  {i \in DOMAIN s.reservations :
     /\ s.reservations[i].state # "held"
     /\ s.reservations[i].created < Positive(now - Retention)
     /\ i \notin DOMAIN s.pending}

Forgotten(s) == [s EXCEPT !.reservations = Without(@, Forgettable(s))]

RunJanitor ==
  /\ up
  /\ Orphans \cup Forgettable(Returned(mem, Orphans)) # {}
  /\ Commit(Forgotten(Returned(mem, Orphans)), mem)

-----------------------------------------------------------------------------
\* Operators.

Adjustments(s, key) ==
  {k \in DOMAIN s.ledger :
     s.ledger[k].kind = "adjustment" /\ s.ledger[k].ref = key}

\* Mutant: the live ledger alone answers for a key.
AdjustedInLiveLedger(s, key) == Adjustments(s, key) \ s.archived # {}

AlreadyAdjusted(s, key) == Adjustments(s, key) # {}

Adjusted(s, key, c, delta) ==
  [s EXCEPT
     !.cards[c].total = @ + Positive(delta),
     !.cards[c].used = @ + Positive(-delta),
     !.ledger = Append(@, [kind |-> "adjustment", card |-> c, ref |-> key,
                           credits |-> delta, ts |-> now])]

\* A key already in the ledger, live or archived, answers with its entry or a
\* conflict and changes nothing.
AdjustCardBalance(key, c, delta) ==
  /\ up
  /\ ~AlreadyAdjusted(mem, key)
  /\ mem.cards[c].status # "voided"
  /\ delta < 0 => -delta <= Available(mem.cards[c])
  /\ Commit(Adjusted(mem, key, c, delta), mem)

\* The event entries these leave in the ledger, of no credit, are left out.
WithStatus(s, c, status, frozen) ==
  [s EXCEPT !.cards[c].status = status, !.cards[c].frozen = frozen]

SetStatus(c, status, frozen) == Commit(WithStatus(mem, c, status, frozen), mem)

FreezeCard(c) ==
  up /\ mem.cards[c].status = "active" /\ SetStatus(c, "frozen", TRUE)

UnfreezeCard(c) ==
  up /\ mem.cards[c].status = "frozen" /\ SetStatus(c, "active", FALSE)

BanCard(c) ==
  up /\ mem.cards[c].status # "voided" /\ SetStatus(c, "banned", mem.cards[c].frozen)

\* Mutant: lifting a ban makes the card active, whatever it was before.
UnbanToActive(c) ==
  up /\ mem.cards[c].status = "banned" /\ SetStatus(c, "active", mem.cards[c].frozen)

\* A card banned while frozen is frozen again.
UnbanCard(c) ==
  /\ up /\ mem.cards[c].status = "banned"
  /\ SetStatus(c, IF mem.cards[c].frozen THEN "frozen" ELSE "active",
               mem.cards[c].frozen)

\* Mutant: a card is voided under its running requests.
VoidCardInUse(c) ==
  up /\ mem.cards[c].status # "voided" /\ SetStatus(c, "voided", mem.cards[c].frozen)

VoidCard(c) ==
  /\ up
  /\ mem.cards[c].status # "voided"
  /\ mem.cards[c].reserved = 0 /\ HeldOn(mem, c) = {}
  /\ SetStatus(c, "voided", mem.cards[c].frozen)

Drained(s, before) ==
  {k \in DOMAIN s.ledger \ s.archived : s.ledger[k].ts < before}

Archived(s, before) == [s EXCEPT !.archived = @ \cup Drained(s, before)]

ArchiveLedger(before) ==
  /\ up
  /\ Drained(mem, before) # {}
  /\ Commit(Archived(mem, before), mem)

-----------------------------------------------------------------------------
\* The process and its clock.

\* The charges whose records a start makes again: the live ledger's, back
\* to Retention before the latest.
RecentUsage(s) ==
  LET charged == {k \in DOMAIN s.ledger \ s.archived :
                    s.ledger[k].kind = "usage"}
  IN {k \in charged :
        \A l \in charged :
          s.ledger[k].ts >= Positive(s.ledger[l].ts - Retention)}

\* The first of the ledger's entries of an invocation makes its record.
FirstUsage(s, i) ==
  {k \in RecentUsage(s) :
     /\ s.ledger[k].ref = i
     /\ \A l \in RecentUsage(s) : s.ledger[l].ref = i => k <= l}

SettledRecord(t) ==
  [state |-> "settled", amount |-> 0, created |-> t, expires |-> t]

\* import_snapshot: holds no settlement is pending for are dropped, the rest
\* summed again, and a settled record made for each recent charge without one.
RestoredRecords(s) ==
  LET kept == {i \in DOMAIN s.reservations :
                 s.reservations[i].state = "held" => i \in DOMAIN s.pending}
      missing == {i \in Invocations \ DOMAIN s.reservations :
                    FirstUsage(s, i) # {}}
  IN [i \in kept \cup missing |->
        IF i \in kept THEN s.reservations[i]
        ELSE SettledRecord(s.ledger[CHOOSE k \in FirstUsage(s, i) : TRUE].ts)]

Resummed(s) ==
  [c \in Cards |-> [s.cards[c] EXCEPT !.reserved = HeldCredits(s, c)]]

Import(s) ==
  LET tables == [s EXCEPT !.reservations = RestoredRecords(s)]
  IN [tables EXCEPT !.cards = Resummed(tables)]

Crash == up /\ UNCHANGED <<disk, now>> /\ Stopped

\* The final save of an orderly stop; its failure only loses the holds.
Shutdown == up /\ disk' = mem /\ Stopped /\ UNCHANGED now

\* A process whose state does not load refuses to start.
Restart ==
  /\ ~up /\ ValidSnapshot(disk)
  /\ up' = TRUE
  /\ mem' = Import(disk)
  /\ UNCHANGED <<disk, leases, writeFailed, now>>

Tick == now < MaxTime /\ now' = now + 1 /\ UNCHANGED <<mem, disk, leases, writeFailed, up>>

-----------------------------------------------------------------------------

NoRecords == [i \in {} |-> 0]

Fresh ==
  [cards |-> [c \in Cards |-> [total |-> Balance[c], used |-> 0,
                               reserved |-> 0, status |-> "active",
                               frozen |-> FALSE]],
   reservations |-> NoRecords, pending |-> NoRecords,
   ledger |-> <<>>, archived |-> {}, unpaid |-> <<>>]

Init ==
  /\ mem = Fresh /\ disk = Fresh
  /\ leases = [i \in Invocations |-> 0]
  /\ writeFailed = FALSE /\ up = TRUE
  /\ now = 0

Request(i) ==
  \/ \E amount \in HoldAmounts : Reserve(i, amount) \/ ExtendReservation(i, amount)
  \/ \E charge \in Charges : Settle(i, charge)
  \/ Release(i)
  \/ ProtectReservation(i)
  \/ DropLease(i)

Background ==
  \/ ProbePersistence
  \/ \E i \in Invocations : RetryPendingSettlement(i)
  \/ RunJanitor

Operator ==
  \/ \E key \in AdjustKeys, c \in Cards, delta \in Deltas :
       AdjustCardBalance(key, c, delta)
  \/ \E c \in OperatedCards :
       FreezeCard(c) \/ UnfreezeCard(c) \/ BanCard(c) \/ UnbanCard(c) \/ VoidCard(c)
  \/ \E before \in ArchiveCutoffs : ArchiveLedger(before)

Process == Crash \/ Shutdown \/ Restart \/ Tick

Next ==
  \/ \E i \in Invocations : Request(i)
  \/ Background
  \/ Operator
  \/ Process

Spec == Init /\ [][Next]_vars

\* A step that was saved: the process lives and the write worked.
Lasting(action) == action /\ up' /\ ~writeFailed'

-----------------------------------------------------------------------------
\* Safety.

\* reserve, settle, release, the janitor and the loader each adjust
\* credit_reserved by hand: it is always exactly the sum of the holds that
\* stand, so no credit is frozen for ever and none is spent twice.
HoldsAccounted ==
  \A c \in Cards : mem.cards[c].reserved = HeldCredits(mem, c)

\* The saved state always loads: the process can always be started again.
DiskLoadable == ValidSnapshot(disk)

\* Money in memory is money on disk: whatever has been acknowledged (a debit,
\* a top-up, a card's status, evidence of debt) survives the process, while
\* holds and intents may not.
SameMoney(s, t) ==
  /\ s.ledger = t.ledger /\ s.unpaid = t.unpaid /\ s.archived = t.archived
  /\ \A c \in Cards : /\ s.cards[c].total = t.cards[c].total
                      /\ s.cards[c].used = t.cards[c].used
                      /\ s.cards[c].status = t.cards[c].status
                      /\ s.cards[c].frozen = t.cards[c].frozen

MoneyIsDurable == SameMoney(mem, disk)

\* An invocation with a consumed but unsaved bill keeps its hold, in memory
\* and in every snapshot: no refund, janitor or restart reaches it.
PendingHeld(s) ==
  \A i \in DOMAIN s.pending :
    i \in DOMAIN s.reservations /\ s.reservations[i].state = "held"

PendingIsHeld == PendingHeld(mem) /\ PendingHeld(disk)

\* No request is charged twice, however often it is retried, across failed
\* writes, recovery, pruning and restarts.
EntriesDiffer(s) ==
  \A k, l \in DOMAIN s.ledger :
    /\ s.ledger[k].kind = "usage" /\ s.ledger[l].kind = "usage"
    /\ s.ledger[k].ref = s.ledger[l].ref
    => k = l

ChargedOnce == EntriesDiffer(mem)

\* How far a charge ran over the hold its request was reserved at; all of it
\* where the record is gone.
Overrun(s, k) ==
  LET i == s.ledger[k].ref IN
  IF i \in DOMAIN s.reservations /\ s.reservations[i].state = "settled"
  THEN Positive(s.ledger[k].credits - s.reservations[i].amount)
  ELSE s.ledger[k].credits

OverrunOf(s, entries) == Total([k \in entries |-> Overrun(s, k)])

\* Concurrent requests never spend the same balance: beyond what a card was
\* sold, its use and its holds come only from served requests that cost more
\* than they were held at.
ExposureCovered ==
  \A c \in Cards :
    mem.cards[c].used + mem.cards[c].reserved
      <= mem.cards[c].total + OverrunOf(mem, UsageSince(mem, c, 0))

\* The daily and the monthly limit bound what is used and held in the current
\* window in the same way, across midnight and whatever requests run at once.
FairUseRespected ==
  \A c \in Cards : \A window \in {<<StartOfDay(now), DailyLimit[c]>>,
                                  <<StartOfMonth(now), MonthlyLimit[c]>>} :
    LET inWindow == UsageSince(mem, c, window[1]) IN
    Credits(mem, inWindow) + HeldCredits(mem, c)
      <= window[2] + OverrunOf(mem, inWindow)

\* A card's debt is always evidenced by unpaid charges of its requests, which
\* later payments do not erase.
DebtIsEvidenced ==
  \A c \in Cards :
    Debt(mem.cards[c]) <=
      Total([k \in {l \in DOMAIN mem.unpaid : CardOf[mem.unpaid[l].ref] = c}
               |-> mem.unpaid[k].amount])

-----------------------------------------------------------------------------
\* What a step may never do.

\* The ledger and the evidence of debt are only appended to: no entry seen in
\* memory is ever lost, not by a failed write nor by a restart.
LedgerNeverLoses ==
  [][/\ IsPrefix(mem.ledger, mem'.ledger) /\ IsPrefix(disk.ledger, disk'.ledger)
     /\ IsPrefix(mem.unpaid, mem'.unpaid)]_vars

\* An intent recorded ends only by its own debit, at the price it was recorded
\* at: never repriced, refunded or forgotten while the process runs, nor, once
\* saved, by a restart.
BilledAt(s, i, bill) ==
  s.ledger # <<>> /\ s.ledger[Len(s.ledger)] = UsageEntry(i, bill)

ConsumedNeverRefunded ==
  [][\A i \in Invocations :
       /\ up /\ up' /\ i \in DOMAIN mem.pending =>
            \/ i \in DOMAIN mem'.pending /\ mem'.pending[i] = mem.pending[i]
            \/ BilledAt(mem', i, mem.pending[i])
       /\ i \in DOMAIN disk.pending =>
            \/ i \in DOMAIN disk'.pending /\ disk'.pending[i] = disk.pending[i]
            \/ BilledAt(disk', i, disk.pending[i])]_vars

-----------------------------------------------------------------------------
\* Liveness.

\* Every consumed request's intent is charged in the end, unless the process
\* dies before anything saved it.
IntentsAreCharged ==
  \A i \in Invocations :
    /\ up /\ i \in DOMAIN mem.pending ~> ~up \/ i \notin DOMAIN mem.pending
    /\ i \in DOMAIN disk.pending ~> UsageOf(disk, i) # {}

=============================================================================
