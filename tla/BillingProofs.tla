---------------------------- MODULE BillingProofs ----------------------------
(***************************************************************************)
(* What Billing guarantees for every set of cards, requests, amounts and   *)
(* times.                                                                  *)
(*                                                                         *)
(* First: its tables keep their types, money in memory is money on disk, a *)
(* consumed request keeps its hold until it is charged, and no request is  *)
(* charged twice.  The argument is one predicate, Sound, on the tables:    *)
(* each operation turns sound tables into sound candidates, and a commit   *)
(* can then leave only sound tables in memory and on disk, whichever way   *)
(* it ends.                                                                *)
(*                                                                         *)
(* Then its amounts: what a card has reserved is the sum of the holds that *)
(* stand, its use is what its ledger says, the saved state always loads,   *)
(* and neither its balance nor its limits are passed but by what requests  *)
(* cost beyond their holds.  The argument is another such predicate,       *)
(* Balanced.                                                               *)
(***************************************************************************)
EXTENDS Billing, SumProofs

\* While clients reuse no id, only an invocation whose record is gone or says
\* "settled" may have been charged.
UnchargedWhileOpen(s) ==
  \A i \in DOMAIN s.reservations :
    s.reservations[i].state # "settled" => UsageOf(s, i) = {}

Sound(s) ==
  /\ TablesOK(s)
  /\ PendingHeld(s)
  /\ ~ClientsReuseIds => UnchargedWhileOpen(s) /\ EntriesDiffer(s)

\* The intents of s are intents of t.
IntentsKept(s, t) ==
  \A i \in DOMAIN s.pending :
    i \in DOMAIN t.pending /\ t.pending[i] = s.pending[i]

IInv ==
  /\ Sound(mem) /\ Sound(disk)
  /\ MoneyIsDurable
  /\ IntentsKept(disk, mem)
  /\ ~up => mem = disk
  /\ leases \in [Invocations -> 0 .. MaxLeases]
  /\ writeFailed \in BOOLEAN /\ up \in BOOLEAN
  /\ now \in 0 .. MaxTime

\* What a step does to tables s it makes into t: the ledger and the evidence
\* of debt grow, and an intent ends by its own debit.
Grows(s, t) == IsPrefix(s.ledger, t.ledger) /\ IsPrefix(s.unpaid, t.unpaid)

Answers(s, t) ==
  \A i \in DOMAIN s.pending :
    \/ i \in DOMAIN t.pending /\ t.pending[i] = s.pending[i]
    \/ BilledAt(t, i, s.pending[i])

Follows(s, t) == Grows(s, t) /\ Answers(s, t)

Kept ==
  /\ Grows(mem, mem') /\ Grows(disk, disk')
  /\ up /\ up' => Answers(mem, mem')
  /\ Answers(disk, disk')

-----------------------------------------------------------------------------
\* Reading the tables.

\* A sum is an integer.
LEMMA TotalType == \A f : Total(f) \in Int
BY DEF Total

\* So is the sum of a set of holds.
LEMMA AmountOfType == \A s, ids : AmountOf(s, ids) \in Int
BY TotalType DEF AmountOf

\* So is what a card has on hold.
LEMMA HeldCreditsType == \A s, c : HeldCredits(s, c) \in Int
BY AmountOfType DEF HeldCredits

\* The positive part of a number is a natural number.
LEMMA PositiveType == \A x \in Int : Positive(x) \in Nat
BY DEF Positive

-----------------------------------------------------------------------------
\* What the operations make of sound tables.

\* Every sequence is a prefix of itself and of what is appended to it.
LEMMA PrefixSelf == ASSUME NEW S, NEW q \in Seq(S) PROVE IsPrefix(q, q)
BY DEF IsPrefix

\* Appending to a sequence extends it.
LEMMA PrefixAppend ==
  ASSUME NEW S, NEW q \in Seq(S), NEW e \in S PROVE IsPrefix(q, Append(q, e))
BY DEF IsPrefix

\* Tables whose ledger, evidence and intents stay follow.
LEMMA QuietFollows ==
  ASSUME NEW s, Sound(s), NEW t,
         t.ledger = s.ledger, t.unpaid = s.unpaid, IntentsKept(s, t)
  PROVE  Follows(s, t)
<1>1. s.ledger \in Seq(Entry) /\ s.unpaid \in Seq(UnpaidCharge)
  BY DEF Sound, TablesOK
<1>2. Grows(s, t)
  BY <1>1, PrefixSelf DEF Grows
<1>3. Answers(s, t)
  BY DEF Answers, IntentsKept
<1> QED
  BY <1>2, <1>3 DEF Follows

\* Sound tables stay sound when each table is changed soundly.
LEMMA Rebuilt ==
  ASSUME NEW t,
         IsSnapshot(t),
         t.cards \in [Cards -> Card],
         t.reservations \in [DOMAIN t.reservations -> Reservation],
         DOMAIN t.reservations \subseteq Invocations,
         t.pending \in [DOMAIN t.pending -> Bill],
         DOMAIN t.pending \subseteq Invocations,
         t.ledger \in Seq(Entry),
         t.archived \subseteq DOMAIN t.ledger,
         t.unpaid \in Seq(UnpaidCharge),
         PendingHeld(t),
         ~ClientsReuseIds => UnchargedWhileOpen(t) /\ EntriesDiffer(t)
  PROVE  Sound(t)
BY DEF Sound, TablesOK

\* A card whose reserved credit changes is still a card.
LEMMA ReservedCard ==
  ASSUME NEW f \in [Cards -> Card], NEW c \in Cards, NEW n \in Int
  PROVE  [f EXCEPT ![c].reserved = n] \in [Cards -> Card]
BY DEF Card

\* A reservation whose amount changes is still a reservation.
LEMMA AmountChanged ==
  ASSUME NEW S, NEW f \in [S -> Reservation], NEW i \in S, NEW amount \in Nat
  PROVE  [f EXCEPT ![i].amount = amount] \in [S -> Reservation]
BY DEF Reservation

\* So is a hold that is settled.
LEMMA HoldSettled ==
  ASSUME NEW S, NEW f \in [S -> Reservation], NEW i \in S
  PROVE  [f EXCEPT ![i].state = "settled"] \in [S -> Reservation]
BY DEF Reservation

\* A hold on an invocation that is not taken, sent as clients do.
LEMMA HoldSound ==
  ASSUME NEW s, Sound(s), NEW i \in Invocations, NEW amount \in HoldAmounts,
         now \in Nat, ~Taken(s, i),
         ClientsReuseIds \/ UsageOf(s, i) = {} \/ i \in DOMAIN s.reservations
  PROVE  /\ Sound(Hold(s, i, amount)) /\ SameMoney(Hold(s, i, amount), s)
         /\ Hold(s, i, amount).pending = s.pending
<1> DEFINE t == Hold(s, i, amount)
           c == CardOf[i]
           r == [state |-> "held", amount |-> amount, created |-> now,
                 expires |-> now + Ttl]
<1>1. c \in Cards /\ amount \in Nat /\ r \in Reservation /\ TablesOK(s)
  BY IdsAssumption, AmountsAssumption, TimesAssumption DEF Reservation, Sound
<1>2. /\ t.reservations = Put(s.reservations, i, r)
      /\ t.pending = s.pending /\ t.ledger = s.ledger
      /\ t.archived = s.archived /\ t.unpaid = s.unpaid
      /\ IsSnapshot(t)
  BY <1>1 DEF TablesOK, IsSnapshot, Hold
<1>3. /\ t.cards \in [Cards -> Card]
      /\ \A d \in Cards : /\ t.cards[d].total = s.cards[d].total
                          /\ t.cards[d].used = s.cards[d].used
                          /\ t.cards[d].status = s.cards[d].status
                          /\ t.cards[d].frozen = s.cards[d].frozen
  <2> DEFINE f == s.cards
             n == s.cards[c].reserved + amount
  <2>1. t.cards = [f EXCEPT ![c].reserved = n]
    BY <1>1 DEF TablesOK, IsSnapshot, Hold
  <2>2. f \in [Cards -> Card] /\ n \in Int
    BY <1>1 DEF TablesOK, Card
  <2> HIDE DEF f, n
  <2>3. t.cards \in [Cards -> Card]
    BY <1>1, <2>1, <2>2, ReservedCard
  <2>4. \A d \in Cards : /\ t.cards[d].total = f[d].total
                        /\ t.cards[d].used = f[d].used
                        /\ t.cards[d].status = f[d].status
                        /\ t.cards[d].frozen = f[d].frozen
    BY <2>1, <2>2 DEF Card
  <2> QED
    BY <2>3, <2>4 DEF f
<1> HIDE DEF t
<1>4. /\ t.reservations \in [DOMAIN s.reservations \cup {i} -> Reservation]
      /\ DOMAIN t.reservations = DOMAIN s.reservations \cup {i}
      /\ t.reservations[i].state = "held"
      /\ \A j \in DOMAIN s.reservations \ {i} :
            t.reservations[j] = s.reservations[j]
  BY <1>1, <1>2 DEF TablesOK, Put
<1>5. PendingHeld(t)
  BY <1>2, <1>4 DEF Sound, PendingHeld
<1>6. ASSUME ~ClientsReuseIds PROVE UnchargedWhileOpen(t) /\ EntriesDiffer(t)
  <2>1. \A j : UsageOf(t, j) = UsageOf(s, j)
    BY <1>2 DEF UsageOf
  <2>2. UsageOf(s, i) = {}
    <3>1. CASE i \in DOMAIN s.reservations
      BY <3>1, <1>6 DEF Taken, Sound, UnchargedWhileOpen
    <3> QED
      BY <3>1, <1>6
  <2>3. UnchargedWhileOpen(t)
    BY <2>1, <2>2, <1>4, <1>6 DEF Sound, UnchargedWhileOpen
  <2>4. EntriesDiffer(t)
    BY <1>2, <1>6 DEF Sound, EntriesDiffer
  <2> QED
    BY <2>3, <2>4
<1>7. Sound(t)
  BY <1>1, <1>2, <1>3, <1>4, <1>5, <1>6, Rebuilt DEF TablesOK
<1> QED
  BY <1>2, <1>3, <1>7 DEF t, SameMoney

\* Raising a hold, returning holds, or forgetting terminal records: what may
\* happen to the reservations of a snapshot, its money untouched.
LEMMA HoldsChangedSound ==
  ASSUME NEW s, Sound(s), NEW t, IsSnapshot(t),
         t.cards \in [Cards -> Card],
         t.reservations \in [DOMAIN t.reservations -> Reservation],
         DOMAIN t.reservations \subseteq DOMAIN s.reservations,
         t.pending = s.pending, t.ledger = s.ledger,
         t.archived = s.archived, t.unpaid = s.unpaid,
         \A i \in DOMAIN s.pending : i \in DOMAIN t.reservations,
         \A i \in DOMAIN t.reservations :
           \/ t.reservations[i].state = s.reservations[i].state
           \/ /\ s.reservations[i].state = "held" /\ i \notin DOMAIN s.pending
              /\ t.reservations[i].state = "released"
  PROVE  Sound(t)
<1>1. PendingHeld(t)
  BY DEF Sound, PendingHeld
<1>2. ASSUME ~ClientsReuseIds PROVE UnchargedWhileOpen(t) /\ EntriesDiffer(t)
  <2>1. \A j : UsageOf(t, j) = UsageOf(s, j)
    BY DEF UsageOf
  <2>2. UnchargedWhileOpen(t)
    BY <1>2, <2>1 DEF Sound, UnchargedWhileOpen
  <2>3. EntriesDiffer(t)
    BY <1>2 DEF Sound, EntriesDiffer
  <2> QED
    BY <2>2, <2>3
<1> QED
  BY <1>1, <1>2, Rebuilt DEF Sound, TablesOK

\* Raising a hold.
LEMMA ExtendedSound ==
  ASSUME NEW s, Sound(s), NEW i \in DOMAIN s.reservations, NEW amount \in Nat
  PROVE  Sound(Extended(s, i, amount)) /\ Follows(s, Extended(s, i, amount))
<1> DEFINE t == Extended(s, i, amount)
           c == CardOf[i]
           extra == amount - s.reservations[i].amount
<1>1. /\ c \in Cards /\ TablesOK(s) /\ extra \in Int
      /\ s.cards[c].reserved + extra \in Int
  <2>1. TablesOK(s) /\ i \in Invocations
    BY DEF Sound, TablesOK
  <2>2. c \in Cards
    BY <2>1, IdsAssumption
  <2>3. s.reservations[i].amount \in Nat
    BY <2>1 DEF TablesOK, Reservation
  <2>4. s.cards[c].reserved \in Int
    BY <2>1, <2>2 DEF TablesOK, Card
  <2> QED
    BY <2>1, <2>2, <2>3, <2>4
<1>2. /\ t.cards = [s.cards EXCEPT ![c].reserved = @ + extra]
      /\ t.reservations = [s.reservations EXCEPT ![i].amount = amount]
      /\ t.pending = s.pending /\ t.ledger = s.ledger
      /\ t.archived = s.archived /\ t.unpaid = s.unpaid
      /\ IsSnapshot(t)
  BY <1>1 DEF TablesOK, IsSnapshot, Extended
<1> HIDE DEF t
<1>3. t.cards \in [Cards -> Card]
  BY <1>1, <1>2, ReservedCard DEF TablesOK
<1>4. /\ DOMAIN t.reservations = DOMAIN s.reservations
      /\ t.reservations \in [DOMAIN s.reservations -> Reservation]
      /\ \A j \in DOMAIN s.reservations :
           t.reservations[j].state = s.reservations[j].state
  <2>1. s.reservations \in [DOMAIN s.reservations -> Reservation]
    BY <1>1 DEF TablesOK
  <2>2. t.reservations \in [DOMAIN s.reservations -> Reservation]
    BY <1>2, <2>1, AmountChanged
  <2>3. DOMAIN t.reservations = DOMAIN s.reservations
    BY <1>2
  <2>4. \A j \in DOMAIN s.reservations :
          t.reservations[j].state = s.reservations[j].state
    BY <1>2, <2>1 DEF Reservation
  <2> QED
    BY <2>2, <2>3, <2>4
<1>5. Sound(t)
  BY <1>2, <1>3, <1>4, HoldsChangedSound DEF Sound, PendingHeld
<1>6. Follows(s, t)
  BY <1>2, QuietFollows DEF IntentsKept
<1> QED
  BY <1>5, <1>6 DEF t

\* Refunds change no card but in what it has reserved.
LEMMA RefundedCards ==
  ASSUME NEW s, TablesOK(s), NEW ids
  PROVE  /\ Refunded(s, ids) \in [Cards -> Card]
         /\ \A c \in Cards :
              /\ Refunded(s, ids)[c].total = s.cards[c].total
              /\ Refunded(s, ids)[c].used = s.cards[c].used
              /\ Refunded(s, ids)[c].status = s.cards[c].status
              /\ Refunded(s, ids)[c].frozen = s.cards[c].frozen
<1> DEFINE f == s.cards
<1>1. f \in [Cards -> Card]
  BY DEF TablesOK
<1> HIDE DEF f
<1>2. SUFFICES ASSUME NEW c \in Cards
               PROVE  /\ Refunded(s, ids)[c] \in Card
                      /\ Refunded(s, ids)[c].total = f[c].total
                      /\ Refunded(s, ids)[c].used = f[c].used
                      /\ Refunded(s, ids)[c].status = f[c].status
                      /\ Refunded(s, ids)[c].frozen = f[c].frozen
  BY Zenon DEF Refunded, f
<1> DEFINE amount == AmountOf(s, {i \in ids : CardOf[i] = c})
<1>3. amount \in Int
  BY AmountOfType
<1>4. Refunded(s, ids)[c] = [f[c] EXCEPT !.reserved = @ - amount]
  BY DEF Refunded, f
<1> HIDE DEF amount
<1> QED
  BY <1>1, <1>3, <1>4 DEF Card

\* Closing holds changes no record but those closed.
LEMMA ClosedReservations ==
  ASSUME NEW s, TablesOK(s), NEW ids
  PROVE  /\ DOMAIN Closed(s, ids) = DOMAIN s.reservations
         /\ Closed(s, ids) \in [DOMAIN s.reservations -> Reservation]
         /\ \A j \in DOMAIN s.reservations :
              IF j \in ids THEN Closed(s, ids)[j].state = "released"
              ELSE Closed(s, ids)[j] = s.reservations[j]
<1> DEFINE f == s.reservations
           S == DOMAIN s.reservations
           g == [i \in S |-> IF i \in ids THEN [f[i] EXCEPT !.state = "released"]
                                         ELSE f[i]]
<1>1. f \in [S -> Reservation] /\ Closed(s, ids) = g
  BY DEF TablesOK, Closed
<1> HIDE DEF f, S
<1>2. /\ DOMAIN g = S /\ g \in [S -> Reservation]
      /\ \A j \in S : IF j \in ids THEN g[j].state = "released" ELSE g[j] = f[j]
  BY <1>1 DEF Reservation
<1> QED
  BY <1>1, <1>2 DEF f, S

\* Returned is only used on holds no settlement is pending for.
LEMMA ReturnedSound ==
  ASSUME NEW s, Sound(s), NEW ids,
         \A i \in ids : /\ i \in DOMAIN s.reservations /\ i \notin DOMAIN s.pending
                        /\ s.reservations[i].state = "held"
  PROVE  /\ Sound(Returned(s, ids))
         /\ Returned(s, ids).pending = s.pending
         /\ DOMAIN Returned(s, ids).reservations = DOMAIN s.reservations
         /\ SameMoney(Returned(s, ids), s)
<1> DEFINE t == Returned(s, ids)
<1>1. TablesOK(s)
  BY DEF Sound
<1>2. /\ t.cards = Refunded(s, ids)
      /\ t.reservations = Closed(s, ids)
      /\ t.pending = s.pending /\ t.ledger = s.ledger
      /\ t.archived = s.archived /\ t.unpaid = s.unpaid
      /\ IsSnapshot(t)
  BY <1>1 DEF TablesOK, IsSnapshot, Returned
<1> HIDE DEF t
<1>3. /\ t.cards \in [Cards -> Card]
      /\ \A c \in Cards : /\ t.cards[c].total = s.cards[c].total
                          /\ t.cards[c].used = s.cards[c].used
                          /\ t.cards[c].status = s.cards[c].status
                          /\ t.cards[c].frozen = s.cards[c].frozen
  BY <1>1, <1>2, RefundedCards
<1>4. /\ DOMAIN t.reservations = DOMAIN s.reservations
      /\ t.reservations \in [DOMAIN s.reservations -> Reservation]
      /\ \A j \in DOMAIN s.reservations :
           IF j \in ids THEN t.reservations[j].state = "released"
           ELSE t.reservations[j] = s.reservations[j]
  BY <1>1, <1>2, ClosedReservations
<1>5. /\ \A i \in DOMAIN s.pending : i \in DOMAIN t.reservations
      /\ \A i \in DOMAIN t.reservations :
           \/ t.reservations[i].state = s.reservations[i].state
           \/ /\ s.reservations[i].state = "held" /\ i \notin DOMAIN s.pending
              /\ t.reservations[i].state = "released"
  BY <1>4 DEF Sound, PendingHeld
<1>6. Sound(t)
  BY <1>2, <1>3, <1>4, <1>5, HoldsChangedSound
<1> QED
  BY <1>2, <1>3, <1>4, <1>6 DEF t, SameMoney

\* The janitor may forget any record it finds terminal and old.
LEMMA ForgottenSound ==
  ASSUME NEW s, Sound(s)
  PROVE  /\ Sound(Forgotten(s)) /\ SameMoney(Forgotten(s), s)
         /\ Forgotten(s).pending = s.pending
<1> DEFINE t == Forgotten(s)
<1>1. TablesOK(s)
  BY DEF Sound
<1>2. /\ t.cards = s.cards
      /\ t.reservations = Without(s.reservations, Forgettable(s))
      /\ t.pending = s.pending /\ t.ledger = s.ledger
      /\ t.archived = s.archived /\ t.unpaid = s.unpaid
      /\ IsSnapshot(t)
  BY <1>1 DEF TablesOK, IsSnapshot, Forgotten
<1> HIDE DEF t
<1>3. /\ DOMAIN t.reservations = DOMAIN s.reservations \ Forgettable(s)
      /\ t.reservations \in [DOMAIN t.reservations -> Reservation]
      /\ \A j \in DOMAIN t.reservations : t.reservations[j] = s.reservations[j]
  <2> DEFINE f == t.reservations
             g == s.reservations
             S == DOMAIN s.reservations
             ids == Forgettable(s)
  <2>1. g \in [S -> Reservation] /\ f = Without(g, ids)
    BY <1>1, <1>2 DEF TablesOK
  <2> HIDE DEF f, g, S, ids
  <2>2. f \in [S \ ids -> Reservation] /\ \A j \in S \ ids : f[j] = g[j]
    BY <2>1 DEF Without, Restrict
  <2> QED
    BY <2>2 DEF f, g, S, ids
<1>4. \A i \in DOMAIN s.pending : i \in DOMAIN t.reservations
  BY <1>3 DEF Forgettable, Sound, PendingHeld
<1>5. Sound(t)
  BY <1>1, <1>2, <1>3, <1>4, HoldsChangedSound DEF TablesOK
<1> QED
  BY <1>2, <1>5 DEF t, SameMoney

\* What appending an entry to a ledger makes of it.
LEMMA Appended ==
  ASSUME NEW S, NEW q \in Seq(S), NEW e \in S
  PROVE  /\ Append(q, e) \in Seq(S)
         /\ DOMAIN Append(q, e) = DOMAIN q \cup {Len(q) + 1}
         /\ Len(q) + 1 \notin DOMAIN q
         /\ Append(q, e)[Len(q) + 1] = e
         /\ \A k \in DOMAIN q : Append(q, e)[k] = q[k]
OBVIOUS

\* A card charged and relieved of a hold is still a card.
LEMMA ChargedCard ==
  ASSUME NEW card \in Card, NEW charge \in Nat, NEW amount \in Nat
  PROVE  [card EXCEPT !.used = @ + charge, !.reserved = @ - amount] \in Card
<1> DEFINE charged == [card EXCEPT !.used = @ + charge]
<1>1. charged \in Card /\ charged.reserved = card.reserved
  BY DEF Card
<1>2. [card EXCEPT !.used = @ + charge, !.reserved = @ - amount]
        = [charged EXCEPT !.reserved = @ - amount]
  BY <1>1
<1> HIDE DEF charged
<1>3. [charged EXCEPT !.reserved = @ - amount] \in Card
  BY <1>1 DEF Card
<1> QED
  BY <1>2, <1>3

\* A debt is a number.
LEMMA DebtType == \A card \in Card : Debt(card) \in Nat
BY DEF Card, Debt, Positive

\* The debit of a hold: the intent is gone, its charge is in the ledger.
LEMMA DebitedSound ==
  ASSUME NEW s, Sound(s), NEW i \in DOMAIN s.reservations, NEW bill \in Bill,
         s.reservations[i].state = "held"
  PROVE  /\ Sound(Debited(s, i, bill))
         /\ (i \in DOMAIN s.pending => s.pending[i] = bill)
              => Follows(s, Debited(s, i, bill))
<1> DEFINE t == Debited(s, i, bill)
           c == CardOf[i]
           card == Charged(s, i, bill)
           addedDebt == AddedDebt(s, i, bill)
           e == UsageEntry(i, bill)
<1>1. /\ TablesOK(s) /\ i \in Invocations /\ c \in Cards
      /\ bill.charge \in Nat /\ bill.ts \in Nat
  BY IdsAssumption DEF Sound, TablesOK, Bill
<1>2. s.cards[c] \in Card /\ s.reservations[i] \in Reservation
  BY <1>1 DEF TablesOK
<1>3. card \in Card /\ addedDebt \in Int /\ e \in Entry
  <2>1. card \in Card
    <3>1. s.reservations[i].amount \in Nat
      BY <1>2 DEF Reservation
    <3> QED
      BY <1>1, <1>2, <3>1, ChargedCard DEF Charged
  <2>2. addedDebt \in Int
    BY <1>2, <2>1, DebtType DEF AddedDebt
  <2>3. e \in Entry
    BY <1>1 DEF e, UsageEntry, Entry
  <2> QED
    BY <2>1, <2>2, <2>3
<1> HIDE DEF card, addedDebt, e
<1>4. /\ t.cards = [s.cards EXCEPT ![c] = card]
      /\ t.reservations = [s.reservations EXCEPT ![i].state = "settled"]
      /\ t.pending = Without(s.pending, {i})
      /\ t.ledger = Append(s.ledger, e)
      /\ t.archived = s.archived
      /\ t.unpaid = IF addedDebt > 0
                    THEN Append(s.unpaid, [ref |-> i, amount |-> addedDebt])
                    ELSE s.unpaid
      /\ IsSnapshot(t)
  BY <1>1 DEF TablesOK, IsSnapshot, Debited, card, addedDebt, e
<1> HIDE DEF t
<1>5. t.cards \in [Cards -> Card]
  BY <1>1, <1>3, <1>4 DEF TablesOK
<1>6. /\ DOMAIN t.reservations = DOMAIN s.reservations
      /\ t.reservations \in [DOMAIN s.reservations -> Reservation]
      /\ t.reservations[i].state = "settled"
      /\ \A j \in DOMAIN s.reservations \ {i} :
            t.reservations[j] = s.reservations[j]
  <2> DEFINE f == s.reservations
             S == DOMAIN s.reservations
             g == t.reservations
  <2>1. f \in [S -> Reservation] /\ g = [f EXCEPT ![i].state = "settled"] /\ i \in S
    BY <1>1, <1>4 DEF TablesOK
  <2> HIDE DEF f, g, S
  <2>2. g \in [S -> Reservation]
    BY <2>1, HoldSettled
  <2>3. g[i].state = "settled" /\ \A j \in S \ {i} : g[j] = f[j]
    BY <2>1 DEF Reservation
  <2> QED
    BY <2>2, <2>3 DEF f, g, S
<1>7. /\ DOMAIN t.pending = DOMAIN s.pending \ {i}
      /\ t.pending \in [DOMAIN s.pending \ {i} -> Bill]
  <2> DEFINE f == s.pending
             S == DOMAIN s.pending
             g == t.pending
  <2>1. f \in [S -> Bill] /\ g = Without(f, {i})
    BY <1>1, <1>4 DEF TablesOK
  <2> HIDE DEF f, g, S
  <2>2. g \in [S \ {i} -> Bill]
    BY <2>1 DEF Without, Restrict
  <2> QED
    BY <2>2 DEF f, g, S
<1>8. /\ t.ledger \in Seq(Entry)
      /\ DOMAIN t.ledger = DOMAIN s.ledger \cup {Len(s.ledger) + 1}
      /\ t.ledger[Len(s.ledger) + 1] = e
      /\ \A k \in DOMAIN s.ledger : t.ledger[k] = s.ledger[k]
  BY <1>1, <1>3, <1>4, Appended DEF TablesOK
<1>9. t.unpaid \in Seq(UnpaidCharge)
  <2>1. s.unpaid \in Seq(UnpaidCharge)
    BY <1>1 DEF TablesOK
  <2>2. CASE addedDebt > 0
    <3>1. [ref |-> i, amount |-> addedDebt] \in UnpaidCharge
      BY <1>1, <1>3, <2>2 DEF UnpaidCharge
    <3> QED
      BY <1>4, <2>1, <2>2, <3>1, Appended
  <2> QED
    BY <1>4, <2>1, <2>2
<1>10. PendingHeld(t)
  BY <1>6, <1>7 DEF Sound, PendingHeld
<1>11. ASSUME ~ClientsReuseIds PROVE UnchargedWhileOpen(t) /\ EntriesDiffer(t)
  <2>1. UsageOf(s, i) = {}
    BY <1>11 DEF Sound, UnchargedWhileOpen
  <2>2. \A j : j # i => UsageOf(t, j) = UsageOf(s, j)
    BY <1>8 DEF UsageOf, e, UsageEntry
  <2>3. UnchargedWhileOpen(t)
    BY <1>6, <1>11, <2>2 DEF Sound, UnchargedWhileOpen
  <2>4. EntriesDiffer(t)
    <3>1. EntriesDiffer(s)
      BY <1>11 DEF Sound
    <3>2. \A k \in DOMAIN s.ledger :
            ~(s.ledger[k].kind = "usage" /\ s.ledger[k].ref = i)
      BY <2>1 DEF UsageOf
    <3>3. t.ledger[Len(s.ledger) + 1].ref = i
      BY <1>8 DEF e, UsageEntry
    <3> QED
      BY <1>8, <3>1, <3>2, <3>3 DEF EntriesDiffer
  <2> QED
    BY <2>3, <2>4
<1>12. Sound(t)
  BY <1>1, <1>4, <1>5, <1>6, <1>7, <1>8, <1>9, <1>10, <1>11, Rebuilt DEF TablesOK
<1>13. Grows(s, t)
  <2>1. s.ledger \in Seq(Entry) /\ s.unpaid \in Seq(UnpaidCharge)
    BY <1>1 DEF TablesOK
  <2>2. IsPrefix(s.ledger, t.ledger)
    BY <1>3, <1>4, <2>1, PrefixAppend
  <2>3. CASE addedDebt > 0
    <3>1. [ref |-> i, amount |-> addedDebt] \in UnpaidCharge
      BY <1>1, <1>3, <2>3 DEF UnpaidCharge
    <3>2. IsPrefix(s.unpaid, t.unpaid)
      BY <1>4, <2>1, <2>3, <3>1, PrefixAppend
    <3> QED
      BY <2>2, <3>2 DEF Grows
  <2>4. CASE ~(addedDebt > 0)
    BY <1>4, <2>1, <2>2, <2>4, PrefixSelf DEF Grows
  <2> QED
    BY <2>3, <2>4
<1>14. ASSUME i \in DOMAIN s.pending => s.pending[i] = bill
       PROVE  Answers(s, t)
  <2>1. BilledAt(t, i, bill)
    <3>1. s.ledger \in Seq(Entry) /\ t.ledger = Append(s.ledger, e)
      BY <1>1, <1>4 DEF TablesOK
    <3>2. Len(t.ledger) = Len(s.ledger) + 1 /\ t.ledger # <<>>
      BY <1>3, <3>1
    <3> QED
      BY <1>8, <3>2 DEF BilledAt, e
  <2>2. \A j \in DOMAIN s.pending \ {i} :
          j \in DOMAIN t.pending /\ t.pending[j] = s.pending[j]
    BY <1>4, <1>7 DEF Without, Restrict
  <2> QED
    BY <1>14, <2>1, <2>2 DEF Answers
<1> QED
  BY <1>12, <1>13, <1>14 DEF t, Follows

\* The intent a failed settlement leaves behind: its hold stands.
LEMMA IntendedSound ==
  ASSUME NEW s, Sound(s), NEW i \in DOMAIN s.reservations, NEW bill \in Bill,
         s.reservations[i].state = "held"
  PROVE  /\ Sound(Intended(s, i, bill)) /\ SameMoney(Intended(s, i, bill), s)
         /\ i \notin DOMAIN s.pending => IntentsKept(s, Intended(s, i, bill))
<1> DEFINE t == Intended(s, i, bill)
<1>1. TablesOK(s) /\ i \in Invocations
  BY DEF Sound, TablesOK
<1>2. /\ t.cards = s.cards /\ t.reservations = s.reservations
      /\ t.pending = Put(s.pending, i, bill) /\ t.ledger = s.ledger
      /\ t.archived = s.archived /\ t.unpaid = s.unpaid
      /\ IsSnapshot(t)
  BY <1>1 DEF TablesOK, IsSnapshot, Intended
<1> HIDE DEF t
<1>3. /\ DOMAIN t.pending = DOMAIN s.pending \cup {i}
      /\ t.pending \in [DOMAIN s.pending \cup {i} -> Bill]
  BY <1>1, <1>2 DEF TablesOK, Put
<1>4. PendingHeld(t)
  BY <1>2, <1>3 DEF Sound, PendingHeld
<1>5. ASSUME ~ClientsReuseIds PROVE UnchargedWhileOpen(t) /\ EntriesDiffer(t)
  BY <1>2, <1>5 DEF Sound, UnchargedWhileOpen, EntriesDiffer, UsageOf
<1>6. Sound(t)
  BY <1>1, <1>2, <1>3, <1>4, <1>5, Rebuilt DEF TablesOK
<1>7. i \notin DOMAIN s.pending => IntentsKept(s, t)
  BY <1>2, <1>3 DEF IntentsKept, Put
<1> QED
  BY <1>2, <1>6, <1>7 DEF t, SameMoney

\* An operator's adjustment, up or down.
LEMMA AdjustedSound ==
  ASSUME NEW s, Sound(s), NEW key \in AdjustKeys, NEW c \in Cards,
         NEW delta \in Int, now \in Nat
  PROVE  Sound(Adjusted(s, key, c, delta)) /\ Follows(s, Adjusted(s, key, c, delta))
<1> DEFINE t == Adjusted(s, key, c, delta)
           e == [kind |-> "adjustment", card |-> c, ref |-> key,
                 credits |-> delta, ts |-> now]
           up2 == Positive(delta)
           down == Positive(-delta)
<1>1. /\ TablesOK(s) /\ e \in Entry /\ up2 \in Nat /\ down \in Nat
      /\ e.kind = "adjustment"
  BY PositiveType DEF Sound, Entry
<1>2. t.cards = [s.cards EXCEPT ![c].total = @ + up2, ![c].used = @ + down]
  BY <1>1 DEF TablesOK, IsSnapshot, Adjusted
<1>3. /\ t.reservations = s.reservations /\ t.pending = s.pending
      /\ t.ledger = Append(s.ledger, e)
      /\ t.archived = s.archived /\ t.unpaid = s.unpaid
      /\ IsSnapshot(t)
  BY <1>1 DEF TablesOK, IsSnapshot, Adjusted
<1> HIDE DEF t, e, up2, down
<1>4. t.cards \in [Cards -> Card]
  <2> DEFINE f == s.cards
  <2>1. f \in [Cards -> Card]
    BY <1>1 DEF TablesOK
  <2>2. t.cards = [f EXCEPT ![c].total = @ + up2, ![c].used = @ + down]
    BY <1>2
  <2> HIDE DEF f
  <2> QED
    BY <1>1, <2>1, <2>2 DEF Card
<1>5. /\ t.ledger \in Seq(Entry)
      /\ DOMAIN t.ledger = DOMAIN s.ledger \cup {Len(s.ledger) + 1}
      /\ t.ledger[Len(s.ledger) + 1] = e
      /\ \A k \in DOMAIN s.ledger : t.ledger[k] = s.ledger[k]
  BY <1>1, <1>3, Appended DEF TablesOK
<1>6. PendingHeld(t)
  BY <1>3 DEF Sound, PendingHeld
<1>7. ASSUME ~ClientsReuseIds PROVE UnchargedWhileOpen(t) /\ EntriesDiffer(t)
  <2>1. \A j : UsageOf(t, j) = UsageOf(s, j)
    BY <1>1, <1>5 DEF UsageOf
  <2>2. UnchargedWhileOpen(t)
    BY <1>3, <1>7, <2>1 DEF Sound, UnchargedWhileOpen
  <2>3. EntriesDiffer(t)
    BY <1>1, <1>5, <1>7 DEF Sound, EntriesDiffer
  <2> QED
    BY <2>2, <2>3
<1>8. Sound(t)
  BY <1>1, <1>3, <1>4, <1>5, <1>6, <1>7, Rebuilt DEF TablesOK
<1>9. Grows(s, t) /\ Answers(s, t)
  <2>1. s.ledger \in Seq(Entry) /\ s.unpaid \in Seq(UnpaidCharge)
    BY <1>1 DEF TablesOK
  <2> QED
    BY <1>1, <1>3, <2>1, PrefixAppend, PrefixSelf DEF Grows, Answers
<1> QED
  BY <1>8, <1>9 DEF t, Follows

\* A card's status changes nothing else.
LEMMA WithStatusSound ==
  ASSUME NEW s, Sound(s), NEW c \in Cards, NEW status \in Statuses,
         NEW frozen \in BOOLEAN
  PROVE  /\ Sound(WithStatus(s, c, status, frozen))
         /\ Follows(s, WithStatus(s, c, status, frozen))
<1> DEFINE t == WithStatus(s, c, status, frozen)
<1>1. TablesOK(s)
  BY DEF Sound
<1>2. /\ t.cards = [s.cards EXCEPT ![c].status = status, ![c].frozen = frozen]
      /\ t.reservations = s.reservations /\ t.pending = s.pending
      /\ t.ledger = s.ledger
      /\ t.archived = s.archived /\ t.unpaid = s.unpaid
      /\ IsSnapshot(t)
  BY <1>1 DEF TablesOK, IsSnapshot, WithStatus
<1> HIDE DEF t
<1>3. t.cards \in [Cards -> Card]
  <2> DEFINE f == s.cards
             g == [f EXCEPT ![c].status = status]
  <2>1. f \in [Cards -> Card] /\ t.cards = [g EXCEPT ![c].frozen = frozen]
    BY <1>1, <1>2 DEF TablesOK
  <2> HIDE DEF f
  <2>2. g \in [Cards -> Card]
    BY <2>1 DEF Card
  <2> HIDE DEF g
  <2> QED
    BY <2>1, <2>2 DEF Card
<1>4. PendingHeld(t)
  BY <1>2 DEF Sound, PendingHeld
<1>5. ASSUME ~ClientsReuseIds PROVE UnchargedWhileOpen(t) /\ EntriesDiffer(t)
  BY <1>2, <1>5 DEF Sound, UnchargedWhileOpen, EntriesDiffer, UsageOf
<1>6. Sound(t)
  BY <1>1, <1>2, <1>3, <1>4, <1>5, Rebuilt DEF TablesOK
<1>7. Follows(s, t)
  BY <1>2, QuietFollows DEF IntentsKept
<1> QED
  BY <1>6, <1>7 DEF t

\* Archiving moves entries; none is lost.
LEMMA ArchivedSound ==
  ASSUME NEW s, Sound(s), NEW before
  PROVE  Sound(Archived(s, before)) /\ Follows(s, Archived(s, before))
<1> DEFINE t == Archived(s, before)
<1>1. TablesOK(s)
  BY DEF Sound
<1>2. /\ t.cards = s.cards
      /\ t.reservations = s.reservations /\ t.pending = s.pending
      /\ t.ledger = s.ledger
      /\ t.archived = s.archived \cup Drained(s, before)
      /\ t.unpaid = s.unpaid
      /\ IsSnapshot(t)
  BY <1>1 DEF TablesOK, IsSnapshot, Archived
<1> HIDE DEF t
<1>3. t.archived \subseteq DOMAIN t.ledger
  BY <1>1, <1>2 DEF TablesOK, Drained
<1>4. PendingHeld(t)
  BY <1>2 DEF Sound, PendingHeld
<1>5. ASSUME ~ClientsReuseIds PROVE UnchargedWhileOpen(t) /\ EntriesDiffer(t)
  BY <1>2, <1>5 DEF Sound, UnchargedWhileOpen, EntriesDiffer, UsageOf
<1>6. Sound(t)
  BY <1>1, <1>2, <1>3, <1>4, <1>5, Rebuilt DEF TablesOK
<1>7. Follows(s, t)
  BY <1>2, QuietFollows DEF IntentsKept
<1> QED
  BY <1>6, <1>7 DEF t

\* The records a start keeps or makes: a hold stays only for an intent, and
\* what is made anew is settled.
LEMMA RestoredRecordsType ==
  ASSUME NEW s, TablesOK(s)
  PROVE  /\ RestoredRecords(s) \in [DOMAIN RestoredRecords(s) -> Reservation]
         /\ DOMAIN RestoredRecords(s) \subseteq Invocations
         /\ \A i \in DOMAIN s.pending \cap DOMAIN s.reservations :
              i \in DOMAIN RestoredRecords(s)
         /\ \A i \in DOMAIN RestoredRecords(s) :
              \/ /\ i \in DOMAIN s.reservations
                 /\ RestoredRecords(s)[i] = s.reservations[i]
              \/ /\ i \notin DOMAIN s.reservations
                 /\ RestoredRecords(s)[i].state = "settled"
<1> DEFINE f == s.reservations
           S == DOMAIN s.reservations
           kept == {i \in S : f[i].state = "held" => i \in DOMAIN s.pending}
           missing == {i \in Invocations \ S : FirstUsage(s, i) # {}}
           made(i) == SettledRecord(s.ledger[CHOOSE k \in FirstUsage(s, i) : TRUE].ts)
           g == RestoredRecords(s)
<1>1. f \in [S -> Reservation] /\ S \subseteq Invocations
  BY DEF TablesOK
<1>2. g = [i \in kept \cup missing |-> IF i \in kept THEN f[i] ELSE made(i)]
  BY DEF RestoredRecords
<1>3. ASSUME NEW i \in missing
      PROVE  made(i) \in Reservation /\ made(i).state = "settled"
  <2>1. PICK k \in FirstUsage(s, i) : k = CHOOSE l \in FirstUsage(s, i) : TRUE
    OBVIOUS
  <2>2. s.ledger[k] \in Entry
    <3>1. k \in DOMAIN s.ledger
      BY <2>1 DEF FirstUsage, RecentUsage
    <3> QED
      BY <3>1 DEF TablesOK
  <2>3. made(i) = SettledRecord(s.ledger[k].ts) /\ s.ledger[k].ts \in Nat
    BY <2>1, <2>2 DEF Entry
  <2> QED
    BY <2>3 DEF SettledRecord, Reservation
<1>4. kept \subseteq S /\ missing \cap S = {} /\ missing \subseteq Invocations
  OBVIOUS
<1>5. \A i \in DOMAIN s.pending \cap S : i \in kept
  OBVIOUS
<1> HIDE DEF f, S, kept, missing, made, g
<1>6. /\ DOMAIN g = kept \cup missing
      /\ \A i \in kept : g[i] = f[i] /\ g[i] \in Reservation /\ i \in S
      /\ \A i \in missing : /\ g[i].state = "settled" /\ g[i] \in Reservation
                            /\ i \notin S
  BY <1>1, <1>2, <1>3, <1>4
<1>7. g = [i \in DOMAIN g |-> g[i]] /\ \A i \in DOMAIN g : g[i] \in Reservation
  BY <1>2, <1>6
<1>8. g \in [DOMAIN g -> Reservation]
  BY <1>7
<1> QED
  BY <1>1, <1>4, <1>5, <1>6, <1>8 DEF f, S, g

\* What a start makes of the saved state: its money as it was, every hold
\* gone but those of the intents.
LEMMA ImportSound ==
  ASSUME NEW s, Sound(s)
  PROVE  /\ Sound(Import(s)) /\ SameMoney(Import(s), s)
         /\ Import(s).pending = s.pending
<1> DEFINE u == [s EXCEPT !.reservations = RestoredRecords(s)]
           t == Import(s)
<1>1. TablesOK(s)
  BY DEF Sound
<1>2. /\ u.cards = s.cards /\ u.reservations = RestoredRecords(s)
      /\ u.pending = s.pending /\ u.ledger = s.ledger
      /\ u.archived = s.archived /\ u.unpaid = s.unpaid
      /\ IsSnapshot(u)
  BY <1>1 DEF TablesOK, IsSnapshot
<1>3. t = [u EXCEPT !.cards = Resummed(u)]
  BY DEF Import
<1> HIDE DEF t, u
<1>4. /\ t.cards = Resummed(u)
      /\ t.reservations = RestoredRecords(s)
      /\ t.pending = s.pending /\ t.ledger = s.ledger
      /\ t.archived = s.archived /\ t.unpaid = s.unpaid
      /\ IsSnapshot(t)
  BY <1>2, <1>3 DEF IsSnapshot
<1>5. /\ t.cards \in [Cards -> Card]
      /\ \A c \in Cards : /\ t.cards[c].total = s.cards[c].total
                          /\ t.cards[c].used = s.cards[c].used
                          /\ t.cards[c].status = s.cards[c].status
                          /\ t.cards[c].frozen = s.cards[c].frozen
  <2> DEFINE f == s.cards
             h == [c \in Cards |-> HeldCredits(u, c)]
  <2>1. f \in [Cards -> Card] /\ h \in [Cards -> Int]
    BY <1>1, HeldCreditsType DEF TablesOK
  <2>2. t.cards = [c \in Cards |-> [f[c] EXCEPT !.reserved = h[c]]]
    BY <1>2, <1>4 DEF Resummed
  <2> HIDE DEF f, h
  <2>3. /\ t.cards \in [Cards -> Card]
        /\ \A c \in Cards : /\ t.cards[c].total = f[c].total
                            /\ t.cards[c].used = f[c].used
                            /\ t.cards[c].status = f[c].status
                            /\ t.cards[c].frozen = f[c].frozen
    BY <2>1, <2>2 DEF Card
  <2> QED
    BY <2>3 DEF f
<1>6. /\ t.reservations \in [DOMAIN t.reservations -> Reservation]
      /\ DOMAIN t.reservations \subseteq Invocations
      /\ \A i \in DOMAIN s.pending \cap DOMAIN s.reservations :
           i \in DOMAIN t.reservations
      /\ \A i \in DOMAIN t.reservations :
           \/ /\ i \in DOMAIN s.reservations
              /\ t.reservations[i] = s.reservations[i]
           \/ /\ i \notin DOMAIN s.reservations
              /\ t.reservations[i].state = "settled"
  BY <1>1, <1>4, RestoredRecordsType
<1>7. PendingHeld(t)
  BY <1>4, <1>6 DEF Sound, PendingHeld
<1>8. ASSUME ~ClientsReuseIds PROVE UnchargedWhileOpen(t) /\ EntriesDiffer(t)
  <2>1. \A j : UsageOf(t, j) = UsageOf(s, j)
    BY <1>4 DEF UsageOf
  <2>2. UnchargedWhileOpen(t)
    BY <1>6, <1>8, <2>1 DEF Sound, UnchargedWhileOpen
  <2>3. EntriesDiffer(t)
    BY <1>4, <1>8 DEF Sound, EntriesDiffer
  <2> QED
    BY <2>2, <2>3
<1>9. Sound(t)
  BY <1>1, <1>4, <1>5, <1>6, <1>7, <1>8, Rebuilt DEF TablesOK
<1> QED
  BY <1>4, <1>5, <1>9 DEF t, SameMoney

-----------------------------------------------------------------------------
\* The invariant.

\* Money is the same as itself, and as money that is the same.
LEMMA SameMoneySelf == \A s : SameMoney(s, s)
BY DEF SameMoney

\* Sameness of money chains.
LEMMA SameMoneyTrans ==
  \A s, t, u : SameMoney(s, t) /\ SameMoney(t, u) => SameMoney(s, u)
BY DEF SameMoney

\* Intents are kept, and tables follow, where nothing changes.
LEMMA IntentsKeptSelf == \A s : IntentsKept(s, s)
BY DEF IntentsKept

\* Sound tables follow themselves.
LEMMA FollowsSelf == ASSUME NEW s, Sound(s) PROVE Follows(s, s)
BY QuietFollows, IntentsKeptSelf

\* What follows the tables in memory follows those on disk.
LEMMA FollowsDisk ==
  ASSUME IInv, NEW t, Follows(mem, t)
  PROVE  Follows(disk, t)
BY DEF IInv, MoneyIsDurable, SameMoney, IntentsKept, Follows, Grows, Answers

\* However a commit ends, memory and disk are left sound, agree on money, and
\* have lost neither entries nor intents: the heart of the argument.
LEMMA CommitSound ==
  ASSUME IInv, NEW candidate, NEW orElse,
         Sound(candidate), Follows(mem, candidate),
         Sound(orElse), SameMoney(orElse, mem), IntentsKept(mem, orElse),
         up, Commit(candidate, orElse)
  PROVE  IInv' /\ Kept
<1>1. Follows(disk, candidate) /\ Follows(disk, disk)
  BY FollowsDisk, FollowsSelf DEF IInv
<1>2. SameMoney(candidate, candidate) /\ IntentsKept(candidate, candidate)
  BY SameMoneySelf, IntentsKeptSelf
<1>3. CASE Saved(candidate)
  <2>1. IInv'
    BY <1>2, <1>3 DEF IInv, Saved, Commit, MoneyIsDurable
  <2>2. Kept
    BY <1>1, <1>3 DEF Kept, Follows, Saved
  <2> QED
    BY <2>1, <2>2
<1>4. CASE NotSaved(orElse)
  <2>1. SameMoney(orElse, disk) /\ IntentsKept(disk, orElse)
    BY SameMoneyTrans DEF IInv, MoneyIsDurable, IntentsKept
  <2>2. IInv'
    BY <1>4, <2>1 DEF IInv, NotSaved, Commit, MoneyIsDurable
  <2>3. Follows(mem, orElse)
    BY QuietFollows DEF IInv, SameMoney
  <2>4. Kept
    BY <1>1, <1>4, <2>3 DEF Kept, Follows, NotSaved
  <2> QED
    BY <2>2, <2>4
<1>5. CASE DiedOnceSaved(candidate)
  <2>1. [i \in Invocations |-> 0] \in [Invocations -> 0 .. MaxLeases]
    BY TimesAssumption
  <2>2. IInv'
    BY <1>2, <1>5, <2>1
       DEF IInv, DiedOnceSaved, Stopped, Commit, MoneyIsDurable
  <2>3. Kept
    BY <1>1, <1>5 DEF Kept, Follows, DiedOnceSaved, Stopped
  <2> QED
    BY <2>2, <2>3
<1> QED
  BY <1>3, <1>4, <1>5 DEF Commit

\* Holds and releases change memory alone: the invariant survives because
\* they leave money and intents as they are.
LEMMA InPlaceSound ==
  ASSUME IInv, NEW t, Sound(t), SameMoney(t, mem), t.pending = mem.pending,
         up, InPlace(t)
  PROVE  IInv' /\ Kept
<1>1. SameMoney(t, disk) /\ IntentsKept(disk, t)
  BY SameMoneyTrans DEF IInv, MoneyIsDurable, IntentsKept
<1>2. IInv'
  BY <1>1 DEF IInv, InPlace, MoneyIsDurable
<1>3. Follows(mem, t) /\ Follows(disk, disk)
  BY QuietFollows, FollowsSelf DEF IInv, SameMoney, IntentsKept
<1>4. Kept
  BY <1>3 DEF InPlace, Kept, Follows
<1> QED
  BY <1>2, <1>4

\* Steps that leave the tables alone lose nothing.
LEMMA TablesUnchanged ==
  ASSUME IInv, UNCHANGED <<mem, disk>>
  PROVE  Kept
<1>1. Follows(mem, mem) /\ Follows(disk, disk)
  BY FollowsSelf DEF IInv
<1> QED
  BY <1>1 DEF Kept, Follows

\* The invariant holds at first: no card has been used.
LEMMA InitIInv == Init => IInv
<1> SUFFICES ASSUME Init PROVE IInv
  OBVIOUS
<1> DEFINE f == [c \in Cards |-> [total |-> Balance[c], used |-> 0,
                                 reserved |-> 0, status |-> "active",
                                 frozen |-> FALSE]]
<1>1. f \in [Cards -> Card]
  BY CardsAssumption DEF Card, Statuses
<1> HIDE DEF f
<1>2. /\ Fresh.cards = f /\ Fresh.reservations = NoRecords
      /\ Fresh.pending = NoRecords /\ Fresh.ledger = <<>>
      /\ Fresh.archived = {} /\ Fresh.unpaid = <<>>
      /\ IsSnapshot(Fresh)
  BY DEF Fresh, f, IsSnapshot
<1>3. /\ NoRecords \in [{} -> Reservation] /\ NoRecords \in [{} -> Bill]
      /\ DOMAIN NoRecords = {}
  BY DEF NoRecords
<1>4. PendingHeld(Fresh)
  BY <1>2, <1>3 DEF PendingHeld
<1>5. UnchargedWhileOpen(Fresh) /\ EntriesDiffer(Fresh)
  BY <1>2, <1>3 DEF UnchargedWhileOpen, EntriesDiffer
<1>6. <<>> \in Seq(Entry) /\ <<>> \in Seq(UnpaidCharge)
  OBVIOUS
<1>7. Sound(Fresh)
  BY <1>1, <1>2, <1>3, <1>4, <1>5, <1>6, Rebuilt
<1>8. SameMoney(Fresh, Fresh) /\ IntentsKept(Fresh, Fresh)
  BY SameMoneySelf, IntentsKeptSelf
<1>9. [i \in Invocations |-> 0] \in [Invocations -> 0 .. MaxLeases]
  BY TimesAssumption
<1>10. now \in 0 .. MaxTime
  BY TimesAssumption DEF Init
<1>11. /\ leases \in [Invocations -> 0 .. MaxLeases]
       /\ writeFailed \in BOOLEAN /\ up \in BOOLEAN
       /\ mem = Fresh /\ disk = Fresh
  BY <1>9, Zenon DEF Init
<1>12. Sound(mem) /\ Sound(disk) /\ MoneyIsDurable /\ IntentsKept(disk, mem)
  BY <1>7, <1>8, <1>11 DEF MoneyIsDurable
<1> QED
  BY <1>10, <1>11, <1>12, Zenon DEF IInv

\* A request's steps.
LEMMA RequestIInv ==
  ASSUME IInv, NEW i \in Invocations, Request(i)
  PROVE  IInv' /\ Kept
<1>1. Sound(mem) /\ now \in Nat /\ SameMoney(mem, mem) /\ IntentsKept(mem, mem)
  BY SameMoneySelf, IntentsKeptSelf DEF IInv
<1>2. TablesOK(mem) /\ PendingHeld(mem)
  BY <1>1 DEF Sound
<1>3. ASSUME NEW amount \in HoldAmounts, Reserve(i, amount) PROVE IInv' /\ Kept
  <2>1. ~Taken(mem, i) /\ up /\ InPlace(Hold(mem, i, amount))
    BY <1>3 DEF Reserve
  <2>2. ClientsReuseIds \/ UsageOf(mem, i) = {} \/ i \in DOMAIN mem.reservations
    BY <1>3 DEF Reserve, Sendable
  <2>3. /\ Sound(Hold(mem, i, amount)) /\ SameMoney(Hold(mem, i, amount), mem)
        /\ Hold(mem, i, amount).pending = mem.pending
    BY <1>1, <2>1, <2>2, HoldSound
  <2> QED
    BY <2>1, <2>3, InPlaceSound
<1>4. ASSUME NEW amount \in HoldAmounts, ExtendReservation(i, amount) PROVE IInv' /\ Kept
  <2>1. up /\ i \in DOMAIN mem.reservations /\ Commit(Extended(mem, i, amount), mem)
    BY <1>4 DEF ExtendReservation
  <2>2. Sound(Extended(mem, i, amount)) /\ Follows(mem, Extended(mem, i, amount))
    BY <1>1, <2>1, AmountsAssumption, ExtendedSound
  <2> QED
    BY <1>1, <2>1, <2>2, CommitSound
<1>5. ASSUME NEW charge \in Charges, Settle(i, charge) PROVE IInv' /\ Kept
  <2> DEFINE bill == BillFor(charge)
  <2>1. bill \in Bill
    BY <1>1, AmountsAssumption DEF Bill, BillFor
  <2>2. /\ up /\ i \in DOMAIN mem.reservations
        /\ mem.reservations[i].state = "held"
    BY <1>5 DEF Settle
  <2>3. \/ /\ i \notin DOMAIN mem.pending
           /\ Commit(Debited(mem, i, bill), Intended(mem, i, bill))
        \/ /\ i \in DOMAIN mem.pending
           /\ Commit(Debited(mem, i, mem.pending[i]), mem)
    BY <1>5 DEF Settle
  <2> HIDE DEF bill
  <2>4. CASE /\ i \notin DOMAIN mem.pending
             /\ Commit(Debited(mem, i, bill), Intended(mem, i, bill))
    <3>1. Sound(Debited(mem, i, bill)) /\ Follows(mem, Debited(mem, i, bill))
      BY <1>1, <2>1, <2>2, <2>4, DebitedSound
    <3>2. /\ Sound(Intended(mem, i, bill)) /\ SameMoney(Intended(mem, i, bill), mem)
          /\ IntentsKept(mem, Intended(mem, i, bill))
      BY <1>1, <2>1, <2>2, <2>4, IntendedSound
    <3> QED
      BY <2>2, <2>4, <3>1, <3>2, CommitSound
  <2>5. CASE /\ i \in DOMAIN mem.pending
             /\ Commit(Debited(mem, i, mem.pending[i]), mem)
    <3>1. mem.pending[i] \in Bill
      BY <1>2, <2>5 DEF TablesOK
    <3>2. /\ Sound(Debited(mem, i, mem.pending[i]))
          /\ Follows(mem, Debited(mem, i, mem.pending[i]))
      BY <1>1, <2>2, <3>1, DebitedSound
    <3> QED
      BY <1>1, <2>2, <2>5, <3>2, CommitSound
  <2> QED
    BY <2>3, <2>4, <2>5
<1>6. CASE Release(i)
  <2>1. /\ up /\ InPlace(Returned(mem, {i}))
        /\ i \in DOMAIN mem.reservations /\ i \notin DOMAIN mem.pending
        /\ mem.reservations[i].state = "held"
    BY <1>6 DEF Release
  <2>2. /\ Sound(Returned(mem, {i})) /\ SameMoney(Returned(mem, {i}), mem)
        /\ Returned(mem, {i}).pending = mem.pending
    BY <1>1, <2>1, ReturnedSound
  <2> QED
    BY <2>1, <2>2, InPlaceSound
<1>7. CASE ProtectReservation(i)
  <2>1. IInv'
    BY <1>7, TimesAssumption DEF IInv, MoneyIsDurable, ProtectReservation
  <2> QED
    BY <1>7, <2>1, TablesUnchanged DEF ProtectReservation
<1>8. CASE DropLease(i)
  <2>1. IInv'
    BY <1>8, TimesAssumption DEF IInv, MoneyIsDurable, DropLease
  <2> QED
    BY <1>8, <2>1, TablesUnchanged DEF DropLease
<1> QED
  BY <1>3, <1>4, <1>5, <1>6, <1>7, <1>8 DEF Request

\* The background task's steps.
LEMMA BackgroundIInv ==
  ASSUME IInv, Background
  PROVE  IInv' /\ Kept
<1>1. /\ Sound(mem) /\ TablesOK(mem) /\ PendingHeld(mem)
      /\ SameMoney(mem, mem) /\ IntentsKept(mem, mem) /\ Follows(mem, mem)
  BY SameMoneySelf, IntentsKeptSelf, FollowsSelf DEF IInv, Sound
<1>2. CASE ProbePersistence
  BY <1>1, <1>2, CommitSound DEF ProbePersistence
<1>3. ASSUME NEW i \in Invocations, RetryPendingSettlement(i) PROVE IInv' /\ Kept
  <2>1. /\ up /\ i \in DOMAIN mem.pending
        /\ i \in DOMAIN mem.reservations /\ mem.reservations[i].state = "held"
        /\ Commit(Debited(mem, i, mem.pending[i]), mem)
    BY <1>1, <1>3 DEF RetryPendingSettlement, PendingHeld
  <2>2. mem.pending[i] \in Bill
    BY <1>1, <2>1 DEF TablesOK
  <2>3. /\ Sound(Debited(mem, i, mem.pending[i]))
        /\ Follows(mem, Debited(mem, i, mem.pending[i]))
    BY <1>1, <2>1, <2>2, DebitedSound
  <2> QED
    BY <1>1, <2>1, <2>3, CommitSound
<1>4. CASE RunJanitor
  <2> DEFINE s == Returned(mem, Orphans)
             t == Forgotten(s)
  <2>1. Sound(s) /\ SameMoney(s, mem) /\ s.pending = mem.pending
    BY <1>1, ReturnedSound DEF Orphans
  <2>2. up /\ Commit(t, mem)
    BY <1>4 DEF RunJanitor
  <2> HIDE DEF s
  <2>3. Sound(t) /\ SameMoney(t, s) /\ t.pending = s.pending
    BY <2>1, ForgottenSound
  <2> HIDE DEF t
  <2>4. Follows(mem, t)
    BY <1>1, <2>1, <2>3, QuietFollows DEF SameMoney, IntentsKept
  <2> QED
    BY <1>1, <2>2, <2>3, <2>4, CommitSound
<1> QED
  BY <1>2, <1>3, <1>4 DEF Background

\* The operators' steps.
LEMMA OperatorIInv ==
  ASSUME IInv, Operator
  PROVE  IInv' /\ Kept
<1>1. Sound(mem) /\ SameMoney(mem, mem) /\ IntentsKept(mem, mem) /\ now \in Nat
  BY SameMoneySelf, IntentsKeptSelf DEF IInv
<1>2. ASSUME NEW key \in AdjustKeys, NEW c \in Cards, NEW delta \in Deltas,
             AdjustCardBalance(key, c, delta)
      PROVE  IInv' /\ Kept
  <2>1. /\ Sound(Adjusted(mem, key, c, delta))
        /\ Follows(mem, Adjusted(mem, key, c, delta))
    BY <1>1, AmountsAssumption, AdjustedSound
  <2> QED
    BY <1>1, <1>2, <2>1, CommitSound DEF AdjustCardBalance
<1>3. ASSUME NEW c \in OperatedCards, NEW status \in Statuses,
             NEW frozen \in BOOLEAN, up,
             SetStatus(c, status, frozen)
      PROVE  IInv' /\ Kept
  <2>1. /\ Sound(WithStatus(mem, c, status, frozen))
        /\ Follows(mem, WithStatus(mem, c, status, frozen))
    BY <1>1, CardsAssumption, WithStatusSound
  <2> QED
    BY <1>1, <1>3, <2>1, CommitSound DEF SetStatus
<1>4. ASSUME NEW c \in OperatedCards,
             FreezeCard(c) \/ UnfreezeCard(c) \/ BanCard(c) \/ UnbanCard(c)
               \/ VoidCard(c)
      PROVE  IInv' /\ Kept
  <2>1. mem.cards[c].frozen \in BOOLEAN
    BY <1>1, CardsAssumption DEF Sound, TablesOK, Card
  <2> QED
    BY <1>3, <1>4, <2>1
       DEF FreezeCard, UnfreezeCard, BanCard, UnbanCard, VoidCard, Statuses
<1>5. ASSUME NEW before \in ArchiveCutoffs, ArchiveLedger(before) PROVE IInv' /\ Kept
  <2>1. Sound(Archived(mem, before)) /\ Follows(mem, Archived(mem, before))
    BY <1>1, ArchivedSound
  <2> QED
    BY <1>1, <1>5, <2>1, CommitSound DEF ArchiveLedger
<1> QED
  BY <1>2, <1>4, <1>5 DEF Operator

\* Stopping, starting, and the clock.
LEMMA ProcessIInv ==
  ASSUME IInv, Process
  PROVE  IInv' /\ Kept
<1>1. /\ Sound(mem) /\ Sound(disk)
      /\ SameMoney(mem, disk) /\ SameMoney(disk, disk) /\ SameMoney(mem, mem)
      /\ IntentsKept(disk, disk) /\ IntentsKept(mem, mem)
  BY SameMoneySelf, IntentsKeptSelf DEF IInv, MoneyIsDurable
<1>2. [i \in Invocations |-> 0] \in [Invocations -> 0 .. MaxLeases]
  BY TimesAssumption
<1>3. Follows(mem, mem) /\ Follows(disk, disk) /\ Follows(disk, mem)
  BY <1>1, FollowsSelf, FollowsDisk
<1>4. Grows(mem, disk)
  BY <1>1, <1>3 DEF SameMoney, Follows, Grows
<1>5. CASE Crash
  <2>1. IInv'
    BY <1>1, <1>2, <1>5 DEF Crash, Stopped, IInv, MoneyIsDurable
  <2> QED
    BY <1>3, <1>4, <1>5, <2>1 DEF Crash, Stopped, Kept, Follows
<1>6. CASE Shutdown
  <2>1. IInv'
    BY <1>1, <1>2, <1>6 DEF Shutdown, Stopped, IInv, MoneyIsDurable
  <2> QED
    BY <1>3, <1>6, <2>1 DEF Shutdown, Stopped, Kept, Follows
<1>7. CASE Restart
  <2>1. /\ Sound(Import(disk)) /\ SameMoney(Import(disk), disk)
        /\ Import(disk).pending = disk.pending
    BY <1>1, ImportSound
  <2>2. mem' = Import(disk) /\ up' = TRUE /\ ~up
        /\ UNCHANGED <<disk, leases, writeFailed, now>>
    BY <1>7 DEF Restart
  <2>3. IntentsKept(disk, Import(disk))
    BY <2>1 DEF IntentsKept
  <2>4. IInv'
    BY <1>1, <2>1, <2>2, <2>3 DEF IInv, MoneyIsDurable
  <2>5. Grows(mem, mem')
    BY <1>3, <1>4, <2>1, <2>2 DEF SameMoney, Grows
  <2> QED
    BY <1>3, <2>2, <2>4, <2>5 DEF Kept, Follows
<1>8. CASE Tick
  <2>1. IInv'
    BY <1>1, <1>8, TimesAssumption DEF Tick, IInv, MoneyIsDurable
  <2> QED
    BY <1>8, <2>1, TablesUnchanged DEF Tick
<1> QED
  BY <1>5, <1>6, <1>7, <1>8 DEF Process

\* No step breaks the invariant or loses an entry or an intent.
LEMMA NextIInv == IInv /\ [Next]_vars => IInv' /\ Kept
<1> SUFFICES ASSUME IInv, [Next]_vars PROVE IInv' /\ Kept
  OBVIOUS
<1>1. CASE UNCHANGED vars
  <2>1. IInv'
    BY <1>1 DEF vars, IInv, MoneyIsDurable
  <2> QED
    BY <1>1, <2>1, TablesUnchanged DEF vars
<1>2. CASE Next
  BY <1>2, RequestIInv, BackgroundIInv, OperatorIInv, ProcessIInv DEF Next
<1> QED
  BY <1>1, <1>2

\* The invariant holds throughout.
THEOREM Invariance == Spec => []IInv
BY InitIInv, NextIInv, PTL DEF Spec

-----------------------------------------------------------------------------
\* The theorems.

\* Whatever requests, failures and restarts do, the tables keep their types.
THEOREM BillingTypes == Spec => []TypeOK
<1>1. IInv => TypeOK
  BY DEF IInv, Sound, TypeOK
<1> QED
  BY <1>1, Invariance, PTL

\* No money in memory is lost with the process.
THEOREM MoneyAlwaysDurable == Spec => []MoneyIsDurable
<1>1. IInv => MoneyIsDurable
  BY DEF IInv
<1> QED
  BY <1>1, Invariance, PTL

\* A consumed request that is not yet charged keeps its hold.
THEOREM PendingAlwaysHeld == Spec => []PendingIsHeld
<1>1. IInv => PendingIsHeld
  BY DEF IInv, Sound, PendingIsHeld
<1> QED
  BY <1>1, Invariance, PTL

\* No request is charged twice, as long as clients do not send the id of a
\* charged request again once its record has been pruned.
THEOREM NoRequestChargedTwice ==
  ASSUME ~ClientsReuseIds PROVE Spec => []ChargedOnce
<1>1. IInv => ChargedOnce
  BY DEF IInv, Sound, ChargedOnce
<1> QED
  BY <1>1, Invariance, PTL

\* The ledger and the evidence of debt are only appended to.
THEOREM LedgerOnlyGrows == Spec => LedgerNeverLoses
<1>1. IInv /\ [Next]_vars =>
        [/\ IsPrefix(mem.ledger, mem'.ledger)
         /\ IsPrefix(disk.ledger, disk'.ledger)
         /\ IsPrefix(mem.unpaid, mem'.unpaid)]_vars
  BY NextIInv DEF Kept, Grows
<1> QED
  BY <1>1, Invariance, PTL DEF Spec, LedgerNeverLoses

\* What a client has consumed is charged at its recorded price or still
\* recorded: no step refunds, reprices or forgets it.
THEOREM ConsumedIsCharged == Spec => ConsumedNeverRefunded
<1>1. IInv /\ [Next]_vars =>
        [\A i \in Invocations :
           /\ up /\ up' /\ i \in DOMAIN mem.pending =>
                \/ i \in DOMAIN mem'.pending /\ mem'.pending[i] = mem.pending[i]
                \/ BilledAt(mem', i, mem.pending[i])
           /\ i \in DOMAIN disk.pending =>
                \/ i \in DOMAIN disk'.pending /\ disk'.pending[i] = disk.pending[i]
                \/ BilledAt(disk', i, disk.pending[i])]_vars
  BY NextIInv DEF Kept, Answers
<1> QED
  BY <1>1, Invariance, PTL DEF Spec, ConsumedNeverRefunded

-----------------------------------------------------------------------------
\* Totals: the sums of the model.

\* Over a finite domain, Total is the sum itself.
LEMMA TotalIsSum ==
  ASSUME NEW S, IsFiniteSet(S), NEW f \in [S -> Int]
  PROVE  Total(f) = RunningSum(f, S)[S]
<1>1. SumFunction(f) = RunningSum(f, S)[S]
  BY SumIsRunning
<1>2. RunningSum(f, S)[S] \in Int
  BY RunningType
<1> QED
  BY <1>1, <1>2 DEF Total

\* The sum over nothing.
LEMMA TotalEmpty ==
  ASSUME NEW f, DOMAIN f = {}
  PROVE  Total(f) = 0
<1>1. IsFiniteSet({})
  BY FS_EmptySet
<1>2. Adds(RunningSum(f, {}), f, {})
  BY <1>1, RunningExists
<1>3. RunningSum(f, {})[{}] = 0
  BY <1>2 DEF Adds
<1> QED
  BY <1>3, SumIsRunning DEF Total

\* The sum over a set is one member's share and the sum over the others.
LEMMA TotalTakes ==
  ASSUME NEW S, IsFiniteSet(S), NEW f \in [S -> Int], NEW x \in S
  PROVE  Total(f) = f[x] + Total([y \in S \ {x} |-> f[y]])
<1> DEFINE R == S \ {x}
           e == [y \in R |-> f[y]]
<1>1. IsFiniteSet(R)
  BY FS_Subset
<1>2. e \in [R -> Int]
  OBVIOUS
<1>3. Adds(RunningSum(f, S), f, S) /\ Adds(RunningSum(e, R), e, R)
  BY <1>1, RunningExists
<1>4. RunningSum(f, S)[S] = f[x] + RunningSum(f, S)[R]
  BY RunningTakes
<1>5. \A s \in SUBSET R : RunningSum(f, S)[s] = RunningSum(e, R)[s]
  <2>1. R \subseteq S /\ R \subseteq R /\ \A y \in R : f[y] = e[y]
    OBVIOUS
  <2> HIDE DEF R, e
  <2> QED
    BY <1>1, <1>3, <2>1, RunningUnique
<1>6. Total(f) = RunningSum(f, S)[S] /\ Total(e) = RunningSum(e, R)[R]
  BY <1>1, <1>2, TotalIsSum
<1> QED
  BY <1>4, <1>5, <1>6

\* h is g and one term more.
SumGrows(A, x, g, h) ==
  /\ IsFiniteSet(A) /\ x \notin A
  /\ g \in [A -> Int] /\ h \in [A \cup {x} -> Int]
  /\ \A k \in A : h[k] = g[k]
  => Total(h) = Total(g) + h[x]

\* The sum over a set and one thing more.
LEMMA TotalAdds == \A A, x, g, h : SumGrows(A, x, g, h)
<1> SUFFICES ASSUME NEW A, IsFiniteSet(A), NEW x, x \notin A,
                    NEW g \in [A -> Int], NEW h \in [A \cup {x} -> Int],
                    \A k \in A : h[k] = g[k]
             PROVE  Total(h) = Total(g) + h[x]
  BY DEF SumGrows
<1> DEFINE B == A \cup {x}
<1>1. IsFiniteSet(B)
  BY FS_AddElement
<1>2. Total(h) = h[x] + Total([y \in B \ {x} |-> h[y]])
  <2> HIDE DEF B
  <2>1. h \in [B -> Int] /\ x \in B
    BY DEF B
  <2> QED
    BY <1>1, <2>1, TotalTakes
<1>3. [y \in B \ {x} |-> h[y]] = g
  <2>1. B \ {x} = A
    OBVIOUS
  <2> QED
    BY <2>1
<1>4. Total(g) \in Int /\ h[x] \in Int
  BY TotalType
<1> QED
  BY <1>2, <1>3, <1>4

\* The sum over a part of a set and that over the part without a member.
LEMMA TotalOfPart ==
  ASSUME NEW A, IsFiniteSet(A), NEW f \in [A -> Int], NEW X \in SUBSET A, NEW x \in X
  PROVE  Total(Restrict(f, X)) = Total(Restrict(f, X \ {x})) + f[x]
<1> DEFINE Y == X \ {x}
           h == Restrict(f, X)
           g == Restrict(f, Y)
<1>1. IsFiniteSet(Y) /\ x \notin Y
  BY FS_Subset
<1>2. h \in [X -> Int] /\ g \in [Y -> Int] /\ h[x] = f[x] /\ \A k \in Y : h[k] = g[k]
  BY DEF Restrict
<1>3. X = Y \cup {x}
  OBVIOUS
<1> HIDE DEF Y, h, g
<1>4. h \in [Y \cup {x} -> Int]
  BY <1>2, <1>3
<1>5. SumGrows(Y, x, g, h)
  BY TotalAdds
<1>6. Total(h) = Total(g) + h[x]
  BY <1>1, <1>2, <1>4, <1>5 DEF SumGrows
<1> QED
  BY <1>2, <1>6 DEF h, g, Y

\* A function restricted to its domain, or to nothing.
LEMMA RestrictEnds ==
  ASSUME NEW A, NEW f \in [A -> Int]
  PROVE  Restrict(f, A) = f /\ Total(Restrict(f, {})) = 0
<1>1. Restrict(f, A) = f
  BY DEF Restrict
<1>2. DOMAIN Restrict(f, {}) = {}
  BY DEF Restrict
<1> QED
  BY <1>1, <1>2, TotalEmpty

\* A sum grows with its terms.
LEMMA TotalMonotone ==
  ASSUME NEW A, IsFiniteSet(A), NEW f \in [A -> Int], NEW g \in [A -> Int],
         \A k \in A : f[k] <= g[k]
  PROVE  Total(f) <= Total(g)
<1> DEFINE Good == {X \in SUBSET A : Total(Restrict(f, X)) <= Total(Restrict(g, X))}
<1>1. ASSUME NEW X \in SUBSET A, \A Y \in SUBSET X : Y # X => Y \in Good
      PROVE  X \in Good
  <2>1. CASE X = {}
    BY <2>1, RestrictEnds
  <2>2. CASE X # {}
    <3>1. PICK x \in X : TRUE
      BY <2>2
    <3>2. Total(Restrict(f, X \ {x})) <= Total(Restrict(g, X \ {x})) /\ f[x] <= g[x]
      BY <1>1
    <3>3. /\ Total(Restrict(f, X)) = Total(Restrict(f, X \ {x})) + f[x]
          /\ Total(Restrict(g, X)) = Total(Restrict(g, X \ {x})) + g[x]
      BY TotalOfPart
    <3>4. /\ Total(Restrict(f, X \ {x})) \in Int /\ Total(Restrict(g, X \ {x})) \in Int
          /\ f[x] \in Int /\ g[x] \in Int
      BY TotalType
    <3> QED
      BY <3>2, <3>3, <3>4
  <2> QED
    BY <2>1, <2>2
<1>2. Good = SUBSET A
  <2>1. Good \in SUBSET SUBSET A
    OBVIOUS
  <2> HIDE DEF Good
  <2> QED
    BY <1>1, <2>1, SubsetInduction
<1> QED
  BY <1>2, RestrictEnds

\* A sum of natural numbers is one.
LEMMA TotalNat ==
  ASSUME NEW A, IsFiniteSet(A), NEW f \in [A -> Nat]
  PROVE  Total(f) \in Nat
<1> DEFINE Good == {X \in SUBSET A : Total(Restrict(f, X)) \in Nat}
<1>0. f \in [A -> Int]
  OBVIOUS
<1>1. ASSUME NEW X \in SUBSET A, \A Y \in SUBSET X : Y # X => Y \in Good
      PROVE  X \in Good
  <2>1. CASE X = {}
    BY <2>1, <1>0, RestrictEnds
  <2>2. CASE X # {}
    <3>1. PICK x \in X : TRUE
      BY <2>2
    <3>2. Total(Restrict(f, X \ {x})) \in Nat /\ f[x] \in Nat
      BY <1>1
    <3>3. Total(Restrict(f, X)) = Total(Restrict(f, X \ {x})) + f[x]
      BY <1>0, TotalOfPart
    <3> QED
      BY <3>2, <3>3
  <2> QED
    BY <2>1, <2>2
<1>2. Good = SUBSET A
  <2>1. Good \in SUBSET SUBSET A
    OBVIOUS
  <2> HIDE DEF Good
  <2> QED
    BY <1>1, <2>1, SubsetInduction
<1> QED
  BY <1>0, <1>2, RestrictEnds

\* A sum is that over a part and that over the rest.
LEMMA TotalSplit ==
  ASSUME NEW A, IsFiniteSet(A), NEW f \in [A -> Int], NEW B \in SUBSET A
  PROVE  Total(f) = Total(Restrict(f, B)) + Total(Restrict(f, A \ B))
<1> DEFINE T(X) == Total(Restrict(f, X))
           Good == {X \in SUBSET A : T(X) = T(X \cap B) + T(X \ B)}
<1>0. /\ \A X \in SUBSET A : \A x \in X : T(X) = T(X \ {x}) + f[x]
      /\ \A X : T(X) \in Int
      /\ \A x \in A : f[x] \in Int
  BY TotalOfPart, TotalType
<1>1. ASSUME NEW X \in SUBSET A, \A Y \in SUBSET X : Y # X => Y \in Good
      PROVE  X \in Good
  <2>1. CASE X = {}
    <3>1. T({}) = 0 /\ {} \cap B = {} /\ {} \ B = {}
      BY RestrictEnds
    <3>2. T({} \cap B) = T({}) /\ T({} \ B) = T({})
      BY <3>1, Zenon
    <3>3. T({}) = T({} \cap B) + T({} \ B)
      BY <3>1, <3>2
    <3> QED
      BY <3>3, <2>1
  <2>2. CASE X # {}
    <3>1. PICK x \in X : TRUE
      BY <2>2
    <3> DEFINE Y == X \ {x}
    <3>2. T(Y) = T(Y \cap B) + T(Y \ B)
      BY <1>1
    <3>3. T(X) = T(Y) + f[x] /\ f[x] \in Int /\ T(Y \cap B) \in Int /\ T(Y \ B) \in Int
      BY <1>0
    <3>4. CASE x \in B
      <4>1. X \cap B \in SUBSET A /\ x \in X \cap B
        BY <3>4
      <4>2. (X \cap B) \ {x} = Y \cap B /\ X \ B = Y \ B
        BY <3>4
      <4>3. T(X \cap B) = T(Y \cap B) + f[x]
        <5> QED BY <1>0, <4>1, <4>2
      <4>4. T(X \ B) = T(Y \ B)
        BY <4>2, Zenon
      <4>5. T(X) = T(X \cap B) + T(X \ B)
        BY <3>2, <3>3, <4>3, <4>4
      <4> QED
        BY <4>5
    <3>5. CASE x \notin B
      <4>1. X \ B \in SUBSET A /\ x \in X \ B
        BY <3>5
      <4>2. (X \ B) \ {x} = Y \ B /\ X \cap B = Y \cap B
        BY <3>5
      <4>3. T(X \ B) = T(Y \ B) + f[x]
        <5> QED BY <1>0, <4>1, <4>2
      <4>4. T(X \cap B) = T(Y \cap B)
        BY <4>2, Zenon
      <4>5. T(X) = T(X \cap B) + T(X \ B)
        BY <3>2, <3>3, <4>3, <4>4
      <4> QED
        BY <4>5
    <3> QED
      BY <3>4, <3>5
  <2> QED
    BY <2>1, <2>2
<1>2. Good = SUBSET A
  <2>1. Good \in SUBSET SUBSET A
    OBVIOUS
  <2> HIDE DEF Good
  <2> QED
    BY <1>1, <2>1, SubsetInduction
<1>3. A \cap B = B
  OBVIOUS
<1>4. T(A) = T(B) + T(A \ B)
  <2>1. T(A) = T(A \cap B) + T(A \ B)
    BY <1>2
  <2> QED
    BY <2>1, <1>3
<1> QED
  BY <1>4, RestrictEnds

-----------------------------------------------------------------------------
\* The books of some tables.

HeldIds(s) == {i \in DOMAIN s.reservations : s.reservations[i].state = "held"}

\* What a card has reserved is what its holds come to.
Accounted(s) ==
  /\ IsFiniteSet(HeldIds(s))
  /\ \A c \in Cards : s.cards[c].reserved = HeldCredits(s, c)

\* What a card has used is what its ledger says, and no usage gives credit.
Spent(s) ==
  /\ \A k \in DOMAIN s.ledger : s.ledger[k].kind = "usage" => s.ledger[k].credits \in Nat
  /\ \A c \in Cards : s.cards[c].used = SpentOf(s, c)

UnpaidOf(s, c) == {l \in DOMAIN s.unpaid : CardOf[s.unpaid[l].ref] = c}

UnpaidSum(s, c) == Total([l \in UnpaidOf(s, c) |-> s.unpaid[l].amount])

Evidenced(s) == \A c \in Cards : Debt(s.cards[c]) <= UnpaidSum(s, c)

Covered(s) ==
  \A c \in Cards :
    s.cards[c].used + s.cards[c].reserved
      <= s.cards[c].total + OverrunOf(s, UsageSince(s, c, 0))

\* The limits, in the windows that time t is in.
WithinLimit(s, c, since, limit) ==
  Credits(s, UsageSince(s, c, since)) + s.cards[c].reserved
    <= limit + OverrunOf(s, UsageSince(s, c, since))

Fair(s, t) ==
  \A c \in Cards : /\ WithinLimit(s, c, StartOfDay(t), DailyLimit[c])
                   /\ WithinLimit(s, c, StartOfMonth(t), MonthlyLimit[c])

\* A charge is within its hold by its own invocation's record, so what is covered
\* rests on no id being used twice.
Balanced(s) ==
  /\ Accounted(s) /\ Spent(s) /\ Evidenced(s)
  /\ ~ClientsReuseIds => Covered(s) /\ Fair(s, now)

BInv == Balanced(mem) /\ Balanced(disk)

-----------------------------------------------------------------------------
\* Sums of holds.

\* Sums of the same amounts are the same.
LEMMA AmountsSame ==
  ASSUME NEW s, NEW t, NEW ids,
         \A i \in ids : t.reservations[i].amount = s.reservations[i].amount
  PROVE  AmountOf(t, ids) = AmountOf(s, ids)
<1>1. [i \in ids |-> t.reservations[i].amount] = [i \in ids |-> s.reservations[i].amount]
  OBVIOUS
<1> QED
  BY <1>1, Zenon DEF AmountOf

\* The holds of some ids, by a part and the rest, are natural numbers.
LEMMA AmountsSplit ==
  ASSUME NEW s, TablesOK(s), NEW ids \in SUBSET DOMAIN s.reservations,
         IsFiniteSet(ids), NEW part \in SUBSET ids
  PROVE  /\ AmountOf(s, ids) = AmountOf(s, part) + AmountOf(s, ids \ part)
         /\ AmountOf(s, ids) \in Nat
<1> DEFINE f == [i \in ids |-> s.reservations[i].amount]
<1>1. f \in [ids -> Nat] /\ f \in [ids -> Int]
  BY DEF TablesOK, Reservation
<1>2. /\ Restrict(f, part) = [i \in part |-> s.reservations[i].amount]
      /\ Restrict(f, ids \ part) = [i \in ids \ part |-> s.reservations[i].amount]
  BY DEF Restrict
<1>3. /\ AmountOf(s, ids) = Total(f)
      /\ AmountOf(s, part) = Total(Restrict(f, part))
      /\ AmountOf(s, ids \ part) = Total(Restrict(f, ids \ part))
  BY <1>2, Zenon DEF AmountOf
<1> HIDE DEF f
<1>4. Total(f) \in Nat
  BY <1>1, TotalNat
<1>5. Total(f) = Total(Restrict(f, part)) + Total(Restrict(f, ids \ part))
  BY <1>1, TotalSplit
<1> QED
  BY <1>3, <1>4, <1>5

\* The holds of one id.
LEMMA AmountOfOne ==
  ASSUME NEW s, TablesOK(s), NEW i \in DOMAIN s.reservations
  PROVE  AmountOf(s, {i}) = s.reservations[i].amount
<1> DEFINE f == [j \in {i} |-> s.reservations[j].amount]
<1>1. f \in [{i} -> Int] /\ f[i] = s.reservations[i].amount
  BY DEF TablesOK, Reservation
<1>2. IsFiniteSet({i})
  BY FS_Singleton
<1>3. AmountOf(s, {i}) = Total(f)
  BY DEF AmountOf
<1> HIDE DEF f
<1>4. Restrict(f, {i}) = f /\ Total(Restrict(f, {})) = 0
  BY <1>1, RestrictEnds
<1>5. Total(Restrict(f, {i})) = Total(Restrict(f, {i} \ {i})) + f[i]
  BY <1>1, <1>2, TotalOfPart
<1>6. {i} \ {i} = {}
  OBVIOUS
<1>7. Total(Restrict(f, {i} \ {i})) = Total(Restrict(f, {}))
  BY <1>6, Zenon
<1>8. f[i] \in Int
  BY <1>1
<1> QED
  BY <1>1, <1>3, <1>4, <1>5, <1>7, <1>8

\* The holds of a card are among those that stand.
LEMMA HeldOnCard ==
  ASSUME NEW s, IsFiniteSet(HeldIds(s)), NEW c
  PROVE  /\ HeldOn(s, c) \in SUBSET DOMAIN s.reservations
         /\ HeldOn(s, c) = {i \in HeldIds(s) : CardOf[i] = c}
         /\ IsFiniteSet(HeldOn(s, c))
<1>1. HeldOn(s, c) = {i \in HeldIds(s) : CardOf[i] = c}
  BY DEF HeldOn, HeldIds
<1>2. HeldOn(s, c) \subseteq HeldIds(s)
  BY <1>1
<1> QED
  BY <1>1, <1>2, FS_Subset DEF HeldOn

\* t has the holds of s and i's.
OneMore(s, t, i) ==
  /\ TablesOK(s) /\ TablesOK(t) /\ IsFiniteSet(HeldIds(s))
  /\ i \notin HeldIds(s) /\ HeldIds(t) = HeldIds(s) \cup {i}
  /\ \A j \in HeldIds(s) :
       t.reservations[j].amount = s.reservations[j].amount

\* What one hold more adds, or one less takes.
LEMMA HoldMore ==
  ASSUME NEW s, NEW t, NEW i, OneMore(s, t, i)
  PROVE  /\ IsFiniteSet(HeldIds(t))
         /\ \A c : HeldCredits(t, c) =
              HeldCredits(s, c)
                + (IF c = CardOf[i] THEN t.reservations[i].amount ELSE 0)
<1>0. /\ TablesOK(s) /\ TablesOK(t) /\ IsFiniteSet(HeldIds(s))
      /\ i \notin HeldIds(s) /\ HeldIds(t) = HeldIds(s) \cup {i}
      /\ \A j \in HeldIds(s) :
           t.reservations[j].amount = s.reservations[j].amount
  BY DEF OneMore
<1>1. IsFiniteSet(HeldIds(t))
  BY <1>0, FS_AddElement
<1>2. ASSUME NEW c
      PROVE  HeldCredits(t, c) =
               HeldCredits(s, c)
                 + (IF c = CardOf[i] THEN t.reservations[i].amount ELSE 0)
  <2>1. /\ HeldOn(s, c) = {j \in HeldIds(s) : CardOf[j] = c}
        /\ HeldOn(t, c) = {j \in HeldIds(t) : CardOf[j] = c}
        /\ HeldOn(t, c) \in SUBSET DOMAIN t.reservations
        /\ IsFiniteSet(HeldOn(t, c))
    BY <1>0, <1>1, HeldOnCard
  <2>2. AmountOf(t, HeldOn(s, c)) = AmountOf(s, HeldOn(s, c))
    BY <1>0, <2>1, AmountsSame
  <2>3. HeldCredits(s, c) \in Int
    BY HeldCreditsType
  <2>4. CASE CardOf[i] = c
    <3>1. {i} \in SUBSET HeldOn(t, c) /\ i \in DOMAIN t.reservations
      BY <1>0, <2>1, <2>4
    <3>2. HeldOn(t, c) \ {i} = HeldOn(s, c)
      BY <1>0, <2>1
    <3>3. AmountOf(t, HeldOn(t, c)) =
            AmountOf(t, {i}) + AmountOf(t, HeldOn(t, c) \ {i})
      BY <1>0, <2>1, <3>1, AmountsSplit
    <3>4. AmountOf(t, HeldOn(t, c) \ {i}) = AmountOf(t, HeldOn(s, c))
      BY <3>2, Zenon
    <3>5. AmountOf(t, {i}) = t.reservations[i].amount
      BY <1>0, <3>1, AmountOfOne
    <3>6. AmountOf(t, {i}) \in Int
      BY AmountOfType
    <3> QED
      BY <2>2, <2>3, <2>4, <3>3, <3>4, <3>5, <3>6 DEF HeldCredits
  <2>5. CASE CardOf[i] # c
    <3>1. HeldOn(t, c) = HeldOn(s, c)
      BY <1>0, <2>1, <2>5
    <3>2. AmountOf(t, HeldOn(t, c)) = AmountOf(s, HeldOn(s, c))
      BY <2>2, <3>1, Zenon
    <3> QED
      BY <2>3, <2>5, <3>2 DEF HeldCredits
  <2> QED
    BY <2>4, <2>5
<1> QED
  BY <1>1, <1>2

\* The same holds.
LEMMA HoldsSame ==
  ASSUME NEW s, NEW t, HeldIds(t) = HeldIds(s), IsFiniteSet(HeldIds(s)),
         \A j \in HeldIds(s) :
           t.reservations[j].amount = s.reservations[j].amount
  PROVE  /\ IsFiniteSet(HeldIds(t))
         /\ \A c : HeldCredits(t, c) = HeldCredits(s, c)
<1>1. IsFiniteSet(HeldIds(t))
  OBVIOUS
<1>2. ASSUME NEW c PROVE HeldCredits(t, c) = HeldCredits(s, c)
  <2>1. HeldOn(s, c) = {j \in HeldIds(s) : CardOf[j] = c}
    BY DEF HeldOn, HeldIds
  <2>2. HeldOn(t, c) = {j \in HeldIds(t) : CardOf[j] = c}
    BY DEF HeldOn, HeldIds
  <2>3. HeldOn(t, c) = HeldOn(s, c)
    BY <2>1, <2>2
  <2>4. AmountOf(t, HeldOn(s, c)) = AmountOf(s, HeldOn(s, c))
    BY <2>1, AmountsSame
  <2>5. AmountOf(t, HeldOn(t, c)) = AmountOf(t, HeldOn(s, c))
    BY <2>3, Zenon
  <2> QED
    BY <2>4, <2>5 DEF HeldCredits
<1> QED
  BY <1>1, <1>2

-----------------------------------------------------------------------------
\* Sums of the ledger.

\* A ledger has finitely many entries, and its usage is some of them.
LEMMA Entries ==
  ASSUME NEW s, TablesOK(s)
  PROVE  /\ IsFiniteSet(DOMAIN s.ledger)
         /\ \A K \in SUBSET DOMAIN s.ledger : IsFiniteSet(K)
         /\ \A c, since : UsageSince(s, c, since) \in SUBSET DOMAIN s.ledger
         /\ \A k \in DOMAIN s.ledger : s.ledger[k] \in Entry
<1>1. s.ledger \in Seq(Entry)
  BY DEF TablesOK
<1>2. DOMAIN s.ledger = 1 .. Len(s.ledger) /\ Len(s.ledger) \in Nat
  BY <1>1
<1>3. IsFiniteSet(DOMAIN s.ledger)
  BY <1>2, FS_Interval
<1>4. \A K \in SUBSET DOMAIN s.ledger : IsFiniteSet(K)
  BY <1>3, FS_Subset
<1>5. \A k \in DOMAIN s.ledger : s.ledger[k] \in Entry
  BY <1>1
<1> QED
  BY <1>3, <1>4, <1>5 DEF UsageSince

\* t's ledger is that of s and an entry e.
Appends(s, t, e) == e \in Entry /\ t.ledger = Append(s.ledger, e)

\* Of some entries of t and one more, as far as those of s say.
CreditsGrow(s, t, K, n) ==
  /\ IsFiniteSet(K) /\ n \notin K /\ t.ledger[n].credits \in Int
  /\ \A k \in K : /\ t.ledger[k].credits \in Int
                  /\ t.ledger[k].credits = s.ledger[k].credits
  => /\ Credits(t, K) = Credits(s, K)
     /\ Credits(t, K \cup {n}) = Credits(s, K) + t.ledger[n].credits

\* The credits of some entries and of one more.
LEMMA CreditsOfMore == \A s, t, K, n : CreditsGrow(s, t, K, n)
<1> TAKE s, t, K, n
<1> USE DEF CreditsGrow
<1> HAVE /\ IsFiniteSet(K) /\ n \notin K /\ t.ledger[n].credits \in Int
         /\ \A k \in K : /\ t.ledger[k].credits \in Int
                         /\ t.ledger[k].credits = s.ledger[k].credits
<1> DEFINE g == [k \in K |-> s.ledger[k].credits]
           h == [k \in K \cup {n} |-> t.ledger[k].credits]
<1>1. g \in [K -> Int] /\ h \in [K \cup {n} -> Int]
  OBVIOUS
<1>2. h[n] = t.ledger[n].credits /\ \A k \in K : h[k] = g[k]
  OBVIOUS
<1>3. [k \in K |-> t.ledger[k].credits] = g
  OBVIOUS
<1>4. /\ Credits(t, K) = Total(g) /\ Credits(s, K) = Total(g)
      /\ Credits(t, K \cup {n}) = Total(h)
  BY <1>3, Zenon DEF Credits
<1> HIDE DEF g, h
<1>5. SumGrows(K, n, g, h)
  BY TotalAdds
<1>6. Total(h) = Total(g) + h[n]
  BY <1>1, <1>2, <1>5 DEF SumGrows
<1> QED
  BY <1>2, <1>4, <1>6

\* Some entries of a ledger and the one appended to it.
CreditsAdded(s, t, e, K) ==
  TablesOK(s) /\ TablesOK(t) /\ Appends(s, t, e) /\ K \in SUBSET DOMAIN s.ledger
  => /\ Credits(t, K) = Credits(s, K)
     /\ Credits(t, K \cup {Len(s.ledger) + 1}) = Credits(s, K) + e.credits

\* The credits of entries a ledger had, and of one appended to it.
LEMMA CreditsAppended == \A s, t, e, K : CreditsAdded(s, t, e, K)
<1> SUFFICES ASSUME NEW s, NEW t, NEW e, NEW K PROVE CreditsAdded(s, t, e, K)
  OBVIOUS
<1> SUFFICES ASSUME TablesOK(s), TablesOK(t), Appends(s, t, e), K \in SUBSET DOMAIN s.ledger
             PROVE  /\ Credits(t, K) = Credits(s, K)
                    /\ Credits(t, K \cup {Len(s.ledger) + 1}) = Credits(s, K) + e.credits
  BY DEF CreditsAdded
<1> DEFINE n == Len(s.ledger) + 1
<1>1. /\ n \notin DOMAIN s.ledger /\ t.ledger[n] = e
      /\ \A k \in DOMAIN s.ledger : t.ledger[k] = s.ledger[k]
  BY Appended DEF TablesOK, Appends
<1>2. IsFiniteSet(K) /\ e \in Entry /\ \A k \in DOMAIN s.ledger : s.ledger[k] \in Entry
  BY Entries DEF Appends
<1> HIDE DEF n
<1>3. /\ IsFiniteSet(K) /\ n \notin K /\ t.ledger[n].credits \in Int
      /\ \A k \in K : /\ t.ledger[k].credits \in Int
                      /\ t.ledger[k].credits = s.ledger[k].credits
  BY <1>1, <1>2 DEF Entry
<1>4. /\ Credits(t, K) = Credits(s, K)
      /\ Credits(t, K \cup {n}) = Credits(s, K) + t.ledger[n].credits
  <2>1. CreditsGrow(s, t, K, n)
    BY CreditsOfMore
  <2> QED
    BY <1>3, <2>1 DEF CreditsGrow
<1> QED
  BY <1>1, <1>4 DEF n

\* A charge runs over its hold by a number, which is no more than the charge.
LEMMA OverrunType ==
  ASSUME NEW s, TablesOK(s), NEW k \in DOMAIN s.ledger
  PROVE  /\ Overrun(s, k) \in Int
         /\ s.ledger[k].credits \in Nat => 0 <= Overrun(s, k) /\ Overrun(s, k) <= s.ledger[k].credits
<1>1. s.ledger[k].credits \in Int
  BY Entries DEF Entry
<1> DEFINE i == s.ledger[k].ref
<1>2. ASSUME i \in DOMAIN s.reservations PROVE s.reservations[i].amount \in Nat
  BY <1>2 DEF TablesOK, Reservation
<1> HIDE DEF i
<1>3. CASE i \in DOMAIN s.reservations /\ s.reservations[i].state = "settled"
  BY <1>1, <1>2, <1>3 DEF Overrun, Positive, i
<1>4. CASE ~(i \in DOMAIN s.reservations /\ s.reservations[i].state = "settled")
  BY <1>1, <1>4 DEF Overrun, i
<1> QED
  BY <1>3, <1>4

\* How far entries run over when each runs over no less than before.
LEMMA OverrunsGrow ==
  ASSUME NEW s, NEW t, TablesOK(s), TablesOK(t), NEW K \in SUBSET DOMAIN s.ledger,
         K \in SUBSET DOMAIN t.ledger, \A k \in K : Overrun(s, k) <= Overrun(t, k)
  PROVE  OverrunOf(s, K) <= OverrunOf(t, K)
<1> DEFINE f == [k \in K |-> Overrun(s, k)]
           g == [k \in K |-> Overrun(t, k)]
<1>1. IsFiniteSet(K)
  BY Entries
<1>2. f \in [K -> Int] /\ g \in [K -> Int] /\ \A k \in K : f[k] <= g[k]
  BY OverrunType
<1>3. OverrunOf(s, K) = Total(f) /\ OverrunOf(t, K) = Total(g)
  BY DEF OverrunOf
<1> HIDE DEF f, g
<1> QED
  BY <1>1, <1>2, <1>3, TotalMonotone

\* How far usage runs over is a natural number.
LEMMA OverrunsNat ==
  ASSUME NEW s, TablesOK(s), NEW K \in SUBSET DOMAIN s.ledger,
         \A k \in K : s.ledger[k].credits \in Nat
  PROVE  OverrunOf(s, K) \in Nat
<1> DEFINE f == [k \in K |-> Overrun(s, k)]
<1>1. IsFiniteSet(K)
  BY Entries
<1>2. f \in [K -> Nat]
  BY OverrunType
<1>3. OverrunOf(s, K) = Total(f)
  BY DEF OverrunOf
<1> HIDE DEF f
<1> QED
  BY <1>1, <1>2, <1>3, TotalNat

\* How far some entries of t and one more run over, as far as those of s say.
OverrunsGrown(s, t, K, n) ==
  /\ IsFiniteSet(K) /\ n \notin K /\ Overrun(t, n) \in Int
  /\ \A k \in K : Overrun(t, k) \in Int /\ Overrun(t, k) = Overrun(s, k)
  => /\ OverrunOf(t, K) = OverrunOf(s, K)
     /\ OverrunOf(t, K \cup {n}) = OverrunOf(s, K) + Overrun(t, n)

\* How far some entries and one more run over.
LEMMA OverrunsOfMore == \A s, t, K, n : OverrunsGrown(s, t, K, n)
<1> SUFFICES ASSUME NEW s, NEW t, NEW K, IsFiniteSet(K), NEW n, n \notin K,
                    Overrun(t, n) \in Int,
                    \A k \in K : Overrun(t, k) \in Int /\ Overrun(t, k) = Overrun(s, k)
             PROVE  /\ OverrunOf(t, K) = OverrunOf(s, K)
                    /\ OverrunOf(t, K \cup {n}) = OverrunOf(s, K) + Overrun(t, n)
  BY DEF OverrunsGrown
<1> DEFINE g == [k \in K |-> Overrun(s, k)]
           h == [k \in K \cup {n} |-> Overrun(t, k)]
<1>1. g \in [K -> Int] /\ h \in [K \cup {n} -> Int]
  OBVIOUS
<1>2. h[n] = Overrun(t, n) /\ \A k \in K : h[k] = g[k]
  OBVIOUS
<1>3. [k \in K |-> Overrun(t, k)] = g
  OBVIOUS
<1>4. /\ OverrunOf(t, K) = Total(g) /\ OverrunOf(s, K) = Total(g)
      /\ OverrunOf(t, K \cup {n}) = Total(h)
  BY <1>3, Zenon DEF OverrunOf
<1> HIDE DEF g, h
<1>5. SumGrows(K, n, g, h)
  BY TotalAdds
<1>6. Total(h) = Total(g) + h[n]
  BY <1>1, <1>2, <1>5 DEF SumGrows
<1> QED
  BY <1>2, <1>4, <1>6

\* Their overruns, as far as the charges they had holds for did not change.
OverrunsAdded(s, t, e, K) ==
  /\ TablesOK(s) /\ TablesOK(t) /\ Appends(s, t, e) /\ K \in SUBSET DOMAIN s.ledger
  /\ \A k \in K : Overrun(t, k) = Overrun(s, k)
  => /\ OverrunOf(t, K) = OverrunOf(s, K)
     /\ OverrunOf(t, K \cup {Len(s.ledger) + 1})
          = OverrunOf(s, K) + Overrun(t, Len(s.ledger) + 1)

\* How far the entries a ledger had and one appended to it run over.
LEMMA OverrunsAppended == \A s, t, e, K : OverrunsAdded(s, t, e, K)
<1> SUFFICES ASSUME NEW s, NEW t, NEW e, NEW K PROVE OverrunsAdded(s, t, e, K)
  OBVIOUS
<1> SUFFICES ASSUME TablesOK(s), TablesOK(t), Appends(s, t, e),
                    K \in SUBSET DOMAIN s.ledger,
                    \A k \in K : Overrun(t, k) = Overrun(s, k)
             PROVE  /\ OverrunOf(t, K) = OverrunOf(s, K)
                    /\ OverrunOf(t, K \cup {Len(s.ledger) + 1})
                         = OverrunOf(s, K) + Overrun(t, Len(s.ledger) + 1)
  BY DEF OverrunsAdded
<1> DEFINE n == Len(s.ledger) + 1
<1>1. n \notin DOMAIN s.ledger /\ DOMAIN t.ledger = DOMAIN s.ledger \cup {n}
  BY Appended DEF TablesOK, Appends
<1>2. IsFiniteSet(K)
  BY Entries
<1> HIDE DEF n
<1>3. /\ n \notin K /\ Overrun(t, n) \in Int
      /\ \A k \in K : Overrun(t, k) \in Int
  BY <1>1, OverrunType
<1>4. /\ OverrunOf(t, K) = OverrunOf(s, K)
      /\ OverrunOf(t, K \cup {n}) = OverrunOf(s, K) + Overrun(t, n)
  <2>1. OverrunsGrown(s, t, K, n)
    BY OverrunsOfMore
  <2> QED
    BY <1>2, <1>3, <2>1 DEF OverrunsGrown
<1> QED
  BY <1>4 DEF n

\* Credits and overruns of the same ledger.
LEMMA LedgerSame ==
  ASSUME NEW s, NEW t, t.ledger = s.ledger
  PROVE  /\ \A K : Credits(t, K) = Credits(s, K)
         /\ \A c, since : UsageSince(t, c, since) = UsageSince(s, c, since)
         /\ \A c : SpentOf(t, c) = SpentOf(s, c)
BY Zenon DEF Credits, UsageSince, SpentOf

\* Sums of credits and of overruns are integers.
LEMMA LedgerSums ==
  \A s, K : Credits(s, K) \in Int /\ OverrunOf(s, K) \in Int
BY TotalType DEF Credits, OverrunOf

-----------------------------------------------------------------------------
\* What keeps the books balanced.

\* Card c of s may have n reserved: its balance and both limits leave room.
Allowed(s, c, n) ==
  /\ s.cards[c].used + n <= s.cards[c].total
  /\ Credits(s, UsageSince(s, c, StartOfDay(now))) + n <= DailyLimit[c]
  /\ Credits(s, UsageSince(s, c, StartOfMonth(now))) + n <= MonthlyLimit[c]

\* The usage of a window is usage, and of the card.
LEMMA WindowIsUsage ==
  ASSUME NEW s, TablesOK(s), Spent(s), NEW c, NEW since
  PROVE  /\ UsageSince(s, c, since) \in SUBSET DOMAIN s.ledger
         /\ \A k \in UsageSince(s, c, since) :
              s.ledger[k].kind = "usage" /\ s.ledger[k].credits \in Nat
         /\ OverrunOf(s, UsageSince(s, c, since)) \in Nat
<1>1. /\ UsageSince(s, c, since) \in SUBSET DOMAIN s.ledger
      /\ \A k \in UsageSince(s, c, since) :
           s.ledger[k].kind = "usage" /\ s.ledger[k].credits \in Nat
  BY DEF UsageSince, Spent
<1>2. OverrunOf(s, UsageSince(s, c, since)) \in Nat
  BY <1>1, OverrunsNat
<1> QED
  BY <1>1, <1>2

\* The numbers of a card.
LEMMA CardNumbers ==
  ASSUME NEW s, TablesOK(s), NEW c \in Cards
  PROVE  /\ s.cards[c].used \in Nat /\ s.cards[c].total \in Nat
         /\ s.cards[c].reserved \in Int
         /\ DailyLimit[c] \in Nat /\ MonthlyLimit[c] \in Nat
BY CardsAssumption DEF TablesOK, Card

\* Tables balance when their ledger stays, no charge runs over by less, and
\* what is reserved falls or is allowed.
LEMMA QuietBalanced ==
  ASSUME NEW s, NEW t, TablesOK(s), TablesOK(t), Balanced(s),
         t.ledger = s.ledger, t.unpaid = s.unpaid,
         \A c \in Cards : /\ t.cards[c].total = s.cards[c].total
                          /\ t.cards[c].used = s.cards[c].used,
         Accounted(t),
         ~ClientsReuseIds =>
           /\ \A k \in DOMAIN s.ledger :
                s.ledger[k].kind = "usage" => Overrun(s, k) <= Overrun(t, k)
           /\ \A c \in Cards : \/ t.cards[c].reserved <= s.cards[c].reserved
                               \/ Allowed(s, c, t.cards[c].reserved)
  PROVE  Balanced(t)
<1>1. Spent(t)
  <2>1. \A c : SpentOf(t, c) = SpentOf(s, c)
    BY LedgerSame
  <2> QED
    BY <2>1 DEF Balanced, Spent
<1>2. Evidenced(t)
  <2>1. \A c : UnpaidSum(t, c) = UnpaidSum(s, c)
    BY Zenon DEF UnpaidSum, UnpaidOf
  <2> QED
    BY <2>1 DEF Balanced, Evidenced, Debt
<1>3. ASSUME ~ClientsReuseIds, NEW c \in Cards
      PROVE  /\ t.cards[c].used + t.cards[c].reserved
                  <= t.cards[c].total + OverrunOf(t, UsageSince(t, c, 0))
             /\ WithinLimit(t, c, StartOfDay(now), DailyLimit[c])
             /\ WithinLimit(t, c, StartOfMonth(now), MonthlyLimit[c])
  <2>0. Spent(s)
    BY DEF Balanced
  <2>1. ASSUME NEW since
        PROVE  /\ UsageSince(t, c, since) = UsageSince(s, c, since)
               /\ Credits(t, UsageSince(t, c, since))
                    = Credits(s, UsageSince(s, c, since))
               /\ OverrunOf(s, UsageSince(s, c, since))
                    <= OverrunOf(t, UsageSince(t, c, since))
               /\ Credits(s, UsageSince(s, c, since)) \in Int
               /\ OverrunOf(s, UsageSince(s, c, since)) \in Nat
               /\ OverrunOf(t, UsageSince(t, c, since)) \in Int
    <3> DEFINE K == UsageSince(s, c, since)
    <3>1. UsageSince(t, c, since) = K /\ Credits(t, K) = Credits(s, K)
      BY LedgerSame
    <3>2. K \in SUBSET DOMAIN s.ledger /\ OverrunOf(s, K) \in Nat
          /\ \A k \in K : Overrun(s, k) <= Overrun(t, k)
      BY <1>3, <2>0, WindowIsUsage
    <3>3. K \in SUBSET DOMAIN t.ledger
      BY <3>2
    <3>4. Credits(s, K) \in Int /\ OverrunOf(t, K) \in Int
      BY LedgerSums
    <3> HIDE DEF K
    <3>5. OverrunOf(s, K) <= OverrunOf(t, K)
      BY <3>2, <3>3, OverrunsGrow
    <3>6. /\ Credits(t, UsageSince(t, c, since)) = Credits(t, K)
          /\ OverrunOf(t, UsageSince(t, c, since)) = OverrunOf(t, K)
      BY <3>1, Zenon
    <3> QED
      BY <3>1, <3>2, <3>4, <3>5, <3>6 DEF K
  <2>2. /\ s.cards[c].used + s.cards[c].reserved
             <= s.cards[c].total + OverrunOf(s, UsageSince(s, c, 0))
        /\ WithinLimit(s, c, StartOfDay(now), DailyLimit[c])
        /\ WithinLimit(s, c, StartOfMonth(now), MonthlyLimit[c])
    BY <1>3 DEF Balanced, Covered, Fair
  <2>3. \/ t.cards[c].reserved <= s.cards[c].reserved
        \/ Allowed(s, c, t.cards[c].reserved)
    BY <1>3
  <2>4. /\ t.cards[c].total = s.cards[c].total /\ t.cards[c].used = s.cards[c].used
        /\ s.cards[c].used \in Nat /\ s.cards[c].total \in Nat
        /\ s.cards[c].reserved \in Int /\ t.cards[c].reserved \in Int
        /\ DailyLimit[c] \in Nat /\ MonthlyLimit[c] \in Nat
    BY CardNumbers
  <2>5. t.cards[c].used + t.cards[c].reserved
          <= t.cards[c].total + OverrunOf(t, UsageSince(t, c, 0))
    BY <2>1, <2>2, <2>3, <2>4 DEF Allowed
  <2>6. WithinLimit(t, c, StartOfDay(now), DailyLimit[c])
    BY <2>1, <2>2, <2>3, <2>4 DEF Allowed, WithinLimit
  <2>7. WithinLimit(t, c, StartOfMonth(now), MonthlyLimit[c])
    BY <2>1, <2>2, <2>3, <2>4 DEF Allowed, WithinLimit
  <2> QED
    BY <2>5, <2>6, <2>7
<1> QED
  BY <1>1, <1>2, <1>3 DEF Balanced, Covered, Fair

\* No charge runs over by less when the records settled are the same, or fewer,
\* or new ones held nothing.
LEMMA OverrunsStand ==
  ASSUME NEW s, NEW t, TablesOK(s), TablesOK(t), Spent(s), t.ledger = s.ledger,
         \A i \in DOMAIN t.reservations :
           t.reservations[i].state = "settled" =>
             \/ t.reservations[i].amount = 0
             \/ i \in DOMAIN s.reservations /\ t.reservations[i] = s.reservations[i]
  PROVE  \A k \in DOMAIN s.ledger :
           s.ledger[k].kind = "usage" => Overrun(s, k) <= Overrun(t, k)
<1> TAKE k \in DOMAIN s.ledger
<1> HAVE s.ledger[k].kind = "usage"
<1> DEFINE i == s.ledger[k].ref
           n == s.ledger[k].credits
<1>1. n \in Nat /\ Overrun(s, k) <= n /\ Overrun(s, k) \in Int
  BY OverrunType DEF Spent
<1>2. Overrun(t, k) = IF i \in DOMAIN t.reservations /\ t.reservations[i].state = "settled"
                      THEN Positive(n - t.reservations[i].amount) ELSE n
  BY DEF Overrun
<1>3. CASE ~(i \in DOMAIN t.reservations /\ t.reservations[i].state = "settled")
  BY <1>1, <1>2, <1>3
<1>4. CASE /\ i \in DOMAIN t.reservations /\ t.reservations[i].state = "settled"
           /\ t.reservations[i].amount = 0
  BY <1>1, <1>2, <1>4 DEF Positive
<1>5. CASE /\ i \in DOMAIN t.reservations /\ t.reservations[i].state = "settled"
           /\ i \in DOMAIN s.reservations /\ t.reservations[i] = s.reservations[i]
  <2>1. Overrun(s, k) = Positive(n - s.reservations[i].amount)
    BY <1>5 DEF Overrun
  <2>2. Overrun(t, k) = Overrun(s, k)
    BY <1>2, <1>5, <2>1
  <2> QED
    BY <1>1, <2>2
<1> QED
  BY <1>3, <1>4, <1>5

\* What check_quota and check_can_reserve leave room for is allowed.
LEMMA RoomIsAllowed ==
  ASSUME NEW s, TablesOK(s), Accounted(s), NEW c \in Cards, NEW extra \in Nat,
         WithinQuota(s, c, extra), CanReserve(s.cards[c], c, extra)
  PROVE  extra = 0 \/ Allowed(s, c, s.cards[c].reserved + extra)
<1> SUFFICES ASSUME extra > 0 PROVE Allowed(s, c, s.cards[c].reserved + extra)
  OBVIOUS
<1>1. /\ s.cards[c].reserved \in Int /\ s.cards[c].used \in Nat
      /\ s.cards[c].total \in Nat
      /\ DailyLimit[c] \in Nat /\ MonthlyLimit[c] \in Nat
  BY CardNumbers
<1>2. s.cards[c].used + (s.cards[c].reserved + extra) <= s.cards[c].total
  BY <1>1 DEF CanReserve, Available, Positive
<1>3. HeldCredits(s, c) = s.cards[c].reserved
  BY DEF Accounted
<1>4. /\ Credits(s, UsageSince(s, c, StartOfDay(now))) \in Int
      /\ Credits(s, UsageSince(s, c, StartOfMonth(now))) \in Int
  BY LedgerSums
<1>5. /\ Credits(s, UsageSince(s, c, StartOfDay(now)))
           + (s.cards[c].reserved + extra) <= DailyLimit[c]
      /\ Credits(s, UsageSince(s, c, StartOfMonth(now)))
           + (s.cards[c].reserved + extra) <= MonthlyLimit[c]
  BY <1>1, <1>3, <1>4 DEF WithinQuota
<1> QED
  BY <1>2, <1>5 DEF Allowed

-----------------------------------------------------------------------------
\* What the operations make of balanced tables.

\* A new hold, which the card's quota and balance left room for.
LEMMA HoldBalanced ==
  ASSUME NEW s, Sound(s), Balanced(s), NEW i \in Invocations, NEW amount \in HoldAmounts,
         now \in Nat, ~Taken(s, i), Sound(Hold(s, i, amount)),
         WithinQuota(s, CardOf[i], amount),
         CanReserve(s.cards[CardOf[i]], CardOf[i], amount)
  PROVE  Balanced(Hold(s, i, amount))
<1> DEFINE t == Hold(s, i, amount)
           c == CardOf[i]
           r == [state |-> "held", amount |-> amount, created |-> now,
                 expires |-> now + Ttl]
<1>1. /\ c \in Cards /\ amount \in Nat /\ r \in Reservation
      /\ TablesOK(s) /\ TablesOK(t) /\ Accounted(s) /\ Spent(s)
  BY IdsAssumption, AmountsAssumption, TimesAssumption DEF Reservation, Sound, Balanced
<1>2. /\ t.cards = [s.cards EXCEPT ![c].reserved = @ + amount]
      /\ t.reservations = Put(s.reservations, i, r)
      /\ t.ledger = s.ledger /\ t.unpaid = s.unpaid
  BY <1>1 DEF TablesOK, IsSnapshot, Hold
<1>a. r.state = "held" /\ r.amount = amount
  OBVIOUS
<1> HIDE DEF t, r
<1>3. /\ DOMAIN t.reservations = DOMAIN s.reservations \cup {i}
      /\ t.reservations[i] = r
      /\ \A j \in DOMAIN s.reservations \ {i} : t.reservations[j] = s.reservations[j]
  BY <1>2 DEF Put
<1>4. \A d \in Cards : /\ t.cards[d].total = s.cards[d].total
                       /\ t.cards[d].used = s.cards[d].used
                       /\ t.cards[d].reserved =
                            s.cards[d].reserved + (IF d = c THEN amount ELSE 0)
  <2> DEFINE f == s.cards
  <2>1. f \in [Cards -> Card] /\ t.cards = [f EXCEPT ![c].reserved = @ + amount]
    BY <1>1, <1>2 DEF TablesOK
  <2> HIDE DEF f
  <2>2. \A d \in Cards : /\ t.cards[d].total = f[d].total
                         /\ t.cards[d].used = f[d].used
                         /\ t.cards[d].reserved =
                              f[d].reserved + (IF d = c THEN amount ELSE 0)
    BY <1>1, <2>1 DEF Card
  <2> QED
    BY <2>2 DEF f
<1>5. i \notin HeldIds(s) /\ HeldIds(t) = HeldIds(s) \cup {i}
  BY <1>3, <1>a DEF HeldIds, Taken
<1>6. Accounted(t)
  <2>1. \A j \in HeldIds(s) : t.reservations[j].amount = s.reservations[j].amount
    BY <1>3, <1>5 DEF HeldIds
  <2>2. /\ IsFiniteSet(HeldIds(t))
        /\ \A d : HeldCredits(t, d) =
             HeldCredits(s, d) + (IF d = CardOf[i] THEN t.reservations[i].amount ELSE 0)
    <3>1. OneMore(s, t, i)
      BY <1>1, <1>5, <2>1 DEF Accounted, OneMore
    <3> QED
      BY <3>1, HoldMore
  <2> QED
    BY <1>1, <1>3, <1>4, <1>a, <2>2 DEF Accounted
<1>7. \A j \in DOMAIN t.reservations :
        t.reservations[j].state = "settled" =>
          j \in DOMAIN s.reservations /\ t.reservations[j] = s.reservations[j]
  BY <1>3, <1>a
<1>8. \A k \in DOMAIN s.ledger :
        s.ledger[k].kind = "usage" => Overrun(s, k) <= Overrun(t, k)
  BY <1>1, <1>2, <1>7, OverrunsStand
<1>9. ASSUME NEW d \in Cards
      PROVE  \/ t.cards[d].reserved <= s.cards[d].reserved
             \/ Allowed(s, d, t.cards[d].reserved)
  <2>1. t.cards[d].reserved = s.cards[d].reserved + (IF d = c THEN amount ELSE 0)
    BY <1>4
  <2>2. s.cards[d].reserved \in Int
    BY <1>1, CardNumbers
  <2>3. CASE d # c \/ amount = 0
    BY <1>1, <2>1, <2>2, <2>3
  <2>4. CASE d = c /\ amount # 0
    <3>1. Allowed(s, c, s.cards[c].reserved + amount)
      BY <1>1, <2>4, RoomIsAllowed
    <3> QED
      BY <2>1, <2>4, <3>1
  <2> QED
    BY <2>3, <2>4
<1>10. \A d \in Cards : /\ t.cards[d].total = s.cards[d].total
                        /\ t.cards[d].used = s.cards[d].used
  BY <1>4
<1>11. Balanced(t)
  BY <1>1, <1>2, <1>6, <1>8, <1>9, <1>10, QuietBalanced
<1> QED
  BY <1>11 DEF t

\* A hold raised by what the card's quota and balance left room for.
LEMMA ExtendedBalanced ==
  ASSUME NEW s, Sound(s), Balanced(s), NEW i \in DOMAIN s.reservations,
         NEW amount \in Nat, s.reservations[i].state = "held",
         Sound(Extended(s, i, amount)),
         amount >= s.reservations[i].amount,
         WithinQuota(s, CardOf[i], amount - s.reservations[i].amount),
         CanReserve(s.cards[CardOf[i]], CardOf[i], amount - s.reservations[i].amount)
  PROVE  Balanced(Extended(s, i, amount))
<1> DEFINE t == Extended(s, i, amount)
           c == CardOf[i]
           extra == amount - s.reservations[i].amount
<1>1. /\ c \in Cards /\ extra \in Nat /\ s.reservations[i].amount \in Nat
      /\ TablesOK(s) /\ TablesOK(t) /\ Accounted(s) /\ Spent(s)
  <2>1. TablesOK(s) /\ TablesOK(t) /\ Accounted(s) /\ Spent(s)
    BY DEF Sound, Balanced
  <2>2. i \in Invocations /\ s.reservations[i].amount \in Nat
    BY <2>1 DEF TablesOK, Reservation
  <2> QED
    BY <2>1, <2>2, IdsAssumption
<1>2. /\ t.cards = [s.cards EXCEPT ![c].reserved = @ + extra]
      /\ t.reservations = [s.reservations EXCEPT ![i].amount = amount]
      /\ t.ledger = s.ledger /\ t.unpaid = s.unpaid
  BY <1>1 DEF TablesOK, IsSnapshot, Extended
<1>b. WithinQuota(s, c, extra) /\ CanReserve(s.cards[c], c, extra)
      /\ amount = s.reservations[i].amount + extra
  BY <1>1
<1> HIDE DEF t, extra
<1>3. /\ DOMAIN t.reservations = DOMAIN s.reservations
      /\ t.reservations[i].amount = amount
      /\ \A j \in DOMAIN s.reservations :
           t.reservations[j].state = s.reservations[j].state
      /\ \A j \in DOMAIN s.reservations \ {i} : t.reservations[j] = s.reservations[j]
  <2>1. s.reservations \in [DOMAIN s.reservations -> Reservation]
    BY <1>1 DEF TablesOK
  <2> QED
    BY <1>2, <2>1 DEF Reservation
<1>4. \A d \in Cards : /\ t.cards[d].total = s.cards[d].total
                       /\ t.cards[d].used = s.cards[d].used
                       /\ t.cards[d].reserved =
                            s.cards[d].reserved + (IF d = c THEN extra ELSE 0)
  <2> DEFINE f == s.cards
  <2>1. f \in [Cards -> Card] /\ t.cards = [f EXCEPT ![c].reserved = @ + extra]
    BY <1>1, <1>2 DEF TablesOK
  <2> HIDE DEF f
  <2>2. \A d \in Cards : /\ t.cards[d].total = f[d].total
                         /\ t.cards[d].used = f[d].used
                         /\ t.cards[d].reserved =
                              f[d].reserved + (IF d = c THEN extra ELSE 0)
    BY <1>1, <2>1 DEF Card
  <2> QED
    BY <2>2 DEF f
<1>5. HeldIds(t) = HeldIds(s) /\ i \in HeldIds(s) /\ IsFiniteSet(HeldIds(s))
  BY <1>1, <1>3 DEF HeldIds, Accounted
<1>6. ASSUME NEW d
      PROVE  HeldCredits(t, d) = HeldCredits(s, d) + (IF d = c THEN extra ELSE 0)
  <2> DEFINE K == HeldOn(s, d)
  <2>1. /\ K = {j \in HeldIds(s) : CardOf[j] = d} /\ HeldOn(t, d) = K
        /\ K \in SUBSET DOMAIN s.reservations /\ IsFiniteSet(K)
    BY <1>5, HeldOnCard
  <2> HIDE DEF K
  <2>2. HeldCredits(s, d) = AmountOf(s, K) /\ HeldCredits(t, d) = AmountOf(t, K)
    <3>1. AmountOf(t, HeldOn(t, d)) = AmountOf(t, K)
      BY <2>1, Zenon
    <3> QED
      BY <3>1, Zenon DEF HeldCredits, K
  <2>3. AmountOf(s, K) \in Int /\ AmountOf(s, K \ {i}) \in Int
    BY AmountOfType
  <2>4. AmountOf(t, K \ {i}) = AmountOf(s, K \ {i})
    <3>1. \A j \in K \ {i} : t.reservations[j].amount = s.reservations[j].amount
      BY <1>3, <2>1
    <3> QED
      BY <3>1, AmountsSame
  <2>5. CASE d = c
    <3>1. {i} \in SUBSET K
      BY <1>5, <2>1, <2>5
    <3>2. AmountOf(s, K) = AmountOf(s, {i}) + AmountOf(s, K \ {i})
      BY <1>1, <2>1, <3>1, AmountsSplit
    <3>3. AmountOf(t, K) = AmountOf(t, {i}) + AmountOf(t, K \ {i})
      <4>1. K \in SUBSET DOMAIN t.reservations
        BY <1>3, <2>1
      <4> QED
        BY <1>1, <2>1, <3>1, <4>1, AmountsSplit
    <3>4. AmountOf(s, {i}) = s.reservations[i].amount /\ AmountOf(t, {i}) = amount
      BY <1>1, <1>3, AmountOfOne
    <3> QED
      BY <1>1, <1>b, <2>2, <2>3, <2>4, <2>5, <3>2, <3>3, <3>4
  <2>6. CASE d # c
    <3>1. \A j \in K : t.reservations[j].amount = s.reservations[j].amount
      BY <1>3, <2>1, <2>6
    <3>2. AmountOf(t, K) = AmountOf(s, K)
      BY <3>1, AmountsSame
    <3> QED
      BY <2>2, <2>3, <2>6, <3>2
  <2> QED
    BY <2>5, <2>6
<1>7. Accounted(t)
  BY <1>1, <1>4, <1>5, <1>6 DEF Accounted
<1>8. \A j \in DOMAIN t.reservations :
        t.reservations[j].state = "settled" =>
          j \in DOMAIN s.reservations /\ t.reservations[j] = s.reservations[j]
  BY <1>3, <1>5 DEF HeldIds
<1>9. \A k \in DOMAIN s.ledger :
        s.ledger[k].kind = "usage" => Overrun(s, k) <= Overrun(t, k)
  BY <1>1, <1>2, <1>8, OverrunsStand
<1>10. ASSUME NEW d \in Cards
       PROVE  \/ t.cards[d].reserved <= s.cards[d].reserved
              \/ Allowed(s, d, t.cards[d].reserved)
  <2>1. t.cards[d].reserved = s.cards[d].reserved + (IF d = c THEN extra ELSE 0)
    BY <1>4
  <2>2. s.cards[d].reserved \in Int
    BY <1>1, CardNumbers
  <2>3. CASE d # c \/ extra = 0
    BY <1>1, <2>1, <2>2, <2>3
  <2>4. CASE d = c /\ extra # 0
    <3>1. Allowed(s, c, s.cards[c].reserved + extra)
      BY <1>1, <1>b, <2>4, RoomIsAllowed
    <3> QED
      BY <2>1, <2>4, <3>1
  <2> QED
    BY <2>3, <2>4
<1>11. \A d \in Cards : /\ t.cards[d].total = s.cards[d].total
                        /\ t.cards[d].used = s.cards[d].used
  BY <1>4
<1>12. Balanced(t)
  BY <1>1, <1>2, <1>7, <1>9, <1>10, <1>11, QuietBalanced
<1> QED
  BY <1>12 DEF t

\* Holds returned, whichever they are.
LEMMA ReturnedBalanced ==
  ASSUME NEW s, Sound(s), Balanced(s), NEW ids \in SUBSET HeldIds(s),
         Sound(Returned(s, ids))
  PROVE  Balanced(Returned(s, ids))
<1> DEFINE t == Returned(s, ids)
           Mine(c) == {i \in ids : CardOf[i] = c}
<1>1. TablesOK(s) /\ TablesOK(t) /\ Accounted(s) /\ Spent(s) /\ IsFiniteSet(HeldIds(s))
  BY DEF Sound, Balanced, Accounted
<1>2. /\ t.cards = Refunded(s, ids) /\ t.reservations = Closed(s, ids)
      /\ t.ledger = s.ledger /\ t.unpaid = s.unpaid
  BY <1>1 DEF TablesOK, IsSnapshot, Returned
<1> HIDE DEF t
<1>3. /\ DOMAIN t.reservations = DOMAIN s.reservations
      /\ \A j \in DOMAIN s.reservations :
           IF j \in ids THEN t.reservations[j].state = "released"
           ELSE t.reservations[j] = s.reservations[j]
  BY <1>1, <1>2, ClosedReservations
<1>4. \A c \in Cards : /\ t.cards[c].total = s.cards[c].total
                       /\ t.cards[c].used = s.cards[c].used
  BY <1>1, <1>2, RefundedCards
<1>5. \A c \in Cards : t.cards[c].reserved = s.cards[c].reserved - AmountOf(s, Mine(c))
  <2> TAKE c \in Cards
  <2> DEFINE f == s.cards
             n == AmountOf(s, Mine(c))
  <2>1. f \in [Cards -> Card] /\ n \in Int
    BY <1>1, AmountOfType DEF TablesOK
  <2>2. t.cards[c] = [f[c] EXCEPT !.reserved = @ - n]
    BY <1>2 DEF Refunded
  <2> HIDE DEF f, n
  <2>3. t.cards[c].reserved = f[c].reserved - n
    BY <2>1, <2>2 DEF Card
  <2> QED
    BY <2>3 DEF f, n
<1>6. HeldIds(t) = HeldIds(s) \ ids
  BY <1>3 DEF HeldIds
<1>7. IsFiniteSet(HeldIds(t))
  BY <1>1, <1>6, FS_Subset
<1>8. ASSUME NEW c \in Cards
      PROVE  /\ HeldCredits(t, c) = HeldCredits(s, c) - AmountOf(s, Mine(c))
             /\ AmountOf(s, Mine(c)) \in Nat
  <2> DEFINE K == HeldOn(s, c)
             M == Mine(c)
  <2>1. /\ K = {j \in HeldIds(s) : CardOf[j] = c}
        /\ K \in SUBSET DOMAIN s.reservations /\ IsFiniteSet(K)
    BY <1>1, HeldOnCard
  <2>2. HeldOn(t, c) = {j \in HeldIds(t) : CardOf[j] = c}
    BY <1>7, HeldOnCard
  <2>3. M \in SUBSET K /\ HeldOn(t, c) = K \ M
    BY <1>6, <2>1, <2>2
  <2>4. /\ HeldCredits(s, c) = AmountOf(s, K)
        /\ HeldCredits(t, c) = AmountOf(t, K \ M)
    BY <2>3, Zenon DEF HeldCredits
  <2> HIDE DEF K, M
  <2>5. AmountOf(t, K \ M) = AmountOf(s, K \ M)
    <3>1. \A j \in K \ M : j \in DOMAIN s.reservations /\ j \notin ids
      BY <2>1 DEF M
    <3>2. \A j \in K \ M : t.reservations[j].amount = s.reservations[j].amount
      BY <1>3, <3>1
    <3> QED
      BY <3>2, AmountsSame
  <2>6. AmountOf(s, K) = AmountOf(s, M) + AmountOf(s, K \ M)
    BY <1>1, <2>1, <2>3, AmountsSplit
  <2>7. AmountOf(s, M) \in Nat
    <3>1. M \in SUBSET DOMAIN s.reservations /\ IsFiniteSet(M)
      BY <2>1, <2>3, FS_Subset
    <3>2. M \in SUBSET M
      OBVIOUS
    <3> QED
      BY <1>1, <3>1, <3>2, AmountsSplit
  <2>8. AmountOf(s, K \ M) \in Int
    BY AmountOfType
  <2> QED
    BY <2>4, <2>5, <2>6, <2>7, <2>8 DEF M
<1>9. Accounted(t)
  BY <1>1, <1>5, <1>7, <1>8 DEF Accounted
<1>10. \A c \in Cards : t.cards[c].reserved <= s.cards[c].reserved
  <2> TAKE c \in Cards
  <2>1. s.cards[c].reserved \in Int
    BY <1>1, CardNumbers
  <2> DEFINE n == AmountOf(s, Mine(c))
  <2>2. t.cards[c].reserved = s.cards[c].reserved - n /\ n \in Nat
    BY <1>5, <1>8
  <2> HIDE DEF n
  <2> QED
    BY <2>1, <2>2
<1>11. \A k \in DOMAIN s.ledger :
         s.ledger[k].kind = "usage" => Overrun(s, k) <= Overrun(t, k)
  <2>1. \A j \in DOMAIN t.reservations :
          t.reservations[j].state = "settled" =>
            j \in DOMAIN s.reservations /\ t.reservations[j] = s.reservations[j]
    BY <1>3
  <2> QED
    BY <1>1, <1>2, <2>1, OverrunsStand
<1>12. Balanced(t)
  BY <1>1, <1>2, <1>4, <1>9, <1>10, <1>11, QuietBalanced
<1> QED
  BY <1>12 DEF t

\* Records forgotten: none of them holds anything.
LEMMA ForgottenBalanced ==
  ASSUME NEW s, Sound(s), Balanced(s), Sound(Forgotten(s))
  PROVE  Balanced(Forgotten(s))
<1> DEFINE t == Forgotten(s)
<1>1. TablesOK(s) /\ TablesOK(t) /\ Accounted(s) /\ Spent(s) /\ IsFiniteSet(HeldIds(s))
  BY DEF Sound, Balanced, Accounted
<1>2. /\ t.cards = s.cards
      /\ t.reservations = Without(s.reservations, Forgettable(s))
      /\ t.ledger = s.ledger /\ t.unpaid = s.unpaid
  BY <1>1 DEF TablesOK, IsSnapshot, Forgotten
<1> HIDE DEF t
<1>3. /\ DOMAIN t.reservations = DOMAIN s.reservations \ Forgettable(s)
      /\ \A j \in DOMAIN t.reservations : t.reservations[j] = s.reservations[j]
  BY <1>2 DEF Without, Restrict
<1>4. \A j \in Forgettable(s) : s.reservations[j].state # "held"
  BY DEF Forgettable
<1>5. HeldIds(t) = HeldIds(s)
  BY <1>3, <1>4 DEF HeldIds
<1>6. \A j \in HeldIds(s) : t.reservations[j].amount = s.reservations[j].amount
  BY <1>3, <1>5 DEF HeldIds
<1>7. IsFiniteSet(HeldIds(t)) /\ \A c : HeldCredits(t, c) = HeldCredits(s, c)
  BY <1>1, <1>5, <1>6, HoldsSame
<1>8. Accounted(t)
  BY <1>1, <1>2, <1>7 DEF Accounted
<1>9. \A k \in DOMAIN s.ledger :
        s.ledger[k].kind = "usage" => Overrun(s, k) <= Overrun(t, k)
  <2>1. \A j \in DOMAIN t.reservations :
          j \in DOMAIN s.reservations /\ t.reservations[j] = s.reservations[j]
    BY <1>3
  <2> QED
    BY <1>1, <1>2, <2>1, OverrunsStand
<1>10. \A c \in Cards : t.cards[c].reserved <= s.cards[c].reserved
  BY <1>1, <1>2, CardNumbers
<1>11. Balanced(t)
  BY <1>1, <1>2, <1>8, <1>9, <1>10, QuietBalanced
<1> QED
  BY <1>11 DEF t

\* What touches neither the records, the ledger nor the cards' credit.
LEMMA SameBooks ==
  ASSUME NEW s, NEW t, TablesOK(s), TablesOK(t), Balanced(s),
         t.reservations = s.reservations, t.ledger = s.ledger, t.unpaid = s.unpaid,
         \A c \in Cards : /\ t.cards[c].total = s.cards[c].total
                          /\ t.cards[c].used = s.cards[c].used
                          /\ t.cards[c].reserved = s.cards[c].reserved
  PROVE  Balanced(t)
<1>1. Accounted(s) /\ Spent(s) /\ IsFiniteSet(HeldIds(s))
  BY DEF Balanced, Accounted
<1>2. HeldIds(t) = HeldIds(s)
  BY DEF HeldIds
<1>3. IsFiniteSet(HeldIds(t)) /\ \A c : HeldCredits(t, c) = HeldCredits(s, c)
  BY <1>1, <1>2, HoldsSame
<1>4. Accounted(t)
  BY <1>1, <1>3 DEF Accounted
<1>5. \A k \in DOMAIN s.ledger :
        s.ledger[k].kind = "usage" => Overrun(s, k) <= Overrun(t, k)
  BY <1>1, OverrunsStand
<1>6. \A c \in Cards : t.cards[c].reserved <= s.cards[c].reserved
  BY CardNumbers
<1> QED
  BY <1>4, <1>5, <1>6, QuietBalanced

\* An intent, a status, an archived entry: no credit moves.
LEMMA QuietOperations ==
  ASSUME NEW s, Sound(s), Balanced(s)
  PROVE  /\ \A i, bill : Sound(Intended(s, i, bill)) => Balanced(Intended(s, i, bill))
         /\ \A c \in Cards : \A status, frozen :
              Sound(WithStatus(s, c, status, frozen)) =>
                Balanced(WithStatus(s, c, status, frozen))
         /\ \A before : Sound(Archived(s, before)) => Balanced(Archived(s, before))
<1>1. TablesOK(s)
  BY DEF Sound
<1>2. ASSUME NEW i, NEW bill, Sound(Intended(s, i, bill))
      PROVE  Balanced(Intended(s, i, bill))
  <2> DEFINE t == Intended(s, i, bill)
  <2>1. /\ t.reservations = s.reservations /\ t.ledger = s.ledger
        /\ t.unpaid = s.unpaid /\ t.cards = s.cards /\ TablesOK(t)
    BY <1>1, <1>2 DEF TablesOK, IsSnapshot, Intended, Sound
  <2> HIDE DEF t
  <2>2. Balanced(t)
    BY <1>1, <2>1, SameBooks
  <2> QED
    BY <2>2 DEF t
<1>3. ASSUME NEW c \in Cards, NEW status, NEW frozen, Sound(WithStatus(s, c, status, frozen))
      PROVE  Balanced(WithStatus(s, c, status, frozen))
  <2> DEFINE t == WithStatus(s, c, status, frozen)
             f == s.cards
             g == [f EXCEPT ![c].status = status]
  <2>1. /\ t.reservations = s.reservations /\ t.ledger = s.ledger
        /\ t.unpaid = s.unpaid /\ TablesOK(t)
        /\ t.cards = [g EXCEPT ![c].frozen = frozen]
        /\ f \in [Cards -> Card]
    BY <1>1, <1>3 DEF TablesOK, IsSnapshot, WithStatus, Sound
  <2> HIDE DEF t, f
  <2>2. \A d \in Cards : /\ t.cards[d].total = f[d].total
                         /\ t.cards[d].used = f[d].used
                         /\ t.cards[d].reserved = f[d].reserved
    BY <2>1 DEF Card
  <2>3. Balanced(t)
    BY <1>1, <2>1, <2>2, SameBooks DEF f
  <2> QED
    BY <2>3 DEF t
<1>4. ASSUME NEW before, Sound(Archived(s, before))
      PROVE  Balanced(Archived(s, before))
  <2> DEFINE t == Archived(s, before)
  <2>1. /\ t.reservations = s.reservations /\ t.ledger = s.ledger
        /\ t.unpaid = s.unpaid /\ t.cards = s.cards /\ TablesOK(t)
    BY <1>1, <1>4 DEF TablesOK, IsSnapshot, Archived, Sound
  <2> HIDE DEF t
  <2>2. Balanced(t)
    BY <1>1, <2>1, SameBooks
  <2> QED
    BY <2>2 DEF t
<1> QED
  BY <1>2, <1>3, <1>4

\* The records a start makes anew hold nothing.
LEMMA RestoredHoldNothing ==
  ASSUME NEW s, NEW i \in DOMAIN RestoredRecords(s), i \notin DOMAIN s.reservations
  PROVE  RestoredRecords(s)[i].amount = 0
BY DEF RestoredRecords, SettledRecord

\* What a start reads: the holds it keeps, summed again.
LEMMA ImportBalanced ==
  ASSUME NEW s, Sound(s), Balanced(s), Sound(Import(s)), SameMoney(Import(s), s)
  PROVE  Balanced(Import(s))
<1> DEFINE u == [s EXCEPT !.reservations = RestoredRecords(s)]
           t == Import(s)
<1>1. TablesOK(s) /\ TablesOK(t) /\ Accounted(s) /\ Spent(s) /\ IsFiniteSet(HeldIds(s))
  BY DEF Sound, Balanced, Accounted
<1>2. /\ u.cards = s.cards /\ u.reservations = RestoredRecords(s) /\ IsSnapshot(u)
  BY <1>1 DEF TablesOK, IsSnapshot
<1>3. t = [u EXCEPT !.cards = Resummed(u)]
  BY DEF Import
<1>a. /\ t.ledger = s.ledger /\ t.unpaid = s.unpaid
      /\ \A c \in Cards : /\ t.cards[c].total = s.cards[c].total
                          /\ t.cards[c].used = s.cards[c].used
  BY DEF SameMoney
<1> HIDE DEF t, u
<1>4. t.cards = Resummed(u) /\ t.reservations = RestoredRecords(s)
      /\ t.reservations = u.reservations
  BY <1>2, <1>3 DEF IsSnapshot
<1>5. \A i \in DOMAIN t.reservations :
        \/ i \in DOMAIN s.reservations /\ t.reservations[i] = s.reservations[i]
        \/ /\ i \notin DOMAIN s.reservations
           /\ t.reservations[i].state = "settled" /\ t.reservations[i].amount = 0
  <2>1. TablesOK(s)
    BY <1>1
  <2>2. \A i \in DOMAIN RestoredRecords(s) :
          \/ /\ i \in DOMAIN s.reservations
             /\ RestoredRecords(s)[i] = s.reservations[i]
          \/ /\ i \notin DOMAIN s.reservations
             /\ RestoredRecords(s)[i].state = "settled"
    BY <2>1, RestoredRecordsType
  <2>3. \A i \in DOMAIN RestoredRecords(s) :
          i \notin DOMAIN s.reservations => RestoredRecords(s)[i].amount = 0
    BY RestoredHoldNothing
  <2> QED
    BY <1>4, <2>2, <2>3
<1>6. /\ HeldIds(t) \in SUBSET HeldIds(s)
      /\ \A i \in HeldIds(t) : t.reservations[i].amount = s.reservations[i].amount
  BY <1>5 DEF HeldIds
<1>7. IsFiniteSet(HeldIds(t))
  BY <1>1, <1>6, FS_Subset
<1>8. \A c : HeldCredits(u, c) = HeldCredits(t, c)
  <2>1. HeldIds(u) = HeldIds(t)
    BY <1>4 DEF HeldIds
  <2> QED
    BY <1>4, <1>7, <2>1, HoldsSame
<1>9. \A c \in Cards : t.cards[c].reserved = HeldCredits(t, c)
  <2> TAKE c \in Cards
  <2> DEFINE f == s.cards
             n == HeldCredits(u, c)
  <2>1. t.cards[c] = [f[c] EXCEPT !.reserved = n] /\ f \in [Cards -> Card]
    BY <1>1, <1>2, <1>4 DEF Resummed, TablesOK
  <2> HIDE DEF f, n
  <2>2. t.cards[c].reserved = n
    BY <2>1 DEF Card
  <2> QED
    BY <1>8, <2>2 DEF n
<1>10. Accounted(t)
  BY <1>7, <1>9 DEF Accounted
<1>11. \A c \in Cards : t.cards[c].reserved <= s.cards[c].reserved
  <2> TAKE c \in Cards
  <2> DEFINE K == HeldOn(s, c)
             M == HeldOn(t, c)
  <2>1. /\ K = {j \in HeldIds(s) : CardOf[j] = c}
        /\ K \in SUBSET DOMAIN s.reservations /\ IsFiniteSet(K)
    BY <1>1, HeldOnCard
  <2>2. M = {j \in HeldIds(t) : CardOf[j] = c}
    BY <1>7, HeldOnCard
  <2>3. M \in SUBSET K
    BY <1>6, <2>1, <2>2
  <2>4. s.cards[c].reserved = AmountOf(s, K) /\ t.cards[c].reserved = AmountOf(t, M)
    BY <1>1, <1>9 DEF Accounted, HeldCredits
  <2> HIDE DEF K, M
  <2>5. AmountOf(t, M) = AmountOf(s, M)
    BY <1>6, <2>2, AmountsSame
  <2>6. AmountOf(s, K) = AmountOf(s, M) + AmountOf(s, K \ M)
    BY <1>1, <2>1, <2>3, AmountsSplit
  <2>7. AmountOf(s, K \ M) \in Nat
    <3> DEFINE R == K \ M
    <3>1. R \in SUBSET DOMAIN s.reservations /\ IsFiniteSet(R) /\ R \in SUBSET R
      BY <2>1, FS_Subset
    <3> HIDE DEF R
    <3>2. AmountOf(s, R) \in Nat
      BY <1>1, <3>1, AmountsSplit
    <3> QED
      BY <3>2 DEF R
  <2>8. AmountOf(s, M) \in Int
    BY AmountOfType
  <2> QED
    BY <2>4, <2>5, <2>6, <2>7, <2>8
<1>12. \A k \in DOMAIN s.ledger :
         s.ledger[k].kind = "usage" => Overrun(s, k) <= Overrun(t, k)
  BY <1>1, <1>a, <1>5, OverrunsStand
<1>13. Balanced(t)
  BY <1>1, <1>a, <1>10, <1>11, <1>12, QuietBalanced
<1> QED
  BY <1>13 DEF t

\* The charges of a card since a time, when one is appended.
WindowAdded(s, t, e, c, since) ==
  TablesOK(s) /\ Appends(s, t, e) =>
    UsageSince(t, c, since) =
      IF e.kind = "usage" /\ e.card = c /\ e.ts >= since
      THEN UsageSince(s, c, since) \cup {Len(s.ledger) + 1}
      ELSE UsageSince(s, c, since)

\* A charge at the end of the ledger, in the windows it falls in.
LEMMA WindowAppended == \A s, t, e, c, since : WindowAdded(s, t, e, c, since)
<1> SUFFICES ASSUME NEW s, NEW t, NEW e, NEW c, NEW since PROVE WindowAdded(s, t, e, c, since)
  OBVIOUS
<1> SUFFICES ASSUME TablesOK(s), Appends(s, t, e)
             PROVE  UsageSince(t, c, since) =
                      IF e.kind = "usage" /\ e.card = c /\ e.ts >= since
                      THEN UsageSince(s, c, since) \cup {Len(s.ledger) + 1}
                      ELSE UsageSince(s, c, since)
  BY DEF WindowAdded
<1> DEFINE n == Len(s.ledger) + 1
<1>1. /\ n \notin DOMAIN s.ledger /\ t.ledger[n] = e
      /\ DOMAIN t.ledger = DOMAIN s.ledger \cup {n}
      /\ \A k \in DOMAIN s.ledger : t.ledger[k] = s.ledger[k]
  BY Appended DEF TablesOK, Appends
<1> HIDE DEF n
<1>2. CASE e.kind = "usage" /\ e.card = c /\ e.ts >= since
  <2>1. UsageSince(t, c, since) = UsageSince(s, c, since) \cup {n}
    BY <1>1, <1>2 DEF UsageSince
  <2> QED
    BY <1>2, <2>1 DEF n
<1>3. CASE ~(e.kind = "usage" /\ e.card = c /\ e.ts >= since)
  <2>1. UsageSince(t, c, since) = UsageSince(s, c, since)
    BY <1>1, <1>3 DEF UsageSince
  <2> QED
    BY <1>3, <2>1
<1> QED
  BY <1>2, <1>3

\* What an entry adds to what its card has spent.
LEMMA SpentAppended ==
  ASSUME NEW s, NEW t, TablesOK(s), TablesOK(t), NEW e, Appends(s, t, e), NEW c \in Cards
  PROVE  SpentOf(t, c) =
           SpentOf(s, c)
             + (IF e.card # c THEN 0
                ELSE IF e.kind = "usage" THEN e.credits
                ELSE IF e.kind = "adjustment" /\ e.credits < 0 THEN -e.credits ELSE 0)
<1> DEFINE n == Len(s.ledger) + 1
           U(r) == {k \in DOMAIN r.ledger : r.ledger[k].kind = "usage" /\ r.ledger[k].card = c}
           A(r) == {k \in DOMAIN r.ledger :
                      /\ r.ledger[k].kind = "adjustment"
                      /\ r.ledger[k].card = c /\ r.ledger[k].credits < 0}
           isU == e.kind = "usage" /\ e.card = c
           isA == e.kind = "adjustment" /\ e.card = c /\ e.credits < 0
<1>1. /\ n \notin DOMAIN s.ledger /\ t.ledger[n] = e
      /\ DOMAIN t.ledger = DOMAIN s.ledger \cup {n}
      /\ \A k \in DOMAIN s.ledger : t.ledger[k] = s.ledger[k]
      /\ e \in Entry
  BY Appended DEF TablesOK, Appends
<1>2. e.credits \in Int
  BY <1>1 DEF Entry
<1>3. /\ SpentOf(s, c) = Credits(s, U(s)) - Credits(s, A(s))
      /\ SpentOf(t, c) = Credits(t, U(t)) - Credits(t, A(t))
  BY DEF SpentOf
<1>4. U(s) \in SUBSET DOMAIN s.ledger /\ A(s) \in SUBSET DOMAIN s.ledger
  OBVIOUS
<1>5. /\ U(t) = IF isU THEN U(s) \cup {n} ELSE U(s)
      /\ A(t) = IF isA THEN A(s) \cup {n} ELSE A(s)
  <2> HIDE DEF n
  <2>1. CASE isU
    <3>1. ~isA
      BY <2>1
    <3>2. U(t) = U(s) \cup {n} /\ A(t) = A(s)
      BY <1>1, <2>1
    <3> QED
      BY <2>1, <3>1, <3>2
  <2>2. CASE isA
    <3>1. ~isU
      BY <2>2
    <3>2. U(t) = U(s) /\ A(t) = A(s) \cup {n}
      BY <1>1, <2>2
    <3> QED
      BY <2>2, <3>1, <3>2
  <2>3. CASE ~isU /\ ~isA
    <3>1. U(t) = U(s) /\ A(t) = A(s)
      BY <1>1, <2>3
    <3> QED
      BY <2>3, <3>1
  <2> QED
    BY <2>1, <2>2, <2>3
<1> DEFINE Us == U(s)  Ut == U(t)  As == A(s)  At == A(t)
<1>6. /\ SpentOf(s, c) = Credits(s, Us) - Credits(s, As)
      /\ SpentOf(t, c) = Credits(t, Ut) - Credits(t, At)
      /\ Us \in SUBSET DOMAIN s.ledger /\ As \in SUBSET DOMAIN s.ledger
      /\ Ut = IF isU THEN Us \cup {n} ELSE Us
      /\ At = IF isA THEN As \cup {n} ELSE As
  BY <1>3, <1>4, <1>5
<1> HIDE DEF Us, Ut, As, At
<1>7. /\ Credits(t, Us) = Credits(s, Us)
      /\ Credits(t, Us \cup {n}) = Credits(s, Us) + e.credits
      /\ Credits(t, As) = Credits(s, As)
      /\ Credits(t, As \cup {n}) = Credits(s, As) + e.credits
  <2>1. Us \in SUBSET DOMAIN s.ledger /\ As \in SUBSET DOMAIN s.ledger
    BY <1>6
  <2>2. /\ Credits(t, Us) = Credits(s, Us)
        /\ Credits(t, Us \cup {n}) = Credits(s, Us) + e.credits
    <3>1. CreditsAdded(s, t, e, Us)
      BY CreditsAppended
    <3> QED
      BY <2>1, <3>1 DEF CreditsAdded
  <2>3. /\ Credits(t, As) = Credits(s, As)
        /\ Credits(t, As \cup {n}) = Credits(s, As) + e.credits
    <3>1. CreditsAdded(s, t, e, As)
      BY CreditsAppended
    <3> QED
      BY <2>1, <3>1 DEF CreditsAdded
  <2> QED
    BY <2>2, <2>3
<1>8. Credits(s, Us) \in Int /\ Credits(s, As) \in Int
  BY LedgerSums
<1>9. /\ Credits(t, Ut) = Credits(s, Us) + (IF isU THEN e.credits ELSE 0)
      /\ Credits(t, At) = Credits(s, As) + (IF isA THEN e.credits ELSE 0)
  <2>1. Credits(t, Ut) = IF isU THEN Credits(t, Us \cup {n}) ELSE Credits(t, Us)
    BY <1>6, Zenon
  <2>2. Credits(t, At) = IF isA THEN Credits(t, As \cup {n}) ELSE Credits(t, As)
    BY <1>6, Zenon
  <2> HIDE DEF isU, isA, n
  <2> QED
    BY <1>2, <1>7, <1>8, <2>1, <2>2
<1>10. SpentOf(t, c) = SpentOf(s, c) + (IF isU THEN e.credits ELSE 0)
                                     - (IF isA THEN e.credits ELSE 0)
  <2> HIDE DEF isU, isA, n
  <2> QED
    BY <1>2, <1>6, <1>8, <1>9
<1>11. SpentOf(s, c) \in Int
  BY <1>6, <1>8
<1>12. CASE isU
  <2>1. ~isA
    BY <1>12
  <2> QED
    BY <1>2, <1>10, <1>11, <1>12, <2>1
<1>13. CASE isA
  <2>1. ~isU
    BY <1>13
  <2> QED
    BY <1>2, <1>10, <1>11, <1>13, <2>1
<1>14. CASE ~isU /\ ~isA
  BY <1>2, <1>10, <1>11, <1>14
<1> QED
  BY <1>12, <1>13, <1>14

\* Some unpaid charges of t and one more, as far as those of s say.
UnpaidGrow(s, t, K, n) ==
  /\ IsFiniteSet(K) /\ n \notin K /\ t.unpaid[n].amount \in Int
  /\ \A k \in K : /\ t.unpaid[k].amount \in Int
                  /\ t.unpaid[k].amount = s.unpaid[k].amount
  => /\ Total([l \in K |-> t.unpaid[l].amount]) = Total([l \in K |-> s.unpaid[l].amount])
     /\ Total([l \in K \cup {n} |-> t.unpaid[l].amount])
          = Total([l \in K |-> s.unpaid[l].amount]) + t.unpaid[n].amount

\* The amounts of some unpaid charges and of one more.
LEMMA UnpaidOfMore == \A s, t, K, n : UnpaidGrow(s, t, K, n)
<1> SUFFICES ASSUME NEW s, NEW t, NEW K, NEW n PROVE UnpaidGrow(s, t, K, n)
  OBVIOUS
<1> SUFFICES ASSUME IsFiniteSet(K), n \notin K,
                    t.unpaid[n].amount \in Int,
                    \A k \in K : /\ t.unpaid[k].amount \in Int
                                 /\ t.unpaid[k].amount = s.unpaid[k].amount
             PROVE  /\ Total([l \in K |-> t.unpaid[l].amount])
                         = Total([l \in K |-> s.unpaid[l].amount])
                    /\ Total([l \in K \cup {n} |-> t.unpaid[l].amount])
                         = Total([l \in K |-> s.unpaid[l].amount]) + t.unpaid[n].amount
  BY DEF UnpaidGrow
<1> DEFINE g == [k \in K |-> s.unpaid[k].amount]
           f == [k \in K |-> t.unpaid[k].amount]
           h == [k \in K \cup {n} |-> t.unpaid[k].amount]
<1>1. g \in [K -> Int] /\ h \in [K \cup {n} -> Int]
  OBVIOUS
<1>2. h[n] = t.unpaid[n].amount /\ \A k \in K : h[k] = g[k]
  OBVIOUS
<1>3. f = g
  OBVIOUS
<1>4. SUFFICES Total(f) = Total(g) /\ Total(h) = Total(g) + h[n]
  BY <1>2
<1> HIDE DEF f, g, h
<1>5. SumGrows(K, n, g, h)
  BY TotalAdds
<1>6. Total(h) = Total(g) + h[n]
  BY <1>1, <1>2, <1>5 DEF SumGrows
<1>7. Total(f) = Total(g)
  BY <1>3, Zenon
<1> QED
  BY <1>6, <1>7

\* What an unpaid charge adds to its card's.
LEMMA UnpaidAppended ==
  ASSUME NEW s, NEW t, TablesOK(s), TablesOK(t), NEW u \in UnpaidCharge,
         t.unpaid = Append(s.unpaid, u), NEW c
  PROVE  UnpaidSum(t, c) = UnpaidSum(s, c) + (IF CardOf[u.ref] = c THEN u.amount ELSE 0)
<1> DEFINE n == Len(s.unpaid) + 1
           K == UnpaidOf(s, c)
<1>1. /\ n \notin DOMAIN s.unpaid /\ t.unpaid[n] = u
      /\ DOMAIN t.unpaid = DOMAIN s.unpaid \cup {n}
      /\ \A k \in DOMAIN s.unpaid : t.unpaid[k] = s.unpaid[k]
  BY Appended DEF TablesOK
<1>2. \A k \in DOMAIN t.unpaid : t.unpaid[k].amount \in Int
  <2> DEFINE q == t.unpaid
  <2>1. q \in Seq(UnpaidCharge)
    BY DEF TablesOK
  <2> HIDE DEF q
  <2>2. \A k \in DOMAIN q : q[k] \in UnpaidCharge
    BY <2>1
  <2>3. \A k \in DOMAIN q : q[k].amount \in Int
    BY <2>2 DEF UnpaidCharge
  <2> QED
    BY <2>3 DEF q
<1>3. K \in SUBSET DOMAIN s.unpaid /\ IsFiniteSet(K)
  <2>1. s.unpaid \in Seq(UnpaidCharge) /\ K \in SUBSET DOMAIN s.unpaid
    BY DEF TablesOK, UnpaidOf
  <2> DEFINE l == Len(s.unpaid)
  <2>2. DOMAIN s.unpaid = 1 .. l /\ l \in Nat
    BY <2>1
  <2> HIDE DEF l, K
  <2>3. IsFiniteSet(1 .. l)
    BY <2>2, FS_Interval
  <2>4. K \subseteq 1 .. l
    BY <2>1, <2>2, Zenon
  <2> QED
    BY <2>1, <2>3, <2>4, FS_Subset
<1>4. UnpaidOf(t, c) = IF CardOf[u.ref] = c THEN K \cup {n} ELSE K
  <2> HIDE DEF n
  <2>1. CASE CardOf[u.ref] = c
    <3>1. UnpaidOf(t, c) = K \cup {n}
      BY <1>1, <2>1 DEF UnpaidOf
    <3> QED
      BY <2>1, <3>1
  <2>2. CASE CardOf[u.ref] # c
    <3>1. UnpaidOf(t, c) = K
      BY <1>1, <2>2 DEF UnpaidOf
    <3> QED
      BY <2>2, <3>1
  <2> QED
    BY <2>1, <2>2
<1> HIDE DEF n, K
<1>5. /\ Total([l \in K |-> t.unpaid[l].amount]) = Total([l \in K |-> s.unpaid[l].amount])
      /\ Total([l \in K \cup {n} |-> t.unpaid[l].amount])
           = Total([l \in K |-> s.unpaid[l].amount]) + t.unpaid[n].amount
  <2>1. UnpaidGrow(s, t, K, n)
    BY UnpaidOfMore
  <2> QED
    BY <1>1, <1>2, <1>3, <2>1 DEF UnpaidGrow
<1>6. /\ UnpaidSum(s, c) = Total([l \in K |-> s.unpaid[l].amount])
      /\ UnpaidSum(s, c) \in Int
  BY TotalType, Zenon DEF UnpaidSum, K
<1>7. CASE CardOf[u.ref] = c
  <2>1. UnpaidSum(t, c) = Total([l \in K \cup {n} |-> t.unpaid[l].amount])
    BY <1>4, <1>7, Zenon DEF UnpaidSum
  <2> QED
    BY <1>1, <1>5, <1>6, <1>7, <2>1, Zenon
<1>8. CASE CardOf[u.ref] # c
  <2>1. UnpaidSum(t, c) = Total([l \in K |-> t.unpaid[l].amount])
    BY <1>4, <1>8, Zenon DEF UnpaidSum
  <2>2. UnpaidSum(t, c) = UnpaidSum(s, c)
    BY <1>5, <1>6, <2>1, Zenon
  <2> QED
    BY <1>6, <1>8, <2>2
<1> QED
  BY <1>7, <1>8

\* A charge runs over by at least what it costs beyond its hold, so a card's
\* books are no worse after it, in any window.
WindowNoWorse(s, t, c, since) ==
  /\ Credits(t, UsageSince(t, c, since)) + t.cards[c].reserved
       - OverrunOf(t, UsageSince(t, c, since))
     <= Credits(s, UsageSince(s, c, since)) + s.cards[c].reserved
          - OverrunOf(s, UsageSince(s, c, since))
  /\ since = 0 =>
       t.cards[c].used + t.cards[c].reserved - OverrunOf(t, UsageSince(t, c, since))
       <= s.cards[c].used + s.cards[c].reserved
            - OverrunOf(s, UsageSince(s, c, since))

\* Tables whose windows are no worse stay covered and fair.
LEMMA NoWorseBalanced ==
  ASSUME NEW s, NEW t, TablesOK(s), TablesOK(t), Covered(s), Fair(s, now),
         \A c \in Cards : t.cards[c].total = s.cards[c].total,
         \A c \in Cards : /\ WindowNoWorse(s, t, c, 0)
                          /\ WindowNoWorse(s, t, c, StartOfDay(now))
                          /\ WindowNoWorse(s, t, c, StartOfMonth(now))
  PROVE  Covered(t) /\ Fair(t, now)
<1> SUFFICES ASSUME NEW c \in Cards
             PROVE  /\ t.cards[c].used + t.cards[c].reserved
                         <= t.cards[c].total + OverrunOf(t, UsageSince(t, c, 0))
                    /\ WithinLimit(t, c, StartOfDay(now), DailyLimit[c])
                    /\ WithinLimit(t, c, StartOfMonth(now), MonthlyLimit[c])
  BY DEF Covered, Fair
<1>1. /\ s.cards[c].used \in Int /\ s.cards[c].total \in Int
      /\ s.cards[c].reserved \in Int /\ t.cards[c].used \in Int
      /\ t.cards[c].reserved \in Int /\ t.cards[c].total = s.cards[c].total
      /\ DailyLimit[c] \in Int /\ MonthlyLimit[c] \in Int
  BY CardNumbers
<1>2. \A r, K : Credits(r, K) \in Int /\ OverrunOf(r, K) \in Int
  BY LedgerSums
<1>3. t.cards[c].used + t.cards[c].reserved
        <= t.cards[c].total + OverrunOf(t, UsageSince(t, c, 0))
  BY <1>1, <1>2 DEF Covered, WindowNoWorse
<1>4. ASSUME NEW since, NEW limit \in Int, WindowNoWorse(s, t, c, since),
             WithinLimit(s, c, since, limit)
      PROVE  WithinLimit(t, c, since, limit)
  BY <1>1, <1>2, <1>4 DEF WithinLimit, WindowNoWorse
<1>5. /\ WithinLimit(s, c, StartOfDay(now), DailyLimit[c])
      /\ WithinLimit(s, c, StartOfMonth(now), MonthlyLimit[c])
  BY DEF Fair
<1>6. /\ WindowNoWorse(s, t, c, StartOfDay(now))
      /\ WindowNoWorse(s, t, c, StartOfMonth(now))
  OBVIOUS
<1> QED
  BY <1>1, <1>3, <1>4, <1>5, <1>6

\* A charge at the end of the ledger takes its hold off the card, and runs
\* over by what it costs beyond it.
LEMMA ChargeNoWorse ==
  ASSUME NEW s, NEW t, TablesOK(s), TablesOK(t), NEW e, Appends(s, t, e),
         e.kind = "usage", e.credits \in Nat, NEW c \in Cards, NEW since, NEW held \in Nat,
         \A k \in DOMAIN s.ledger :
           s.ledger[k].kind = "usage" => Overrun(t, k) = Overrun(s, k),
         Overrun(t, Len(s.ledger) + 1) = Positive(e.credits - held),
         t.cards[c].used = s.cards[c].used + (IF c = e.card THEN e.credits ELSE 0),
         t.cards[c].reserved = s.cards[c].reserved - (IF c = e.card THEN held ELSE 0)
  PROVE  WindowNoWorse(s, t, c, since)
<1> DEFINE K == UsageSince(s, c, since)
           L == UsageSince(t, c, since)
           n == Len(s.ledger) + 1
           over == Positive(e.credits - held)
<1>1. K \in SUBSET DOMAIN s.ledger /\ \A k \in K : Overrun(t, k) = Overrun(s, k)
  BY DEF UsageSince
<1>2. L = IF e.card = c /\ e.ts >= since THEN K \cup {n} ELSE K
  <2>1. WindowAdded(s, t, e, c, since)
    BY WindowAppended
  <2> QED
    BY <2>1 DEF WindowAdded
<1>3. /\ s.cards[c].used \in Int /\ s.cards[c].reserved \in Int
      /\ e.ts \in Nat /\ over \in Nat /\ over >= e.credits - held
  BY CardNumbers DEF Appends, Entry, Positive
<1>4. Overrun(t, n) = over
  OBVIOUS
<1> HIDE DEF K, L, n, over
<1>5. Credits(t, K) = Credits(s, K) /\ Credits(t, K \cup {n}) = Credits(s, K) + e.credits
  <2>1. CreditsAdded(s, t, e, K)
    BY CreditsAppended
  <2> QED
    BY <1>1, <2>1 DEF CreditsAdded, n
<1>6. /\ OverrunOf(t, K) = OverrunOf(s, K)
      /\ OverrunOf(t, K \cup {n}) = OverrunOf(s, K) + over
  <2>1. OverrunsAdded(s, t, e, K)
    BY OverrunsAppended
  <2> QED
    BY <1>1, <1>4, <2>1 DEF OverrunsAdded, n
<1>7. Credits(s, K) \in Int /\ OverrunOf(s, K) \in Int
  BY LedgerSums
<1>8. SUFFICES /\ Credits(t, L) + t.cards[c].reserved - OverrunOf(t, L)
                    <= Credits(s, K) + s.cards[c].reserved - OverrunOf(s, K)
               /\ since = 0 =>
                    t.cards[c].used + t.cards[c].reserved - OverrunOf(t, L)
                    <= s.cards[c].used + s.cards[c].reserved - OverrunOf(s, K)
  BY DEF WindowNoWorse, K, L
<1>9. CASE e.card = c /\ e.ts >= since
  <2>1. Credits(t, L) = Credits(t, K \cup {n}) /\ OverrunOf(t, L) = OverrunOf(t, K \cup {n})
    BY <1>2, <1>9, Zenon
  <2> QED
    <3> DEFINE ct == Credits(t, L)
               ot == OverrunOf(t, L)
               cs == Credits(s, K)
               os == OverrunOf(s, K)
               rs == s.cards[c].reserved
               us == s.cards[c].used
               rt == t.cards[c].reserved
               ut == t.cards[c].used
               paid == e.credits
    <3>1. /\ ct = cs + paid /\ ot = os + over
          /\ ut = us + paid /\ rt = rs - held
      BY <1>5, <1>6, <1>9, <2>1
    <3>2. /\ cs \in Int /\ os \in Int /\ rs \in Int /\ us \in Int
          /\ paid \in Nat /\ over \in Nat /\ over >= paid - held
      BY <1>3, <1>7
    <3> HIDE DEF ct, ot, cs, os, rs, us, rt, ut, paid
    <3>3. ct + rt - ot <= cs + rs - os /\ ut + rt - ot <= us + rs - os
      BY <3>1, <3>2
    <3> QED
      BY <3>3 DEF ct, ot, cs, os, rs, us, rt, ut
<1>10. CASE ~(e.card = c /\ e.ts >= since)
  <2>1. Credits(t, L) = Credits(t, K) /\ OverrunOf(t, L) = OverrunOf(t, K)
    BY <1>2, <1>10, Zenon
  <2> QED
    <3> DEFINE ct == Credits(t, L)
               ot == OverrunOf(t, L)
               cs == Credits(s, K)
               os == OverrunOf(s, K)
               rs == s.cards[c].reserved
               us == s.cards[c].used
               rt == t.cards[c].reserved
               ut == t.cards[c].used
               paid == e.credits
    <3>1. /\ ct = cs /\ ot = os
          /\ rt = rs - (IF c = e.card THEN held ELSE 0)
          /\ ut = us + (IF c = e.card THEN paid ELSE 0)
          /\ since = 0 => c # e.card
      BY <1>3, <1>5, <1>6, <1>10, <2>1
    <3>2. /\ cs \in Int /\ os \in Int /\ rs \in Int /\ us \in Int /\ held \in Nat
      BY <1>3, <1>7
    <3> HIDE DEF ct, ot, cs, os, rs, us, rt, ut, paid
    <3>3. /\ ct + rt - ot <= cs + rs - os
          /\ since = 0 => ut + rt - ot <= us + rs - os
      BY <3>1, <3>2
    <3> QED
      BY <3>3 DEF ct, ot, cs, os, rs, us, rt, ut
<1> QED
  BY <1>9, <1>10

\* The debit of a hold: its card pays the charge, with evidence of what it
\* could not pay.
LEMMA DebitedBalanced ==
  ASSUME NEW s, Sound(s), Balanced(s), NEW i \in DOMAIN s.reservations,
         NEW bill \in Bill, s.reservations[i].state = "held",
         Sound(Debited(s, i, bill))
  PROVE  Balanced(Debited(s, i, bill))
<1> DEFINE t == Debited(s, i, bill)
           c == CardOf[i]
           card == Charged(s, i, bill)
           addedDebt == AddedDebt(s, i, bill)
           e == UsageEntry(i, bill)
           held == s.reservations[i].amount
           charge == bill.charge
<1>1. /\ TablesOK(s) /\ TablesOK(t) /\ Accounted(s) /\ Spent(s) /\ Evidenced(s)
      /\ i \in Invocations /\ c \in Cards
      /\ charge \in Nat /\ bill.ts \in Nat
  BY IdsAssumption DEF Sound, TablesOK, Bill, Balanced
<1>2. held \in Nat
  BY <1>1 DEF TablesOK, Reservation
<1>3. /\ e \in Entry /\ e.kind = "usage" /\ e.card = c /\ e.credits = charge
      /\ e.ref = i
  BY <1>1 DEF UsageEntry, Entry
<1>4. /\ t.cards = [s.cards EXCEPT ![c] = card]
      /\ t.reservations = [s.reservations EXCEPT ![i].state = "settled"]
      /\ t.ledger = Append(s.ledger, e)
      /\ t.unpaid = IF addedDebt > 0
                    THEN Append(s.unpaid, [ref |-> i, amount |-> addedDebt])
                    ELSE s.unpaid
  BY <1>1 DEF TablesOK, IsSnapshot, Debited, card, addedDebt, e
<1>5. /\ card.total = s.cards[c].total
      /\ card.used = s.cards[c].used + charge
      /\ card.reserved = s.cards[c].reserved - held
      /\ addedDebt = Debt(card) - Debt(s.cards[c])
      /\ Debt(card) \in Nat /\ Debt(s.cards[c]) \in Nat
  <2>1. s.cards[c] \in Card
    BY <1>1 DEF TablesOK
  <2>2. /\ card.total = s.cards[c].total
        /\ card.used = s.cards[c].used + charge
        /\ card.reserved = s.cards[c].reserved - held
    BY <2>1 DEF Charged, Card
  <2>3. Debt(card) \in Nat /\ Debt(s.cards[c]) \in Nat
    <3> HIDE DEF card
    <3> QED
      BY <1>1, <2>1, <2>2 DEF Debt, Positive, Card
  <2> QED
    BY <2>2, <2>3 DEF AddedDebt
<1> HIDE DEF card, addedDebt, e, t, held, charge
<1>6. \A d \in Cards :
        t.cards[d] = IF d = c THEN card ELSE s.cards[d]
  <2>1. s.cards \in [Cards -> Card]
    BY <1>1 DEF TablesOK
  <2> QED
    BY <1>1, <1>4, <2>1
<1>7. \A d \in Cards :
        /\ t.cards[d].total = s.cards[d].total
        /\ t.cards[d].used = s.cards[d].used + (IF d = c THEN charge ELSE 0)
        /\ t.cards[d].reserved = s.cards[d].reserved - (IF d = c THEN held ELSE 0)
  <2> TAKE d \in Cards
  <2>1. s.cards[d].used \in Int /\ s.cards[d].reserved \in Int
    BY <1>1, CardNumbers
  <2>2. CASE d = c
    BY <1>5, <1>6, <2>2
  <2>3. CASE d # c
    BY <1>6, <2>1, <2>3
  <2> QED
    BY <2>2, <2>3
<1>8. /\ DOMAIN t.reservations = DOMAIN s.reservations
      /\ t.reservations[i].state = "settled" /\ t.reservations[i].amount = held
      /\ \A j \in DOMAIN s.reservations \ {i} :
            t.reservations[j] = s.reservations[j]
  <2> DEFINE f == s.reservations
             S == DOMAIN s.reservations
             g == t.reservations
  <2>1. f \in [S -> Reservation] /\ g = [f EXCEPT ![i].state = "settled"] /\ i \in S
        /\ held = f[i].amount
    BY <1>1, <1>4 DEF TablesOK, held
  <2> HIDE DEF f, g, S
  <2>2. /\ DOMAIN g = S /\ g[i].state = "settled" /\ g[i].amount = held
        /\ \A j \in S \ {i} : g[j] = f[j]
    BY <2>1 DEF Reservation
  <2> QED
    BY <2>2 DEF f, g, S
<1>9. Accounted(t)
  <2>1. i \notin HeldIds(t) /\ HeldIds(s) = HeldIds(t) \cup {i}
    BY <1>8 DEF HeldIds
  <2>2. IsFiniteSet(HeldIds(t))
    BY <1>1, <2>1, FS_Subset DEF Accounted
  <2>3. \A j \in HeldIds(t) : s.reservations[j].amount = t.reservations[j].amount
    BY <1>8, <2>1 DEF HeldIds
  <2>4. OneMore(t, s, i)
    BY <1>1, <2>1, <2>2, <2>3 DEF OneMore
  <2>5. ASSUME NEW d
        PROVE  HeldCredits(s, d) = HeldCredits(t, d) + (IF d = c THEN held ELSE 0)
    BY <2>4, HoldMore DEF held
  <2>6. \A d \in Cards : t.cards[d].reserved = HeldCredits(t, d)
    <3> TAKE d \in Cards
    <3>1. HeldCredits(t, d) \in Int
      BY HeldCreditsType
    <3>2. s.cards[d].reserved = HeldCredits(s, d)
      BY <1>1 DEF Accounted
    <3> QED
      BY <1>2, <1>7, <2>5, <3>1, <3>2
  <2> QED
    BY <2>2, <2>6 DEF Accounted
<1>10. Appends(s, t, e)
  BY <1>3, <1>4 DEF Appends
<1>11. /\ Len(s.ledger) + 1 \notin DOMAIN s.ledger
       /\ t.ledger[Len(s.ledger) + 1] = e
       /\ DOMAIN t.ledger = DOMAIN s.ledger \cup {Len(s.ledger) + 1}
       /\ \A k \in DOMAIN s.ledger : t.ledger[k] = s.ledger[k]
  BY <1>1, <1>3, <1>4, Appended DEF TablesOK
<1>12. Spent(t)
  <2>1. \A k \in DOMAIN t.ledger :
          t.ledger[k].kind = "usage" => t.ledger[k].credits \in Nat
    BY <1>1, <1>3, <1>11 DEF Spent
  <2>2. ASSUME NEW d \in Cards PROVE t.cards[d].used = SpentOf(t, d)
    <3>1. SpentOf(t, d) =
            SpentOf(s, d)
              + (IF e.card # d THEN 0
                 ELSE IF e.kind = "usage" THEN e.credits
                 ELSE IF e.kind = "adjustment" /\ e.credits < 0 THEN -e.credits ELSE 0)
      BY <1>1, <1>10, SpentAppended
    <3>2. s.cards[d].used = SpentOf(s, d) /\ s.cards[d].used \in Int
      BY <1>1, CardNumbers DEF Spent
    <3>3. CASE d = c
      BY <1>3, <1>7, <3>1, <3>2, <3>3
    <3>4. CASE d # c
      BY <1>3, <1>7, <3>1, <3>2, <3>4
    <3> QED
      BY <3>3, <3>4
  <2> QED
    BY <2>1, <2>2 DEF Spent
<1>13. Evidenced(t)
  <2> SUFFICES ASSUME NEW d \in Cards PROVE Debt(t.cards[d]) <= UnpaidSum(t, d)
    BY DEF Evidenced
  <2>1. /\ Debt(s.cards[d]) <= UnpaidSum(s, d) /\ UnpaidSum(s, d) \in Int
        /\ Debt(s.cards[d]) \in Int
    <3>1. s.cards[d] \in Card
      BY <1>1 DEF TablesOK
    <3> QED
      BY <1>1, <3>1, TotalType, DebtType DEF Evidenced, UnpaidSum
  <2>2. CASE addedDebt > 0
    <3> DEFINE u == [ref |-> i, amount |-> addedDebt]
    <3>1. u \in UnpaidCharge /\ u.ref = i /\ u.amount = addedDebt
      BY <1>1, <1>5, <2>2 DEF UnpaidCharge
    <3>2. t.unpaid = Append(s.unpaid, u)
      BY <1>4, <2>2
    <3> HIDE DEF u
    <3>3. UnpaidSum(t, d) = UnpaidSum(s, d) + (IF CardOf[u.ref] = d THEN u.amount ELSE 0)
      BY <1>1, <3>1, <3>2, UnpaidAppended
    <3>4. CASE d = c
      BY <1>5, <1>6, <2>1, <3>1, <3>3, <3>4
    <3>5. CASE d # c
      BY <1>6, <2>1, <3>1, <3>3, <3>5
    <3> QED
      BY <3>4, <3>5
  <2>3. CASE ~(addedDebt > 0)
    <3>1. t.unpaid = s.unpaid
      BY <1>4, <2>3
    <3>2. UnpaidSum(t, d) = UnpaidSum(s, d)
      BY <3>1, Zenon DEF UnpaidSum, UnpaidOf
    <3>3. CASE d = c
      BY <1>5, <1>6, <2>1, <2>3, <3>2, <3>3
    <3>4. CASE d # c
      BY <1>6, <2>1, <3>2, <3>4
    <3> QED
      BY <3>3, <3>4
  <2> QED
    BY <2>2, <2>3
<1>14. ASSUME ~ClientsReuseIds PROVE Covered(t) /\ Fair(t, now)
  <2>1. UsageOf(s, i) = {} /\ Covered(s) /\ Fair(s, now)
    BY <1>14 DEF Sound, UnchargedWhileOpen, Balanced
  <2>2. \A k \in DOMAIN s.ledger :
          s.ledger[k].kind = "usage" => Overrun(t, k) = Overrun(s, k)
    <3> TAKE k \in DOMAIN s.ledger
    <3> HAVE s.ledger[k].kind = "usage"
    <3> DEFINE j == s.ledger[k].ref
    <3>1. j # i
      BY <2>1 DEF UsageOf
    <3>2. t.ledger[k] = s.ledger[k]
      BY <1>11
    <3> QED
      BY <1>8, <3>1, <3>2 DEF Overrun
  <2>3. Overrun(t, Len(s.ledger) + 1) = Positive(e.credits - held)
    BY <1>3, <1>8, <1>11 DEF Overrun
  <2>4. e.credits \in Nat
    BY <1>1, <1>3
  <2>5. ASSUME NEW d \in Cards, NEW since PROVE WindowNoWorse(s, t, d, since)
    <3>1. /\ t.cards[d].used = s.cards[d].used + (IF d = e.card THEN e.credits ELSE 0)
          /\ t.cards[d].reserved = s.cards[d].reserved - (IF d = e.card THEN held ELSE 0)
      BY <1>3, <1>7
    <3> QED
      BY <1>1, <1>2, <1>3, <1>10, <2>2, <2>3, <2>4, <3>1, ChargeNoWorse
  <2>6. \A d \in Cards : t.cards[d].total = s.cards[d].total
    BY <1>7
  <2> QED
    BY <1>1, <2>1, <2>5, <2>6, NoWorseBalanced
<1>15. Balanced(t)
  BY <1>9, <1>12, <1>13, <1>14 DEF Balanced
<1> QED
  BY <1>15 DEF t

\* What holds come to is never negative.
LEMMA ReservedNat ==
  ASSUME NEW s, TablesOK(s), Accounted(s), NEW c \in Cards
  PROVE  s.cards[c].reserved \in Nat
<1> DEFINE K == HeldOn(s, c)
<1>1. K \in SUBSET DOMAIN s.reservations /\ IsFiniteSet(K) /\ K \in SUBSET K
  BY HeldOnCard DEF Accounted
<1>2. s.cards[c].reserved = AmountOf(s, K)
  BY DEF Accounted, HeldCredits
<1> HIDE DEF K
<1>3. AmountOf(s, K) \in Nat
  BY <1>1, AmountsSplit
<1> QED
  BY <1>2, <1>3

\* An adjustment: credit given, or credit taken that was free to take.
LEMMA AdjustedBalanced ==
  ASSUME NEW s, Sound(s), Balanced(s), NEW key \in AdjustKeys, NEW c \in Cards,
         NEW delta \in Int, now \in Nat, delta # 0,
         delta < 0 => -delta <= Available(s.cards[c]),
         Sound(Adjusted(s, key, c, delta))
  PROVE  Balanced(Adjusted(s, key, c, delta))
<1> DEFINE t == Adjusted(s, key, c, delta)
           e == [kind |-> "adjustment", card |-> c, ref |-> key,
                 credits |-> delta, ts |-> now]
           more == Positive(delta)
           less == Positive(-delta)
<1>1. /\ TablesOK(s) /\ TablesOK(t) /\ Accounted(s) /\ Spent(s) /\ Evidenced(s)
      /\ e \in Entry /\ e.kind = "adjustment" /\ e.card = c /\ e.credits = delta
      /\ more \in Nat /\ less \in Nat
      /\ (delta < 0 /\ more = 0 /\ less = -delta)
           \/ (delta > 0 /\ more = delta /\ less = 0)
  BY DEF Sound, Entry, Balanced, Positive
<1>2. /\ t.cards = [s.cards EXCEPT ![c].total = @ + more, ![c].used = @ + less]
      /\ t.reservations = s.reservations
      /\ t.ledger = Append(s.ledger, e) /\ t.unpaid = s.unpaid
  BY <1>1 DEF TablesOK, IsSnapshot, Adjusted
<1> HIDE DEF t, e, more, less
<1>3. \A d \in Cards :
        /\ t.cards[d].total = s.cards[d].total + (IF d = c THEN more ELSE 0)
        /\ t.cards[d].used = s.cards[d].used + (IF d = c THEN less ELSE 0)
        /\ t.cards[d].reserved = s.cards[d].reserved
  <2> DEFINE f == s.cards
             g == [f EXCEPT ![c].total = @ + more]
  <2>1. f \in [Cards -> Card] /\ t.cards = [g EXCEPT ![c].used = @ + less]
    <3>1. f \in [Cards -> Card]
      <4>1. TablesOK(s)
        BY <1>1
      <4> QED
        BY <4>1 DEF TablesOK
    <3>2. t.cards = [f EXCEPT ![c].total = @ + more, ![c].used = @ + less]
      BY <1>2, Zenon
    <3> HIDE DEF f
    <3>3. [f EXCEPT ![c].total = @ + more, ![c].used = @ + less] = [g EXCEPT ![c].used = @ + less]
      BY <3>1
    <3> QED
      BY <3>1, <3>2, <3>3
  <2> HIDE DEF f
  <2>2. \A d \in Cards : /\ g[d].total = f[d].total + (IF d = c THEN more ELSE 0)
                         /\ g[d].used = f[d].used /\ g[d].reserved = f[d].reserved
                         /\ g[d].used \in Nat
    BY <1>1, <2>1 DEF Card
  <2>a. g \in [Cards -> Card]
    BY <1>1, <2>1 DEF Card
  <2> HIDE DEF g
  <2>3. \A d \in Cards : /\ t.cards[d].total = g[d].total
                         /\ t.cards[d].used = g[d].used + (IF d = c THEN less ELSE 0)
                         /\ t.cards[d].reserved = g[d].reserved
    BY <1>1, <2>1, <2>2, <2>a DEF Card
  <2> QED
    BY <2>2, <2>3 DEF f
<1>4. /\ s.cards[c].used \in Nat /\ s.cards[c].total \in Nat
      /\ s.cards[c].reserved \in Nat
  BY <1>1, CardNumbers, ReservedNat
<1>5. delta < 0 => s.cards[c].used + s.cards[c].reserved - delta <= s.cards[c].total
  BY <1>4 DEF Available, Positive
<1>6. Accounted(t)
  <2>1. HeldIds(t) = HeldIds(s) /\ IsFiniteSet(HeldIds(s))
    BY <1>1, <1>2 DEF HeldIds, Accounted
  <2>2. IsFiniteSet(HeldIds(t)) /\ \A d : HeldCredits(t, d) = HeldCredits(s, d)
    BY <1>2, <2>1, HoldsSame
  <2> QED
    BY <1>1, <1>3, <2>2 DEF Accounted
<1>7. Appends(s, t, e)
  BY <1>1, <1>2 DEF Appends
<1>8. /\ Len(s.ledger) + 1 \notin DOMAIN s.ledger
      /\ t.ledger[Len(s.ledger) + 1] = e
      /\ DOMAIN t.ledger = DOMAIN s.ledger \cup {Len(s.ledger) + 1}
      /\ \A k \in DOMAIN s.ledger : t.ledger[k] = s.ledger[k]
  BY <1>1, <1>2, Appended DEF TablesOK
<1>9. Spent(t)
  <2>1. \A k \in DOMAIN t.ledger :
          t.ledger[k].kind = "usage" => t.ledger[k].credits \in Nat
    BY <1>1, <1>8 DEF Spent
  <2>2. ASSUME NEW d \in Cards PROVE t.cards[d].used = SpentOf(t, d)
    <3>1. SpentOf(t, d) =
            SpentOf(s, d)
              + (IF e.card # d THEN 0
                 ELSE IF e.kind = "usage" THEN e.credits
                 ELSE IF e.kind = "adjustment" /\ e.credits < 0 THEN -e.credits ELSE 0)
      BY <1>1, <1>7, SpentAppended
    <3>2. s.cards[d].used = SpentOf(s, d) /\ s.cards[d].used \in Int
      BY <1>1, CardNumbers DEF Spent
    <3>3. CASE d = c
      BY <1>1, <1>3, <3>1, <3>2, <3>3
    <3>4. CASE d # c
      BY <1>1, <1>3, <3>1, <3>2, <3>4
    <3> QED
      BY <3>3, <3>4
  <2> QED
    BY <2>1, <2>2 DEF Spent
<1>10. Evidenced(t)
  <2> SUFFICES ASSUME NEW d \in Cards PROVE Debt(t.cards[d]) <= UnpaidSum(t, d)
    BY DEF Evidenced
  <2>1. UnpaidSum(t, d) = UnpaidSum(s, d)
    BY <1>2, Zenon DEF UnpaidSum, UnpaidOf
  <2>2. /\ Debt(s.cards[d]) <= UnpaidSum(s, d) /\ UnpaidSum(s, d) \in Int
        /\ s.cards[d].used \in Int /\ s.cards[d].total \in Int
    BY <1>1, TotalType, CardNumbers DEF Evidenced, UnpaidSum
  <2>3. CASE d = c
    BY <1>1, <1>3, <1>4, <1>5, <2>1, <2>2, <2>3 DEF Debt, Positive
  <2>4. CASE d # c
    BY <1>3, <2>1, <2>2, <2>4 DEF Debt, Positive
  <2> QED
    BY <2>3, <2>4
<1>11. ASSUME ~ClientsReuseIds PROVE Covered(t) /\ Fair(t, now)
  <2>1. Covered(s) /\ Fair(s, now)
    BY <1>11 DEF Balanced
  <2>2. ASSUME NEW d \in Cards, NEW since
        PROVE  /\ Credits(t, UsageSince(t, d, since)) = Credits(s, UsageSince(s, d, since))
               /\ OverrunOf(t, UsageSince(t, d, since)) = OverrunOf(s, UsageSince(s, d, since))
               /\ OverrunOf(s, UsageSince(s, d, since)) \in Nat
    <3> DEFINE K == UsageSince(s, d, since)
    <3>1. UsageSince(t, d, since) = K
      <4>1. WindowAdded(s, t, e, d, since)
        BY WindowAppended
      <4> QED
        BY <1>1, <1>7, <4>1 DEF WindowAdded
    <3>2. K \in SUBSET DOMAIN s.ledger /\ OverrunOf(s, K) \in Nat
      BY <1>1, WindowIsUsage
    <3>3. \A k \in K : Overrun(t, k) = Overrun(s, k)
      BY <1>2, <1>8, <3>2 DEF Overrun
    <3>4. /\ Credits(t, UsageSince(t, d, since)) = Credits(t, K)
          /\ OverrunOf(t, UsageSince(t, d, since)) = OverrunOf(t, K)
      BY <3>1, Zenon
    <3> HIDE DEF K
    <3>5. Credits(t, K) = Credits(s, K)
      <4>1. CreditsAdded(s, t, e, K)
        BY CreditsAppended
      <4> QED
        BY <1>1, <1>7, <3>2, <4>1 DEF CreditsAdded
    <3>6. OverrunOf(t, K) = OverrunOf(s, K)
      <4>1. OverrunsAdded(s, t, e, K)
        BY OverrunsAppended
      <4> QED
        BY <1>1, <1>7, <3>2, <3>3, <4>1 DEF OverrunsAdded
    <3> QED
      BY <3>2, <3>4, <3>5, <3>6 DEF K
  <2>3. \A r, K : Credits(r, K) \in Int /\ OverrunOf(r, K) \in Int
    BY LedgerSums
  <2>4. Fair(t, now)
    <3> SUFFICES ASSUME NEW d \in Cards, NEW since, NEW limit,
                        WithinLimit(s, d, since, limit)
                 PROVE  WithinLimit(t, d, since, limit)
      BY <2>1 DEF Fair
    <3> QED
      BY <1>3, <2>2 DEF WithinLimit
  <2>5. Covered(t)
    <3> SUFFICES ASSUME NEW d \in Cards
                 PROVE  t.cards[d].used + t.cards[d].reserved
                          <= t.cards[d].total + OverrunOf(t, UsageSince(t, d, 0))
      BY DEF Covered
    <3>1. /\ s.cards[d].used + s.cards[d].reserved
               <= s.cards[d].total + OverrunOf(s, UsageSince(s, d, 0))
          /\ s.cards[d].used \in Int /\ s.cards[d].total \in Int
          /\ s.cards[d].reserved \in Int
          /\ OverrunOf(s, UsageSince(s, d, 0)) \in Nat
          /\ OverrunOf(t, UsageSince(t, d, 0)) = OverrunOf(s, UsageSince(s, d, 0))
      BY <1>1, <2>1, <2>2, CardNumbers DEF Covered
    <3>2. CASE d = c
      BY <1>1, <1>3, <1>5, <3>1, <3>2
    <3>3. CASE d # c
      BY <1>3, <3>1, <3>3
    <3> QED
      BY <3>2, <3>3
  <2> QED
    BY <2>4, <2>5
<1>12. Balanced(t)
  BY <1>6, <1>9, <1>10, <1>11 DEF Balanced
<1> QED
  BY <1>12 DEF t

-----------------------------------------------------------------------------
\* The clock.

\* The windows only move forward.
LEMMA WindowsAdvance ==
  ASSUME NEW t \in Nat
  PROVE  /\ StartOfDay(t) \in Int /\ StartOfDay(t + 1) \in Int
         /\ StartOfDay(t) <= StartOfDay(t + 1)
         /\ StartOfMonth(t) \in Int /\ StartOfMonth(t + 1) \in Int
         /\ StartOfMonth(t) <= StartOfMonth(t + 1)
<1>1. DayLength \in Nat \ {0} /\ MonthLength \in Nat
  BY TimesAssumption
<1> DEFINE p == t \div DayLength
           q == (t + 1) \div DayLength
<1>2. /\ p \in Int /\ q \in Int
      /\ p * DayLength <= t /\ t < p * DayLength + DayLength
      /\ q * DayLength <= t + 1 /\ t + 1 < q * DayLength + DayLength
  BY <1>1
<1> HIDE DEF p, q
<1>3. p <= q
  <2> SUFFICES ASSUME q + 1 <= p PROVE FALSE
    BY <1>2
  <2>1. (q + 1) * DayLength <= p * DayLength
    BY <1>1, <1>2
  <2>2. (q + 1) * DayLength = q * DayLength + DayLength
    BY <1>1, <1>2
  <2> QED
    BY <1>1, <1>2, <2>1, <2>2
<1>4. p * DayLength <= q * DayLength /\ p * DayLength \in Int /\ q * DayLength \in Int
  BY <1>1, <1>2, <1>3
<1>5. /\ StartOfDay(t) = p * DayLength /\ StartOfDay(t + 1) = q * DayLength
  BY DEF StartOfDay, p, q
<1>6. /\ StartOfMonth(t) \in Int /\ StartOfMonth(t + 1) \in Int
      /\ StartOfMonth(t) <= StartOfMonth(t + 1)
  BY <1>1 DEF StartOfMonth, Positive
<1> QED
  BY <1>4, <1>5, <1>6

\* The credits of some entries, and how far they run over, by a part of them
\* and the rest.
LEMMA EntriesSplit ==
  ASSUME NEW s, TablesOK(s), NEW K \in SUBSET DOMAIN s.ledger, NEW L \in SUBSET K
  PROVE  /\ Credits(s, K) = Credits(s, L) + Credits(s, K \ L)
         /\ OverrunOf(s, K) = OverrunOf(s, L) + OverrunOf(s, K \ L)
<1> DEFINE f == [k \in K |-> s.ledger[k].credits]
           g == [k \in K |-> Overrun(s, k)]
<1>1. f \in [K -> Int] /\ g \in [K -> Int] /\ IsFiniteSet(K)
  BY Entries, OverrunType DEF Entry
<1>2. /\ Restrict(f, L) = [k \in L |-> s.ledger[k].credits]
      /\ Restrict(f, K \ L) = [k \in K \ L |-> s.ledger[k].credits]
      /\ Restrict(g, L) = [k \in L |-> Overrun(s, k)]
      /\ Restrict(g, K \ L) = [k \in K \ L |-> Overrun(s, k)]
  BY DEF Restrict
<1>3. /\ Credits(s, K) = Total(f)
      /\ Credits(s, L) = Total(Restrict(f, L))
      /\ Credits(s, K \ L) = Total(Restrict(f, K \ L))
  BY <1>2, Zenon DEF Credits
<1>4. /\ OverrunOf(s, K) = Total(g)
      /\ OverrunOf(s, L) = Total(Restrict(g, L))
      /\ OverrunOf(s, K \ L) = Total(Restrict(g, K \ L))
  BY <1>2, Zenon DEF OverrunOf
<1> HIDE DEF f, g
<1>5. Total(f) = Total(Restrict(f, L)) + Total(Restrict(f, K \ L))
  BY <1>1, TotalSplit
<1>6. Total(g) = Total(Restrict(g, L)) + Total(Restrict(g, K \ L))
  BY <1>1, TotalSplit
<1> QED
  BY <1>3, <1>4, <1>5, <1>6

\* Usage runs over by no more than it costs.
LEMMA OverrunWithinCredits ==
  ASSUME NEW s, TablesOK(s), NEW K \in SUBSET DOMAIN s.ledger,
         \A k \in K : s.ledger[k].credits \in Nat
  PROVE  OverrunOf(s, K) <= Credits(s, K)
<1> DEFINE f == [k \in K |-> Overrun(s, k)]
           g == [k \in K |-> s.ledger[k].credits]
<1>1. IsFiniteSet(K)
  BY Entries
<1>2. f \in [K -> Int] /\ g \in [K -> Int] /\ \A k \in K : f[k] <= g[k]
  BY OverrunType
<1>3. OverrunOf(s, K) = Total(f) /\ Credits(s, K) = Total(g)
  BY DEF OverrunOf, Credits
<1> HIDE DEF f, g
<1> QED
  BY <1>1, <1>2, <1>3, TotalMonotone

\* As the window moves on, what leaves it was worth at least what it ran over.
LEMMA FairLater ==
  ASSUME NEW s, TablesOK(s), Spent(s), NEW t \in Nat, Fair(s, t)
  PROVE  Fair(s, t + 1)
<1>1. ASSUME NEW c \in Cards, NEW since \in Int, NEW later \in Int, since <= later,
             NEW limit \in Int, WithinLimit(s, c, since, limit)
      PROVE  WithinLimit(s, c, later, limit)
  <2> DEFINE K == UsageSince(s, c, since)
             L == UsageSince(s, c, later)
  <2>1. K \in SUBSET DOMAIN s.ledger /\ \A k \in K : s.ledger[k].credits \in Nat
    BY WindowIsUsage
  <2>2. L \in SUBSET K
    <3>1. \A k \in DOMAIN s.ledger : s.ledger[k].ts \in Int
      BY Entries DEF Entry
    <3> QED
      BY <1>1, <3>1 DEF UsageSince
  <2>3. Credits(s, K) + s.cards[c].reserved <= limit + OverrunOf(s, K)
    BY <1>1 DEF WithinLimit
  <2> HIDE DEF K, L
  <2>4. /\ Credits(s, K) = Credits(s, L) + Credits(s, K \ L)
        /\ OverrunOf(s, K) = OverrunOf(s, L) + OverrunOf(s, K \ L)
    BY <2>1, <2>2, EntriesSplit
  <2>5. OverrunOf(s, K \ L) <= Credits(s, K \ L)
    <3> DEFINE R == K \ L
    <3>1. R \in SUBSET DOMAIN s.ledger /\ \A k \in R : s.ledger[k].credits \in Nat
      BY <2>1
    <3> HIDE DEF R
    <3>2. OverrunOf(s, R) <= Credits(s, R)
      BY <3>1, OverrunWithinCredits
    <3> QED
      BY <3>2 DEF R
  <2>6. \A M : Credits(s, M) \in Int /\ OverrunOf(s, M) \in Int
    BY LedgerSums
  <2>7. s.cards[c].reserved \in Int
    BY CardNumbers
  <2>8. Credits(s, L) + s.cards[c].reserved <= limit + OverrunOf(s, L)
    BY <1>1, <2>3, <2>4, <2>5, <2>6, <2>7
  <2> QED
    BY <2>8 DEF WithinLimit, L
<1>2. ASSUME NEW c \in Cards
      PROVE  /\ WithinLimit(s, c, StartOfDay(t + 1), DailyLimit[c])
             /\ WithinLimit(s, c, StartOfMonth(t + 1), MonthlyLimit[c])
  <2>1. /\ WithinLimit(s, c, StartOfDay(t), DailyLimit[c])
        /\ WithinLimit(s, c, StartOfMonth(t), MonthlyLimit[c])
    BY DEF Fair
  <2>2. DailyLimit[c] \in Int /\ MonthlyLimit[c] \in Int
    BY CardNumbers
  <2>3. /\ StartOfDay(t) \in Int /\ StartOfDay(t + 1) \in Int
        /\ StartOfDay(t) <= StartOfDay(t + 1)
        /\ StartOfMonth(t) \in Int /\ StartOfMonth(t + 1) \in Int
        /\ StartOfMonth(t) <= StartOfMonth(t + 1)
    BY WindowsAdvance
  <2> QED
    BY <1>1, <2>1, <2>2, <2>3
<1> QED
  BY <1>2 DEF Fair

\* So the books still balance once the clock has moved on.
LEMMA TickBalanced ==
  ASSUME NEW s, Sound(s), now \in Nat, Balanced(s), now' = now + 1
  PROVE  /\ Accounted(s) /\ Spent(s) /\ Evidenced(s)
         /\ ~ClientsReuseIds => Covered(s) /\ Fair(s, now')
<1>1. TablesOK(s) /\ Spent(s)
  BY DEF Sound, Balanced
<1>2. ~ClientsReuseIds => Fair(s, now + 1)
  BY <1>1, FairLater DEF Balanced
<1> QED
  BY <1>2 DEF Balanced

-----------------------------------------------------------------------------
\* The steps.

\* At first nothing is held or used.
LEMMA FreshBalanced == Init => BInv
<1> SUFFICES ASSUME Init PROVE BInv
  OBVIOUS
<1> DEFINE f == [c \in Cards |-> [total |-> Balance[c], used |-> 0,
                                 reserved |-> 0, status |-> "active",
                                 frozen |-> FALSE]]
<1>1. /\ Fresh.cards = f /\ Fresh.reservations = NoRecords
      /\ Fresh.pending = NoRecords /\ Fresh.ledger = <<>>
      /\ Fresh.archived = {} /\ Fresh.unpaid = <<>>
  BY DEF Fresh, f
<1>2. \A c \in Cards : /\ Fresh.cards[c].total = Balance[c] /\ Balance[c] \in Nat
                       /\ Fresh.cards[c].used = 0 /\ Fresh.cards[c].reserved = 0
                       /\ DailyLimit[c] \in Nat /\ MonthlyLimit[c] \in Nat
  BY <1>1, CardsAssumption
<1> HIDE DEF f
<1>3. /\ DOMAIN Fresh.reservations = {} /\ DOMAIN Fresh.ledger = {}
      /\ DOMAIN Fresh.unpaid = {}
  BY <1>1 DEF NoRecords
<1>4. /\ AmountOf(Fresh, {}) = 0 /\ Credits(Fresh, {}) = 0 /\ OverrunOf(Fresh, {}) = 0
      /\ \A c : UnpaidSum(Fresh, c) = 0
  <2>1. AmountOf(Fresh, {}) = 0
    BY TotalEmpty DEF AmountOf
  <2>2. Credits(Fresh, {}) = 0
    BY TotalEmpty DEF Credits
  <2>3. OverrunOf(Fresh, {}) = 0
    BY TotalEmpty DEF OverrunOf
  <2>4. ASSUME NEW c PROVE UnpaidSum(Fresh, c) = 0
    <3> DEFINE h == [l \in UnpaidOf(Fresh, c) |-> Fresh.unpaid[l].amount]
    <3>1. DOMAIN h = {} /\ UnpaidSum(Fresh, c) = Total(h)
      BY <1>3 DEF UnpaidOf, UnpaidSum
    <3> HIDE DEF h
    <3> QED
      BY <3>1, TotalEmpty
  <2> QED
    BY <2>1, <2>2, <2>3, <2>4
<1>5. \A c : HeldOn(Fresh, c) = {} /\ HeldIds(Fresh) = {}
  BY <1>3 DEF HeldOn, HeldIds
<1>6. \A c : HeldCredits(Fresh, c) = 0
  BY <1>4, <1>5, Zenon DEF HeldCredits
<1>7. Accounted(Fresh)
  BY <1>2, <1>5, <1>6, FS_EmptySet DEF Accounted
<1>8. \A c : SpentOf(Fresh, c) = 0
  <2> TAKE c
  <2> DEFINE U == {k \in DOMAIN Fresh.ledger :
                     Fresh.ledger[k].kind = "usage" /\ Fresh.ledger[k].card = c}
             A == {k \in DOMAIN Fresh.ledger :
                     /\ Fresh.ledger[k].kind = "adjustment"
                     /\ Fresh.ledger[k].card = c /\ Fresh.ledger[k].credits < 0}
  <2>1. U = {} /\ A = {}
    BY <1>3
  <2>2. SpentOf(Fresh, c) = Credits(Fresh, U) - Credits(Fresh, A)
    BY DEF SpentOf
  <2> HIDE DEF U, A
  <2>3. Credits(Fresh, U) = Credits(Fresh, {}) /\ Credits(Fresh, A) = Credits(Fresh, {})
    BY <2>1, Zenon
  <2> QED
    BY <1>4, <2>2, <2>3
<1>9. Spent(Fresh)
  BY <1>2, <1>3, <1>8 DEF Spent
<1>10. Evidenced(Fresh)
  BY <1>2, <1>4 DEF Evidenced, Debt, Positive
<1>11. ASSUME NEW c, NEW since
       PROVE  /\ Credits(Fresh, UsageSince(Fresh, c, since)) = 0
              /\ OverrunOf(Fresh, UsageSince(Fresh, c, since)) = 0
  <2>1. UsageSince(Fresh, c, since) = {}
    BY <1>3 DEF UsageSince
  <2>2. /\ Credits(Fresh, UsageSince(Fresh, c, since)) = Credits(Fresh, {})
        /\ OverrunOf(Fresh, UsageSince(Fresh, c, since)) = OverrunOf(Fresh, {})
    BY <2>1, Zenon
  <2> QED
    BY <1>4, <2>2
<1>12. Covered(Fresh)
  BY <1>2, <1>11 DEF Covered
<1>13. Fair(Fresh, now)
  BY <1>2, <1>11 DEF Fair, WithinLimit
<1>14. Balanced(Fresh)
  BY <1>7, <1>9, <1>10, <1>12, <1>13 DEF Balanced
<1> QED
  BY <1>14 DEF Init, BInv

\* Whichever way a commit ends, what it leaves balances if what it was given
\* does.
LEMMA CommitBalanced ==
  ASSUME BInv, NEW candidate, NEW orElse, Balanced(candidate), Balanced(orElse),
         Commit(candidate, orElse)
  PROVE  BInv'
<1>1. now' = now
  BY DEF Commit
<1>2. CASE Saved(candidate)
  BY <1>1, <1>2 DEF BInv, Balanced, Saved
<1>3. CASE NotSaved(orElse)
  BY <1>1, <1>3 DEF BInv, Balanced, NotSaved
<1>4. CASE DiedOnceSaved(candidate)
  BY <1>1, <1>4 DEF BInv, Balanced, DiedOnceSaved, Stopped
<1> QED
  BY <1>2, <1>3, <1>4 DEF Commit

\* The same of a step in memory alone.
LEMMA InPlaceBalanced ==
  ASSUME BInv, NEW t, Balanced(t), InPlace(t)
  PROVE  BInv'
BY DEF InPlace, BInv, Balanced

\* A request's steps.
LEMMA RequestBalanced ==
  ASSUME IInv, BInv, NEW i \in Invocations, Request(i)
  PROVE  BInv'
<1>1. Sound(mem) /\ Balanced(mem) /\ now \in Nat
  BY DEF IInv, BInv
<1>2. TablesOK(mem) /\ PendingHeld(mem)
  BY <1>1 DEF Sound
<1>3. ASSUME NEW amount \in HoldAmounts, Reserve(i, amount) PROVE BInv'
  <2>1. /\ ~Taken(mem, i) /\ InPlace(Hold(mem, i, amount))
        /\ WithinQuota(mem, CardOf[i], amount)
        /\ CanReserve(mem.cards[CardOf[i]], CardOf[i], amount)
    BY <1>3 DEF Reserve
  <2>2. ClientsReuseIds \/ UsageOf(mem, i) = {} \/ i \in DOMAIN mem.reservations
    BY <1>3 DEF Reserve, Sendable
  <2>3. Sound(Hold(mem, i, amount))
    BY <1>1, <2>1, <2>2, HoldSound
  <2>4. Balanced(Hold(mem, i, amount))
    BY <1>1, <2>1, <2>3, HoldBalanced
  <2> QED
    BY <2>1, <2>4, InPlaceBalanced
<1>4. ASSUME NEW amount \in HoldAmounts, ExtendReservation(i, amount) PROVE BInv'
  <2>1. /\ i \in DOMAIN mem.reservations /\ mem.reservations[i].state = "held"
        /\ amount - mem.reservations[i].amount >= 0
        /\ WithinQuota(mem, CardOf[i], amount - mem.reservations[i].amount)
        /\ CanReserve(mem.cards[CardOf[i]], CardOf[i], amount - mem.reservations[i].amount)
        /\ Commit(Extended(mem, i, amount), mem)
    BY <1>4 DEF ExtendReservation
  <2>2. amount \in Nat /\ amount >= mem.reservations[i].amount
    <3>1. mem.reservations[i].amount \in Nat
      BY <1>2, <2>1 DEF TablesOK, Reservation
    <3> QED
      BY <2>1, <3>1, AmountsAssumption
  <2>3. Sound(Extended(mem, i, amount))
    BY <1>1, <2>1, <2>2, ExtendedSound
  <2>4. Balanced(Extended(mem, i, amount))
    BY <1>1, <2>1, <2>2, <2>3, ExtendedBalanced
  <2> QED
    BY <1>1, <2>1, <2>4, CommitBalanced
<1>5. ASSUME NEW charge \in Charges, Settle(i, charge) PROVE BInv'
  <2> DEFINE bill == BillFor(charge)
  <2>1. bill \in Bill
    BY <1>1, AmountsAssumption DEF Bill, BillFor
  <2>2. i \in DOMAIN mem.reservations /\ mem.reservations[i].state = "held"
    BY <1>5 DEF Settle
  <2>3. \/ /\ i \notin DOMAIN mem.pending
           /\ Commit(Debited(mem, i, bill), Intended(mem, i, bill))
        \/ /\ i \in DOMAIN mem.pending
           /\ Commit(Debited(mem, i, mem.pending[i]), mem)
    BY <1>5 DEF Settle
  <2> HIDE DEF bill
  <2>4. CASE /\ i \notin DOMAIN mem.pending
             /\ Commit(Debited(mem, i, bill), Intended(mem, i, bill))
    <3>1. Sound(Debited(mem, i, bill))
      BY <1>1, <2>1, <2>2, DebitedSound
    <3>2. Balanced(Debited(mem, i, bill))
      BY <1>1, <2>1, <2>2, <3>1, DebitedBalanced
    <3>3. Sound(Intended(mem, i, bill))
      BY <1>1, <2>1, <2>2, IntendedSound
    <3>4. Balanced(Intended(mem, i, bill))
      BY <1>1, <3>3, QuietOperations
    <3> QED
      BY <2>4, <3>2, <3>4, CommitBalanced
  <2>5. CASE /\ i \in DOMAIN mem.pending
             /\ Commit(Debited(mem, i, mem.pending[i]), mem)
    <3>1. mem.pending[i] \in Bill
      BY <1>2, <2>5 DEF TablesOK
    <3>2. Sound(Debited(mem, i, mem.pending[i]))
      BY <1>1, <2>2, <3>1, DebitedSound
    <3>3. Balanced(Debited(mem, i, mem.pending[i]))
      BY <1>1, <2>2, <3>1, <3>2, DebitedBalanced
    <3> QED
      BY <1>1, <2>5, <3>3, CommitBalanced
  <2> QED
    BY <2>3, <2>4, <2>5
<1>6. CASE Release(i)
  <2>1. /\ InPlace(Returned(mem, {i}))
        /\ i \in DOMAIN mem.reservations /\ i \notin DOMAIN mem.pending
        /\ mem.reservations[i].state = "held"
    BY <1>6 DEF Release
  <2>2. Sound(Returned(mem, {i}))
    BY <1>1, <2>1, ReturnedSound
  <2>3. {i} \in SUBSET HeldIds(mem)
    BY <2>1 DEF HeldIds
  <2>4. Balanced(Returned(mem, {i}))
    BY <1>1, <2>2, <2>3, ReturnedBalanced
  <2> QED
    BY <2>1, <2>4, InPlaceBalanced
<1>7. CASE ProtectReservation(i)
  BY <1>7 DEF ProtectReservation, BInv, Balanced
<1>8. CASE DropLease(i)
  BY <1>8 DEF DropLease, BInv, Balanced
<1> QED
  BY <1>3, <1>4, <1>5, <1>6, <1>7, <1>8 DEF Request

\* The background task's steps.
LEMMA BackgroundBalanced ==
  ASSUME IInv, BInv, Background
  PROVE  BInv'
<1>1. /\ Sound(mem) /\ TablesOK(mem) /\ PendingHeld(mem) /\ Balanced(mem)
  BY DEF IInv, BInv, Sound
<1>2. CASE ProbePersistence
  BY <1>1, <1>2, CommitBalanced DEF ProbePersistence
<1>3. ASSUME NEW i \in Invocations, RetryPendingSettlement(i) PROVE BInv'
  <2>1. /\ i \in DOMAIN mem.pending
        /\ i \in DOMAIN mem.reservations /\ mem.reservations[i].state = "held"
        /\ Commit(Debited(mem, i, mem.pending[i]), mem)
    BY <1>1, <1>3 DEF RetryPendingSettlement, PendingHeld
  <2>2. mem.pending[i] \in Bill
    BY <1>1, <2>1 DEF TablesOK
  <2>3. Sound(Debited(mem, i, mem.pending[i]))
    BY <1>1, <2>1, <2>2, DebitedSound
  <2>4. Balanced(Debited(mem, i, mem.pending[i]))
    BY <1>1, <2>1, <2>2, <2>3, DebitedBalanced
  <2> QED
    BY <1>1, <2>1, <2>4, CommitBalanced
<1>4. CASE RunJanitor
  <2> DEFINE s == Returned(mem, Orphans)
             t == Forgotten(s)
  <2>1. Sound(s)
    BY <1>1, ReturnedSound DEF Orphans
  <2>2. Balanced(s)
    <3>1. Orphans \in SUBSET HeldIds(mem)
      BY DEF Orphans, HeldIds
    <3> QED
      BY <1>1, <2>1, <3>1, ReturnedBalanced
  <2>3. Commit(t, mem)
    BY <1>4 DEF RunJanitor
  <2> HIDE DEF s
  <2>4. Sound(t)
    BY <2>1, ForgottenSound
  <2>5. Balanced(t)
    BY <2>1, <2>2, <2>4, ForgottenBalanced
  <2> HIDE DEF t
  <2> QED
    BY <1>1, <2>3, <2>5, CommitBalanced
<1> QED
  BY <1>2, <1>3, <1>4 DEF Background

\* The operators' steps.
LEMMA OperatorBalanced ==
  ASSUME IInv, BInv, Operator
  PROVE  BInv'
<1>1. Sound(mem) /\ Balanced(mem) /\ now \in Nat
  BY DEF IInv, BInv
<1>2. ASSUME NEW key \in AdjustKeys, NEW c \in Cards, NEW delta \in Deltas,
             AdjustCardBalance(key, c, delta)
      PROVE  BInv'
  <2>1. /\ delta < 0 => -delta <= Available(mem.cards[c])
        /\ Commit(Adjusted(mem, key, c, delta), mem)
    BY <1>2 DEF AdjustCardBalance
  <2>2. delta \in Int /\ delta # 0
    BY AmountsAssumption
  <2>3. Sound(Adjusted(mem, key, c, delta))
    BY <1>1, <2>2, AdjustedSound
  <2>4. Balanced(Adjusted(mem, key, c, delta))
    BY <1>1, <2>1, <2>2, <2>3, AdjustedBalanced
  <2> QED
    BY <1>1, <2>1, <2>4, CommitBalanced
<1>3. ASSUME NEW c \in OperatedCards, NEW status \in Statuses,
             NEW frozen \in BOOLEAN, SetStatus(c, status, frozen)
      PROVE  BInv'
  <2>1. c \in Cards
    BY CardsAssumption
  <2>2. Sound(WithStatus(mem, c, status, frozen))
    BY <1>1, <2>1, WithStatusSound
  <2>3. Balanced(WithStatus(mem, c, status, frozen))
    BY <1>1, <2>1, <2>2, QuietOperations
  <2> QED
    BY <1>1, <1>3, <2>3, CommitBalanced DEF SetStatus
<1>4. ASSUME NEW c \in OperatedCards,
             FreezeCard(c) \/ UnfreezeCard(c) \/ BanCard(c) \/ UnbanCard(c)
               \/ VoidCard(c)
      PROVE  BInv'
  <2>1. mem.cards[c].frozen \in BOOLEAN
    BY <1>1, CardsAssumption DEF Sound, TablesOK, Card
  <2> QED
    BY <1>3, <1>4, <2>1
       DEF FreezeCard, UnfreezeCard, BanCard, UnbanCard, VoidCard, Statuses
<1>5. ASSUME NEW before \in ArchiveCutoffs, ArchiveLedger(before) PROVE BInv'
  <2>1. Sound(Archived(mem, before))
    BY <1>1, ArchivedSound
  <2>2. Balanced(Archived(mem, before))
    BY <1>1, <2>1, QuietOperations
  <2> QED
    BY <1>1, <1>5, <2>2, CommitBalanced DEF ArchiveLedger
<1> QED
  BY <1>2, <1>4, <1>5 DEF Operator

\* Stopping, starting, and the clock.
LEMMA ProcessBalanced ==
  ASSUME IInv, BInv, Process
  PROVE  BInv'
<1>1. Sound(mem) /\ Sound(disk) /\ Balanced(mem) /\ Balanced(disk) /\ now \in Nat
  BY DEF IInv, BInv
<1>2. CASE Crash
  BY <1>1, <1>2 DEF Crash, Stopped, BInv, Balanced
<1>3. CASE Shutdown
  BY <1>1, <1>3 DEF Shutdown, Stopped, BInv, Balanced
<1>4. CASE Restart
  <2>1. Sound(Import(disk)) /\ SameMoney(Import(disk), disk)
    BY <1>1, ImportSound
  <2>2. Balanced(Import(disk))
    BY <1>1, <2>1, ImportBalanced
  <2>3. mem' = Import(disk) /\ UNCHANGED <<disk, now>>
    BY <1>4 DEF Restart
  <2> QED
    BY <1>1, <2>2, <2>3 DEF BInv, Balanced
<1>5. CASE Tick
  <2>1. now' = now + 1 /\ mem' = mem /\ disk' = disk
    BY <1>5 DEF Tick
  <2>2. ASSUME NEW s, Sound(s), Balanced(s)
        PROVE  /\ Accounted(s) /\ Spent(s) /\ Evidenced(s)
               /\ ~ClientsReuseIds => Covered(s) /\ Fair(s, now')
    BY <1>1, <2>1, <2>2, TickBalanced
  <2> QED
    BY <1>1, <2>1, <2>2 DEF BInv, Balanced
<1> QED
  BY <1>2, <1>3, <1>4, <1>5 DEF Process

\* No step unbalances the books.
LEMMA NextBalanced == IInv /\ BInv /\ [Next]_vars => BInv'
<1> SUFFICES ASSUME IInv, BInv, [Next]_vars PROVE BInv'
  OBVIOUS
<1>1. CASE UNCHANGED vars
  BY <1>1 DEF vars, BInv, Balanced
<1>2. CASE Next
  BY <1>2, RequestBalanced, BackgroundBalanced, OperatorBalanced, ProcessBalanced
     DEF Next
<1> QED
  BY <1>1, <1>2

\* The books balance throughout.
THEOREM AlwaysBalanced == Spec => []BInv
BY FreshBalanced, NextBalanced, Invariance, PTL DEF Spec

-----------------------------------------------------------------------------
\* The theorems.

\* What a card has reserved is always the sum of the holds that stand, however
\* they were taken, raised, returned, charged, reclaimed or summed again by a
\* start: no credit is frozen for ever and none is spent twice.
THEOREM HoldsAlwaysAccounted == Spec => []HoldsAccounted
<1>1. BInv => HoldsAccounted
  BY DEF BInv, Balanced, Accounted, HoldsAccounted
<1> QED
  BY <1>1, AlwaysBalanced, PTL

\* A card in debt has unpaid charges of its requests that come to the debt.
THEOREM DebtAlwaysEvidenced == Spec => []DebtIsEvidenced
<1>1. BInv => DebtIsEvidenced
  BY Zenon DEF BInv, Balanced, Evidenced, UnpaidSum, UnpaidOf, DebtIsEvidenced
<1> QED
  BY <1>1, AlwaysBalanced, PTL

\* What load_from_file checks: every saved state passes it, so the process can
\* always be started again, as long as no id is charged twice.
THEOREM StateAlwaysLoads ==
  ASSUME ~ClientsReuseIds PROVE Spec => []DiskLoadable
<1>1. IInv /\ BInv => DiskLoadable
  <2> SUFFICES ASSUME IInv, BInv PROVE ValidSnapshot(disk)
    BY DEF DiskLoadable
  <2>1. /\ TablesOK(disk) /\ PendingHeld(disk) /\ UnchargedWhileOpen(disk)
        /\ Accounted(disk) /\ Spent(disk)
    BY DEF IInv, Sound, BInv, Balanced
  <2>2. \A i \in DOMAIN disk.pending :
          /\ i \in DOMAIN disk.reservations
          /\ disk.reservations[i].state = "held"
          /\ LiveUsageOf(disk, i) = {}
    BY <2>1 DEF PendingHeld, UnchargedWhileOpen, LiveUsageOf
  <2>3. \A c \in Cards : disk.cards[c].reserved >= 0 /\ disk.cards[c].used = SpentOf(disk, c)
    <3> TAKE c \in Cards
    <3>1. disk.cards[c].reserved \in Nat
      BY <2>1, ReservedNat
    <3> QED
      BY <2>1, <3>1 DEF Spent
  <2> QED
    BY <2>2, <2>3 DEF ValidSnapshot
<1> QED
  BY <1>1, Invariance, AlwaysBalanced, PTL

\* However many requests of a card run at once, beyond what it was sold its
\* use and its holds come only from requests that cost more than their holds.
THEOREM ExposureAlwaysCovered ==
  ASSUME ~ClientsReuseIds PROVE Spec => []ExposureCovered
<1>1. BInv => ExposureCovered
  BY DEF BInv, Balanced, Covered, ExposureCovered
<1> QED
  BY <1>1, AlwaysBalanced, PTL

\* Nor do the daily and monthly limits give way to anything else, whatever
\* runs across midnight.
THEOREM FairUseAlwaysRespected ==
  ASSUME ~ClientsReuseIds PROVE Spec => []FairUseRespected
<1>1. IInv /\ BInv => FairUseRespected
  <2> SUFFICES ASSUME IInv, BInv, NEW c \in Cards,
                      NEW since, NEW limit, WithinLimit(mem, c, since, limit)
               PROVE  Credits(mem, UsageSince(mem, c, since)) + HeldCredits(mem, c)
                        <= limit + OverrunOf(mem, UsageSince(mem, c, since))
    <3>1. ASSUME IInv, BInv
          PROVE  \A c \in Cards : /\ WithinLimit(mem, c, StartOfDay(now), DailyLimit[c])
                                  /\ WithinLimit(mem, c, StartOfMonth(now), MonthlyLimit[c])
      BY <3>1 DEF BInv, Balanced, Fair
    <3> QED
      BY <3>1 DEF FairUseRespected
  <2>1. mem.cards[c].reserved = HeldCredits(mem, c)
    BY DEF BInv, Balanced, Accounted
  <2> QED
    BY <2>1 DEF WithinLimit
<1> QED
  BY <1>1, Invariance, AlwaysBalanced, PTL

=============================================================================
