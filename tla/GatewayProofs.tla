---------------------------- MODULE GatewayProofs -----------------------------
(***************************************************************************)
(* What Gateway guarantees for every set of requests and attempts.  Each   *)
(* of its steps is a step of Billing or leaves Billing's variables alone,  *)
(* so whatever BillingProofs proves of the engine holds of it under the    *)
(* gateway; the attempts keep their types; and what an attempt takes is    *)
(* its own until it is given back.                                         *)
(*                                                                         *)
(* The last rests on one invariant, Owned, on the attempts' records: each  *)
(* leaves along one of a few ways out, and what it has left to drop        *)
(* accounts for the guard, the lease, the permit and the open hold of its  *)
(* invocation.  From it follow that nothing leaks, that a stream's output  *)
(* is billed, and that the gateway implements ServedOnce.                  *)
(*                                                                         *)
(* Then the traces of what the gateway does, a specification of their own. *)
(* Their lists are folded again and again: the attempts and the credits of *)
(* a call are tallies of a list (SumProofs), recording, settling, pruning  *)
(* and finishing are told by what they do to every tally, and a call none  *)
(* of whose traces was dropped keeps its tallies (TracesInv).              *)
(***************************************************************************)
EXTENDS Gateway, BillingProofs, Traces, SequenceTheorems, FiniteSetTheorems

AttemptsOK ==
  /\ attempt \in [DOMAIN attempt -> Attempt]
  /\ DOMAIN attempt \subseteq Attempts
  /\ \A a \in DOMAIN attempt : attempt[a].phase = "leaving" => attempt[a].todo # <<>>

GuardOK ==
  inProgress \subseteq Invocations /\ completed \subseteq Invocations
    /\ failed \subseteq Invocations

GInv == AttemptsOK /\ GuardOK /\ inflight \in Int /\ stopping \in BOOLEAN

-----------------------------------------------------------------------------
\* Every step of the gateway calls at most one operation of the engine.

\* A bill is a settlement, or nothing where no hold stands.
LEMMA SettleBillCalls ==
  ASSUME NEW i \in Invocations, NEW charge \in Charges, SettleBill(i, charge)
  PROVE  [Next]_vars
BY DEF SettleBill, Next, Request

\* An attempt's invocation is one of the invocations.
LEMMA InvType ==
  ASSUME AttemptsOK, NEW a, a \in DOMAIN attempt
  PROVE  attempt[a].inv \in Invocations
BY DEF AttemptsOK, Attempt

\* What a request does, its engine call included.
LEMMA ServeCalls ==
  ASSUME AttemptsOK, NEW a \in Attempts, Serve(a)
  PROVE  [Next]_vars
<1> DEFINE i == attempt[a].inv
<1>1. ASSUME UNCHANGED vars PROVE [Next]_vars
  BY <1>1
<1>2. ASSUME a \in DOMAIN attempt, Request(i) PROVE [Next]_vars
  BY <1>2, InvType DEF Next
<1>3. CASE \E j \in Invocations : Arrive(a, j)
  BY <1>1, <1>3 DEF Arrive
<1>4. CASE AnswerLocally(a) \/ Leave(a) \/ BeginStream(a) \/ Output(a) \/ ClientLeaves(a)
  BY <1>1, <1>4 DEF AnswerLocally, Leave, BeginStream, Output, ClientLeaves
<1>5. CASE BeginReserving(a)
  BY <1>2, <1>5 DEF BeginReserving, In, Request
<1>6. CASE ReserveWaiting(a)
  BY <1>2, <1>6 DEF ReserveWaiting, In, Request
<1>7. CASE BillEmptyAttempt(a)
  BY <1>7, InvType, SettleBillCalls DEF BillEmptyAttempt, In
<1>8. CASE FinishStream(a)
  BY <1>8, InvType, SettleBillCalls DEF FinishStream, FinishBilled, FinishUnbilled, In
<1>9. CASE DropHold(a)
  BY <1>1, <1>2, <1>9 DEF DropHold, NextDrop, In, Request
<1>10. CASE DropProtection(a)
  BY <1>2, <1>10 DEF DropProtection, NextDrop, In, Request
<1>11. CASE DropGuard(a)
  BY <1>1, <1>11 DEF DropGuard
<1> QED
  BY <1>3, <1>4, <1>5, <1>6, <1>7, <1>8, <1>9, <1>10, <1>11 DEF Serve, Proceeds

\* So does every step.
LEMMA StepCalls ==
  ASSUME AttemptsOK, [GatewayNext]_allVars
  PROVE  [Next]_vars
<1>1. CASE UNCHANGED allVars
  BY <1>1 DEF allVars
<1>2. CASE \E a \in Attempts : Serve(a)
  BY <1>2, ServeCalls
<1>3. CASE (\E i \in Invocations : Forget(i)) \/ BeginStop
  BY <1>3 DEF Forget, BeginStop
<1>4. CASE Engine
  BY <1>4 DEF Engine, Next
<1>5. CASE OrderlyStop \/ GatewayCrash \/ Idles
  BY <1>5 DEF OrderlyStop, GatewayCrash, Idles, Next, Process
<1> QED
  BY <1>1, <1>2, <1>3, <1>4, <1>5 DEF GatewayNext

-----------------------------------------------------------------------------
\* The types of the attempts.

\* A record put among the attempts keeps their types.
LEMMA BecomesOK ==
  ASSUME AttemptsOK, NEW a \in Attempts, NEW record \in Attempt,
         record.phase = "leaving" => record.todo # <<>>,
         Becomes(a, record)
  PROVE  AttemptsOK'
BY DEF AttemptsOK, Becomes, Put

\* An attempt may begin to leave with whatever it has to drop.
LEMMA LeavingOK ==
  ASSUME AttemptsOK, NEW a \in Attempts, a \in DOMAIN attempt,
         NEW todo \in Seq(Drops), todo # <<>>,
         NEW outcome \in {"abort", "complete", "fail"}, Leaving(a, todo, outcome)
  PROVE  AttemptsOK'
<1> DEFINE r == [attempt[a] EXCEPT !.phase = "leaving", !.todo = todo,
                                   !.outcome = outcome, !.output = FALSE]
<1>1. attempt[a] \in Attempt
  BY DEF AttemptsOK
<1>2. r \in Attempt /\ r.todo = todo
  BY <1>1 DEF Attempt, Phases
<1> QED
  BY <1>2, BecomesOK DEF Leaving

\* The lists of what an attempt drops.
LEMMA TodoTypes ==
  \A todo \in {GuardOnly, Unprotected, HoldToGuard, ReleasedTwice, FailedFirst} :
    todo \in Seq(Drops) /\ todo # <<>>
<1>1. /\ GuardOnly \in Seq(Drops) /\ GuardOnly # <<>>
      /\ Unprotected \in Seq(Drops) /\ Unprotected # <<>>
      /\ FailedFirst \in Seq(Drops) /\ FailedFirst # <<>>
  BY DEF GuardOnly, Unprotected, FailedFirst, Drops
<1>2. HoldToGuard \in Seq(Drops) /\ HoldToGuard # <<>>
  BY DEF HoldToGuard, Drops
<1>3. ReleasedTwice \in Seq(Drops) /\ ReleasedTwice # <<>>
  BY DEF ReleasedTwice, Drops
<1> QED
  BY <1>1, <1>2, <1>3

\* A sequence of several elements has a tail.
LEMMA TailOK ==
  ASSUME NEW S, NEW q \in Seq(S), q # <<>>, Len(q) # 1
  PROVE  Tail(q) \in Seq(S) /\ Tail(q) # <<>>
<1>1. Tail(q) \in Seq(S) /\ Len(Tail(q)) = Len(q) - 1
  BY HeadTailProperties
<1>2. Len(q) \in Nat /\ Len(q) # 0
  OBVIOUS
<1>3. Len(Tail(q)) # 0
  BY <1>1, <1>2
<1>4. Len(<<>>) = 0
  OBVIOUS
<1>5. Tail(q) # <<>>
  BY <1>3, <1>4, Zenon
<1> QED
  BY <1>1, <1>5

\* Dropping the next thing keeps the types, the last one's included.
LEMMA NextDropOK ==
  ASSUME AttemptsOK, NEW a \in Attempts, NEW thing, NextDrop(a, thing)
  PROVE  AttemptsOK'
<1>1. a \in DOMAIN attempt /\ attempt[a] \in Attempt /\ attempt[a].todo # <<>>
  BY DEF NextDrop, In, AttemptsOK
<1> DEFINE todo == attempt[a].todo
<1>2. todo \in Seq(Drops) /\ todo # <<>>
  BY <1>1 DEF Attempt
<1>3. CASE Len(todo) = 1
  BY <1>3 DEF NextDrop, DropNext, Without, Restrict, AttemptsOK
<1>4. CASE Len(todo) # 1
  <2>1. Tail(todo) \in Seq(Drops) /\ Tail(todo) # <<>>
    BY <1>2, <1>4, TailOK
  <2>2. [attempt[a] EXCEPT !.todo = Tail(todo)] \in Attempt
    BY <1>1, <2>1 DEF Attempt
  <2>3. attempt' = [attempt EXCEPT ![a] = [attempt[a] EXCEPT !.todo = Tail(todo)]]
    BY <1>4 DEF NextDrop, DropNext
  <2>4. [attempt[a] EXCEPT !.todo = Tail(todo)].todo = Tail(todo)
    BY <1>1 DEF Attempt
  <2> QED
    BY <1>1, <2>1, <2>2, <2>3, <2>4 DEF AttemptsOK
<1> QED
  BY <1>3, <1>4

\* No attempts are well-typed attempts.
LEMMA NoAttempts ==
  /\ DOMAIN NoRecords = {}
  /\ NoRecords \in [DOMAIN NoRecords -> Attempt]
BY DEF NoRecords

\* What dies with the process leaves well-typed memory.
LEMMA LostOK == Lost => GInv'
<1> SUFFICES ASSUME Lost PROVE GInv'
  OBVIOUS
<1>1. attempt' = NoRecords /\ DOMAIN attempt' = {}
  BY NoAttempts DEF Lost
<1>2. attempt' \in [DOMAIN attempt' -> Attempt]
  BY <1>1, NoAttempts
<1>3. AttemptsOK'
  BY <1>1, <1>2 DEF AttemptsOK
<1> QED
  <2>1. GuardOK' /\ stopping' \in BOOLEAN
    BY Zenon DEF Lost, GuardOK
  <2>2. inflight' \in Int
    BY DEF Lost
  <2> QED
    BY <1>3, <2>1, <2>2 DEF GInv

\* What leaves all of it alone keeps its types.
LEMMA SameOK == GInv /\ UNCHANGED gateway => GInv'
BY DEF GInv, AttemptsOK, GuardOK, gateway

\* A request's step keeps the types.
LEMMA ServeTyped ==
  ASSUME GInv, NEW a \in Attempts, Serve(a)
  PROVE  GInv'
<1> USE DEF GInv, guard
<1>1. CASE \E i \in Invocations : Arrive(a, i)
  <2>1. PICK i \in Invocations : Arrive(a, i)
    BY <1>1
  <2> DEFINE r == [inv |-> i, phase |-> "admitted", todo |-> <<>>,
                   outcome |-> "abort", output |-> FALSE, connected |-> TRUE]
  <2>2. r \in Attempt /\ r.phase # "leaving"
    BY DEF Attempt, Phases
  <2>3. AttemptsOK'
    BY <2>1, <2>2, BecomesOK DEF Arrive
  <2> QED
    BY <2>1, <2>3 DEF Arrive, Acquire, GuardOK
<1>2. ASSUME a \in DOMAIN attempt,
             NEW todo \in {GuardOnly, Unprotected, HoldToGuard, ReleasedTwice, FailedFirst},
             NEW outcome \in {"abort", "complete", "fail"},
             Leaving(a, todo, outcome), UNCHANGED <<inflight, stopping>>, UNCHANGED guard
      PROVE  GInv'
  BY <1>2, TodoTypes, LeavingOK DEF GuardOK
<1>3. CASE AnswerLocally(a) \/ Leave(a)
  BY <1>2, <1>3 DEF AnswerLocally, Leave, In
<1>4. CASE BillEmptyAttempt(a)
  BY <1>2, <1>4, LostOK DEF BillEmptyAttempt, UnlessDead, In
<1>5. CASE FinishStream(a)
  <2>1. a \in DOMAIN attempt
    BY <1>5 DEF FinishStream, In
  <2>2. PICK verdict \in Verdicts(attempt[a].output) :
          FinishBilled(a, verdict.completes) \/ FinishUnbilled(a, verdict.completes)
    BY <1>5 DEF FinishStream
  <2> DEFINE completes == verdict.completes
  <2>3. \A outcome \in BilledOutcomes(a, completes) \cup UnbilledOutcomes(a, completes) :
          outcome \in {"abort", "complete", "fail"}
    BY DEF BilledOutcomes, UnbilledOutcomes, Delivered
  <2>4. CASE FinishBilled(a, completes)
    BY <1>2, <2>1, <2>3, <2>4, LostOK DEF FinishBilled, UnlessDead
  <2>5. CASE FinishUnbilled(a, completes)
    BY <1>2, <2>1, <2>3, <2>5 DEF FinishUnbilled
  <2> QED
    BY <2>2, <2>4, <2>5
<1>6. ASSUME a \in DOMAIN attempt, NEW record \in Attempt, record.phase # "leaving",
             Becomes(a, record), inflight' \in Int, UNCHANGED stopping, UNCHANGED guard
      PROVE  GInv'
  BY <1>6, BecomesOK DEF GuardOK
<1>7. CASE \/ BeginReserving(a) \/ ReserveWaiting(a) \/ BeginStream(a)
           \/ Output(a) \/ ClientLeaves(a)
  <2>1. a \in DOMAIN attempt /\ attempt[a] \in Attempt /\ attempt[a].phase # "leaving"
    BY <1>7 DEF BeginReserving, ReserveWaiting, BeginStream, Output, ClientLeaves, In,
                AttemptsOK
  <2>2. \A phase \in Phases \ {"leaving"} :
          /\ [attempt[a] EXCEPT !.phase = phase] \in Attempt
          /\ [attempt[a] EXCEPT !.phase = phase].phase # "leaving"
    BY <2>1 DEF Attempt
  <2>3. /\ [attempt[a] EXCEPT !.output = TRUE] \in Attempt
        /\ [attempt[a] EXCEPT !.output = TRUE].phase # "leaving"
        /\ [attempt[a] EXCEPT !.connected = FALSE] \in Attempt
        /\ [attempt[a] EXCEPT !.connected = FALSE].phase # "leaving"
    BY <2>1 DEF Attempt
  <2>4. {"reserving", "routing", "streaming"} \subseteq Phases \ {"leaving"}
    BY DEF Phases
  <2>5. CASE BeginReserving(a)
    <3>1. inflight' \in Int /\ UNCHANGED stopping /\ UNCHANGED guard
      BY <2>5 DEF BeginReserving
    <3>2. Becomes(a, [attempt[a] EXCEPT !.phase = "reserving"])
      BY <2>5 DEF BeginReserving
    <3> QED
      BY <1>6, <2>1, <2>2, <2>4, <3>1, <3>2
  <2>6. CASE ReserveWaiting(a)
    BY <1>6, <2>1, <2>2, <2>4, <2>6 DEF ReserveWaiting
  <2>7. CASE BeginStream(a)
    BY <1>6, <2>1, <2>2, <2>4, <2>7 DEF BeginStream
  <2>8. CASE Output(a) \/ ClientLeaves(a)
    BY <1>6, <2>1, <2>3, <2>8 DEF Output, ClientLeaves
  <2> QED
    BY <1>7, <2>5, <2>6, <2>7, <2>8
<1>8. CASE DropHold(a) \/ DropProtection(a) \/ DropGuard(a)
  <2>1. AttemptsOK' /\ a \in DOMAIN attempt
    BY <1>8, NextDropOK DEF DropHold, DropProtection, DropGuard, NextDrop, In
  <2>2. inflight' \in Int /\ stopping' \in BOOLEAN
    BY <1>8 DEF DropHold, DropProtection, DropGuard
  <2>3. GuardOK'
    BY <1>8, <2>1, InvType
       DEF DropHold, DropProtection, DropGuard, EndGuard, GuardOK
  <2> QED
    BY <2>1, <2>2, <2>3
<1> QED
  BY <1>1, <1>3, <1>4, <1>5, <1>7, <1>8 DEF Serve, Proceeds

\* Every step keeps the types.
LEMMA StepTyped ==
  ASSUME GInv, [GatewayNext]_allVars
  PROVE  GInv'
<1>1. CASE UNCHANGED allVars
  BY <1>1, SameOK DEF allVars
<1>2. CASE \E a \in Attempts : Serve(a)
  BY <1>2, ServeTyped
<1>3. CASE \E i \in Invocations : Forget(i)
  BY <1>3 DEF Forget, GInv, AttemptsOK, GuardOK
<1>4. CASE BeginStop
  BY <1>4 DEF BeginStop, GInv, AttemptsOK, GuardOK, guard
<1>5. CASE Engine \/ OrderlyStop \/ GatewayCrash \/ Idles
  BY <1>5, LostOK, SameOK DEF Engine, UnlessDead, OrderlyStop, GatewayCrash, Idles
<1> QED
  BY <1>1, <1>2, <1>3, <1>4, <1>5 DEF GatewayNext

\* The types of the attempts hold throughout.
LEMMA AttemptsTyped == GatewaySpec => []GInv
<1>1. GatewayInit => GInv
  <2> SUFFICES ASSUME GatewayInit PROVE GInv
    OBVIOUS
  <2>1. attempt \in [DOMAIN attempt -> Attempt] /\ DOMAIN attempt = {}
    BY NoAttempts DEF GatewayInit
  <2>2. AttemptsOK
    BY <2>1 DEF AttemptsOK
  <2>3. GuardOK /\ stopping \in BOOLEAN
    BY Zenon DEF GatewayInit, GuardOK
  <2>4. inflight \in Int
    BY DEF GatewayInit
  <2> QED
    BY <2>2, <2>3, <2>4 DEF GInv
<1> QED
  BY <1>1, StepTyped, PTL DEF GatewaySpec

-----------------------------------------------------------------------------
\* The theorems.

\* Every behaviour of the gateway is one of the billing engine, so every
\* theorem about the engine holds under it.
THEOREM GatewayCallsBilling == GatewaySpec => Spec
<1>1. GatewayInit => Init
  BY DEF GatewayInit
<1>2. GInv /\ [GatewayNext]_allVars => [Next]_vars
  BY StepCalls DEF GInv
<1> QED
  BY <1>1, <1>2, AttemptsTyped, PTL DEF GatewaySpec, Spec

\* Whatever attempts, stops and crashes interleave, the gateway's state and
\* the engine's keep their types, and no attempt stays with nothing to drop.
THEOREM GatewayTypes == GatewaySpec => []GatewayTypeOK
<1>1. GInv /\ TypeOK => GatewayTypeOK
  BY DEF GInv, AttemptsOK, GuardOK, GatewayTypeOK
<1> QED
  BY <1>1, AttemptsTyped, GatewayCallsBilling, BillingTypes, PTL

\* However often an invocation is sent through the gateway, its request is
\* charged once.
THEOREM GatewayChargesOnce ==
  ASSUME ~ClientsReuseIds PROVE GatewaySpec => []ChargedOnce
BY GatewayCallsBilling, NoRequestChargedTwice, PTL

\* Nor do the gateway's retries, stops and crashes ever bring the engine's
\* amounts out of balance: what is reserved is held, the debt is evidenced, the
\* saved state loads, and what a card may owe and use keeps to its limits.
THEOREM GatewayKeepsAccounts ==
  ASSUME ~ClientsReuseIds
  PROVE  GatewaySpec => [](/\ HoldsAccounted /\ DebtIsEvidenced /\ DiskLoadable
                           /\ ExposureCovered /\ FairUseRespected)
BY GatewayCallsBilling, HoldsAlwaysAccounted, DebtAlwaysEvidenced, StateAlwaysLoads,
   ExposureAlwaysCovered, FairUseAlwaysRespected, PTL

-----------------------------------------------------------------------------
\* What the engine's operations make of the holds and of the bills.

\* A hold that stands with no bill outstanding.
Open(s, i) ==
  /\ i \in DOMAIN s.reservations /\ s.reservations[i].state = "held"
  /\ i \notin DOMAIN s.pending

\* What a release would find is an open hold of the memory.
LEMMA ReleasableIsOpen == \A i : Releasable(i) <=> Open(mem, i)
BY DEF Releasable, HoldStands, Open

\* Bills are read from the ledger and the intents alone.
LEMMA SameBills ==
  ASSUME NEW s, NEW t, t.ledger = s.ledger, DOMAIN t.pending = DOMAIN s.pending
  PROVE  BilledIn(t) = BilledIn(s)
BY DEF BilledIn, UsageOf

\* An entry appended bills what it charges.
LEMMA AppendedBills ==
  ASSUME NEW s, NEW t, s.ledger \in Seq(Entry), NEW e \in Entry,
         t.ledger = Append(s.ledger, e)
  PROVE  \A i : UsageOf(t, i) # {} <=>
                  UsageOf(s, i) # {} \/ (e.kind = "usage" /\ e.ref = i)
<1>1. /\ DOMAIN t.ledger = DOMAIN s.ledger \cup {Len(s.ledger) + 1}
      /\ t.ledger[Len(s.ledger) + 1] = e
      /\ \A k \in DOMAIN s.ledger : t.ledger[k] = s.ledger[k]
  BY Appended
<1> QED
  BY <1>1 DEF UsageOf

\* A hold made opens its invocation's alone, and bills nothing.
LEMMA HoldTables ==
  ASSUME NEW s, TablesOK(s), NEW i, NEW amount, i \notin DOMAIN s.pending
  PROVE  /\ BilledIn(Hold(s, i, amount)) = BilledIn(s)
         /\ \A j : Open(Hold(s, i, amount), j) <=> Open(s, j) \/ j = i
<1> DEFINE t == Hold(s, i, amount)
           r == [state |-> "held", amount |-> amount, created |-> now,
                 expires |-> now + Ttl]
<1>1. /\ t.reservations = Put(s.reservations, i, r)
      /\ t.pending = s.pending /\ t.ledger = s.ledger
  BY DEF TablesOK, IsSnapshot, Hold
<1>2. r.state = "held"
  OBVIOUS
<1> HIDE DEF t, r
<1>3. BilledIn(t) = BilledIn(s)
  BY <1>1, SameBills
<1>4. \A j : Open(t, j) <=> Open(s, j) \/ j = i
  BY <1>1, <1>2 DEF Open, Put
<1> QED
  BY <1>3, <1>4 DEF t

\* Holds returned are open no more, and bill nothing.
LEMMA ReturnedTables ==
  ASSUME NEW s, TablesOK(s), NEW ids
  PROVE  /\ BilledIn(Returned(s, ids)) = BilledIn(s)
         /\ \A j : Open(Returned(s, ids), j) <=> Open(s, j) /\ j \notin ids
<1> DEFINE t == Returned(s, ids)
<1>1. /\ t.reservations = Closed(s, ids)
      /\ t.pending = s.pending /\ t.ledger = s.ledger
  BY DEF TablesOK, IsSnapshot, Returned
<1> HIDE DEF t
<1>2. BilledIn(t) = BilledIn(s)
  BY <1>1, SameBills
<1>3. \A j : Open(t, j) <=> Open(s, j) /\ j \notin ids
  BY <1>1, ClosedReservations DEF Open
<1> QED
  BY <1>2, <1>3 DEF t

\* Forgetting terminal records leaves holds and bills.
LEMMA ForgottenTables ==
  ASSUME NEW s, TablesOK(s)
  PROVE  /\ BilledIn(Forgotten(s)) = BilledIn(s)
         /\ \A j : Open(Forgotten(s), j) <=> Open(s, j)
<1> DEFINE t == Forgotten(s)
<1>1. /\ t.reservations = Without(s.reservations, Forgettable(s))
      /\ t.pending = s.pending /\ t.ledger = s.ledger
  BY DEF TablesOK, IsSnapshot, Forgotten
<1> HIDE DEF t
<1>2. BilledIn(t) = BilledIn(s)
  BY <1>1, SameBills
<1>3. \A j : Open(t, j) <=> Open(s, j)
  BY <1>1 DEF Open, Without, Restrict, Forgettable
<1> QED
  BY <1>2, <1>3 DEF t

\* A debit bills its invocation, and its hold is open no more.
LEMMA DebitedTables ==
  ASSUME NEW s, TablesOK(s), NEW i \in DOMAIN s.reservations, NEW bill \in Bill
  PROVE  /\ BilledIn(Debited(s, i, bill)) = BilledIn(s) \cup {i}
         /\ \A j : Open(Debited(s, i, bill), j) <=> Open(s, j) /\ j # i
<1> DEFINE t == Debited(s, i, bill)
           e == UsageEntry(i, bill)
<1>1. i \in Invocations /\ e \in Entry
  BY IdsAssumption DEF TablesOK, Bill, UsageEntry, Entry
<1>2. /\ t.reservations = [s.reservations EXCEPT ![i].state = "settled"]
      /\ t.pending = Without(s.pending, {i})
      /\ t.ledger = Append(s.ledger, e)
  BY DEF TablesOK, IsSnapshot, Debited
<1>3. e.kind = "usage" /\ e.ref = i
  BY DEF UsageEntry
<1> HIDE DEF t, e
<1>4. \A j : UsageOf(t, j) # {} <=> UsageOf(s, j) # {} \/ j = i
  <2>1. s.ledger \in Seq(Entry)
    BY DEF TablesOK
  <2>2. \A j : UsageOf(t, j) # {} <=>
                 UsageOf(s, j) # {} \/ (e.kind = "usage" /\ e.ref = j)
    BY <1>1, <1>2, <2>1, AppendedBills
  <2> QED
    BY <1>3, <2>2
<1>5. DOMAIN t.pending = DOMAIN s.pending \ {i}
  BY <1>2 DEF Without, Restrict
<1>6. BilledIn(t) = BilledIn(s) \cup {i}
  BY <1>1, <1>4, <1>5 DEF BilledIn
<1>7. /\ DOMAIN t.reservations = DOMAIN s.reservations
      /\ \A j \in DOMAIN s.reservations \ {i} : t.reservations[j] = s.reservations[j]
      /\ t.reservations[i].state = "settled"
  <2>1. s.reservations[i] \in Reservation
    BY DEF TablesOK
  <2>2. [s.reservations[i] EXCEPT !.state = "settled"].state = "settled"
    BY <2>1 DEF Reservation
  <2> QED
    BY <1>2, <2>2
<1>8. \A j : Open(t, j) <=> Open(s, j) /\ j # i
  BY <1>5, <1>7 DEF Open
<1> QED
  BY <1>6, <1>8 DEF t

\* So does an intent.
LEMMA IntendedTables ==
  ASSUME NEW s, TablesOK(s), NEW i \in DOMAIN s.reservations, NEW bill
  PROVE  /\ BilledIn(Intended(s, i, bill)) = BilledIn(s) \cup {i}
         /\ \A j : Open(Intended(s, i, bill), j) <=> Open(s, j) /\ j # i
<1> DEFINE t == Intended(s, i, bill)
<1>1. /\ t.reservations = s.reservations
      /\ t.pending = Put(s.pending, i, bill) /\ t.ledger = s.ledger
  BY DEF TablesOK, IsSnapshot, Intended
<1> HIDE DEF t
<1>2. DOMAIN t.pending = DOMAIN s.pending \cup {i}
  BY <1>1 DEF Put
<1>3. BilledIn(t) = BilledIn(s) \cup {i}
  BY <1>1, <1>2 DEF BilledIn, UsageOf, TablesOK
<1>4. \A j : Open(t, j) <=> Open(s, j) /\ j # i
  BY <1>1, <1>2 DEF Open
<1> QED
  BY <1>3, <1>4 DEF t

\* A start keeps the bills, and no open hold.
LEMMA ImportTables ==
  ASSUME NEW s, Sound(s)
  PROVE  /\ BilledIn(Import(s)) = BilledIn(s)
         /\ \A j : ~Open(Import(s), j)
<1> DEFINE t == Import(s)
           kept == {i \in DOMAIN s.reservations :
                      s.reservations[i].state = "held" => i \in DOMAIN s.pending}
<1>1. TablesOK(s)
  BY DEF Sound
<1>2. /\ t.reservations = RestoredRecords(s)
      /\ t.pending = s.pending /\ t.ledger = s.ledger
  BY <1>1 DEF TablesOK, IsSnapshot, Import
<1>3. BilledIn(t) = BilledIn(s)
  BY <1>2, SameBills
<1>4. ASSUME NEW j, Open(t, j) PROVE FALSE
  <2>1. /\ j \in DOMAIN RestoredRecords(s) /\ j \notin DOMAIN s.pending
        /\ RestoredRecords(s)[j].state = "held"
    BY <1>2, <1>4 DEF Open
  <2>2. j \in DOMAIN s.reservations /\ s.reservations[j].state = "held"
    BY <1>1, <2>1, RestoredRecordsType
  <2>3. j \in kept
    BY <2>1, <2>2 DEF RestoredRecords
  <2> QED
    BY <2>1, <2>2, <2>3
<1> QED
  BY <1>3, <1>4

\* What the engine does of itself to tables s it makes into t: the bills stay,
\* no hold opens, and one under a lease stays open.
Quiet(s, t) ==
  /\ BilledIn(t) = BilledIn(s)
  /\ \A i : /\ Open(t, i) => Open(s, i)
            /\ Open(s, i) /\ leases[i] > 0 => Open(t, i)

\* However a commit ends.
LEMMA CommitEnds ==
  ASSUME NEW candidate, NEW orElse, up, Commit(candidate, orElse)
  PROVE  /\ disk' \in {disk, candidate}
         /\ up' => UNCHANGED leases /\ mem' \in {candidate, orElse}
         /\ ~up' => disk' = candidate /\ Stopped
BY DEF Commit, Saved, NotSaved, DiedOnceSaved, Stopped

\* The background task and the operators commit quiet tables.
LEMMA EngineQuiet ==
  ASSUME IInv, Background \/ Operator
  PROVE  up /\ \E candidate : Quiet(mem, candidate) /\ Commit(candidate, mem)
<1>0. Sound(mem) /\ TablesOK(mem)
  BY DEF IInv, Sound
<1>1. Quiet(mem, mem)
  BY DEF Quiet
<1>2. CASE ProbePersistence
  BY <1>1, <1>2 DEF ProbePersistence
<1>3. ASSUME NEW i \in Invocations, RetryPendingSettlement(i)
      PROVE  up /\ \E candidate : Quiet(mem, candidate) /\ Commit(candidate, mem)
  <2> DEFINE t == Debited(mem, i, mem.pending[i])
  <2>1. i \in DOMAIN mem.reservations /\ i \in DOMAIN mem.pending
    BY <1>0, <1>3 DEF RetryPendingSettlement, Sound, PendingHeld
  <2>2. mem.pending[i] \in Bill
    BY <1>0, <2>1 DEF TablesOK
  <2>3. BilledIn(t) = BilledIn(mem) \cup {i} /\ \A j : Open(t, j) <=> Open(mem, j) /\ j # i
    BY <1>0, <2>1, <2>2, DebitedTables
  <2>4. i \in BilledIn(mem) /\ ~Open(mem, i)
    BY <2>1 DEF BilledIn, Open
  <2>5. Quiet(mem, t)
    BY <2>3, <2>4 DEF Quiet
  <2> QED
    BY <1>3, <2>5 DEF RetryPendingSettlement
<1>4. CASE RunJanitor
  <2> DEFINE t == Returned(mem, Orphans)
  <2>1. Sound(t)
    BY <1>0, ReturnedSound DEF Orphans
  <2>2. /\ BilledIn(t) = BilledIn(mem)
        /\ \A j : Open(t, j) <=> Open(mem, j) /\ j \notin Orphans
    BY <1>0, ReturnedTables
  <2>3. /\ BilledIn(Forgotten(t)) = BilledIn(t)
        /\ \A j : Open(Forgotten(t), j) <=> Open(t, j)
    BY <2>1, ForgottenTables DEF Sound
  <2>4. \A j \in Orphans : leases[j] = 0
    BY DEF Orphans
  <2> HIDE DEF t
  <2>5. Quiet(mem, Forgotten(t))
    BY <2>2, <2>3, <2>4 DEF Quiet
  <2> QED
    BY <1>4, <2>5 DEF RunJanitor, t
<1>5. ASSUME NEW t, t.reservations = mem.reservations, t.pending = mem.pending,
             \A i : UsageOf(t, i) # {} <=> UsageOf(mem, i) # {},
             up, Commit(t, mem)
      PROVE  up /\ \E candidate : Quiet(mem, candidate) /\ Commit(candidate, mem)
  <2>1. BilledIn(t) = BilledIn(mem) /\ \A i : Open(t, i) <=> Open(mem, i)
    BY <1>5 DEF BilledIn, Open
  <2> QED
    BY <1>5, <2>1 DEF Quiet
<1>6. ASSUME NEW key \in AdjustKeys, NEW c \in Cards, NEW delta \in Deltas,
             AdjustCardBalance(key, c, delta)
      PROVE  up /\ \E candidate : Quiet(mem, candidate) /\ Commit(candidate, mem)
  <2> DEFINE t == Adjusted(mem, key, c, delta)
             e == [kind |-> "adjustment", card |-> c, ref |-> key,
                   credits |-> delta, ts |-> now]
  <2>1. /\ t.reservations = mem.reservations /\ t.pending = mem.pending
        /\ t.ledger = Append(mem.ledger, e)
    BY <1>0 DEF TablesOK, IsSnapshot, Adjusted
  <2>2. e \in Entry /\ e.kind = "adjustment"
    BY AmountsAssumption, TimesAssumption DEF IInv, Entry
  <2>3. mem.ledger \in Seq(Entry)
    BY <1>0 DEF TablesOK
  <2> HIDE DEF e
  <2>4. \A i : UsageOf(t, i) # {} <=> UsageOf(mem, i) # {}
    <3>1. \A i : UsageOf(t, i) # {} <=>
                  UsageOf(mem, i) # {} \/ (e.kind = "usage" /\ e.ref = i)
      BY <2>1, <2>2, <2>3, AppendedBills
    <3> QED
      BY <2>2, <3>1
  <2> QED
    BY <1>5, <1>6, <2>1, <2>4 DEF AdjustCardBalance
<1>7. ASSUME NEW c \in OperatedCards, NEW status, NEW frozen, up,
             SetStatus(c, status, frozen)
      PROVE  up /\ \E candidate : Quiet(mem, candidate) /\ Commit(candidate, mem)
  <2> DEFINE t == WithStatus(mem, c, status, frozen)
  <2>1. /\ t.reservations = mem.reservations /\ t.pending = mem.pending
        /\ t.ledger = mem.ledger
    BY <1>0 DEF TablesOK, IsSnapshot, WithStatus
  <2> QED
    BY <1>5, <1>7, <2>1 DEF SetStatus, UsageOf
<1>8. ASSUME NEW before \in ArchiveCutoffs, ArchiveLedger(before)
      PROVE  up /\ \E candidate : Quiet(mem, candidate) /\ Commit(candidate, mem)
  <2> DEFINE t == Archived(mem, before)
  <2>1. /\ t.reservations = mem.reservations /\ t.pending = mem.pending
        /\ t.ledger = mem.ledger
    BY <1>0 DEF TablesOK, IsSnapshot, Archived
  <2> QED
    BY <1>5, <1>8, <2>1 DEF ArchiveLedger, UsageOf
<1>9. ASSUME NEW c \in OperatedCards,
             FreezeCard(c) \/ UnfreezeCard(c) \/ BanCard(c) \/ UnbanCard(c) \/ VoidCard(c)
      PROVE  up /\ \E candidate : Quiet(mem, candidate) /\ Commit(candidate, mem)
  BY <1>7, <1>9 DEF FreezeCard, UnfreezeCard, BanCard, UnbanCard, VoidCard
<1> QED
  BY <1>2, <1>3, <1>4, <1>6, <1>8, <1>9 DEF Background, Operator

-----------------------------------------------------------------------------
\* The invariant of ownership.

\* What an attempt that gave its guard up first has left to drop.
HoldAndLease == <<"hold", "lease">>
LeaseLast == <<"lease">>

FailedItself == {FailedFirst, HoldAndLease, LeaseLast}

Todos == {GuardOnly, Unprotected, HoldToGuard, ReleasedTwice} \cup FailedItself

\* An attempt leaves along one of the ways out, only a stream has output, and
\* what gives its guard up first has been billed.
WayOut(record) ==
  /\ IF record.phase = "leaving" THEN record.todo \in Todos ELSE record.todo = <<>>
  /\ record.output => record.phase = "streaming"

WaysOut ==
  \A a \in DOMAIN attempt :
    /\ WayOut(attempt[a])
    /\ attempt[a].todo \in FailedItself => attempt[a].inv \in BilledIn(mem)

\* What an attempt has, read from its record.
Owning(r, thing) ==
  \/ thing \in Range(r.todo)
  \/ thing = "guard" /\ r.phase # "leaving"
  \/ thing = "lease" /\ r.phase \in {"reserving", "routing", "streaming"}
  \/ thing = "hold" /\ r.phase \in {"routing", "streaming"}

Has(a, i, thing) ==
  a \in DOMAIN attempt /\ attempt[a].inv = i /\ Owning(attempt[a], thing)

\* An invocation in progress is that of one attempt.
GuardsMatch ==
  /\ \A a, i : Has(a, i, "guard") => i \in inProgress
  /\ \A a, b, i : Has(a, i, "guard") /\ Has(b, i, "guard") => a = b
  /\ \A i \in inProgress : \E a \in Attempts : Has(a, i, "guard")

\* An open hold is that of an attempt which has the guard too, and an attempt
\* upstream finds its hold open.
HoldsMatch ==
  /\ \A a : Upstream(a) => Releasable(attempt[a].inv)
  /\ up => \A i \in Invocations : Releasable(i) =>
       \E a \in Attempts : Has(a, i, "guard") /\ Has(a, i, "hold")

LeaseOwners(i) == {a \in Attempts : Has(a, i, "lease")}

AllLeaseOwners == {a \in Attempts : a \in DOMAIN attempt /\ Owning(attempt[a], "lease")}

\* Leases and permits are counted as the attempts have them.
LeasesMatch ==
  /\ inflight = Cardinality(AllLeaseOwners)
  /\ inflight <= MaxInflight
  /\ \A i \in Invocations : leases[i] = Cardinality(LeaseOwners(i))

\* Attempts do not outlive the process.
DownIsEmpty == ~up => DOMAIN attempt = {}

Owned == WaysOut /\ GuardsMatch /\ HoldsMatch /\ LeasesMatch /\ DownIsEmpty

-----------------------------------------------------------------------------
\* What an attempt has, by its phase and by what it still drops.

\* The ways out, item by item.
LEMMA TodoItems ==
  /\ Range(<<>>) = {}
  /\ Range(GuardOnly) = {"guard"}
  /\ Range(Unprotected) = {"lease", "guard"}
  /\ Range(HoldToGuard) = {"hold", "lease", "guard"}
  /\ Range(ReleasedTwice) = {"hold", "lease", "guard"}
  /\ Range(FailedFirst) = {"guard", "hold", "lease"}
  /\ Range(HoldAndLease) = {"hold", "lease"}
  /\ Range(LeaseLast) = {"lease"}
<1>1. /\ Range(<<>>) = {}
      /\ Range(GuardOnly) = {"guard"}
      /\ Range(LeaseLast) = {"lease"}
  BY DEF Range, GuardOnly, LeaseLast
<1>2. /\ Range(Unprotected) = {"lease", "guard"}
      /\ Range(HoldAndLease) = {"hold", "lease"}
  BY DEF Range, Unprotected, HoldAndLease
<1>3. Range(HoldToGuard) = {"hold", "lease", "guard"}
  BY DEF Range, HoldToGuard
<1>4. Range(FailedFirst) = {"guard", "hold", "lease"}
  BY DEF Range, FailedFirst
<1>5. Range(ReleasedTwice) = {"hold", "lease", "guard"}
  BY DEF Range, ReleasedTwice
<1> QED
  BY <1>1, <1>2, <1>3, <1>4, <1>5

\* What dropping the first item leaves.
LEMMA TodoSteps ==
  ASSUME NEW todo \in Todos
  PROVE  /\ Head(todo) = "hold" =>
              \/ todo = HoldToGuard /\ Tail(todo) = Unprotected
              \/ todo = ReleasedTwice /\ Tail(todo) = HoldToGuard
              \/ todo = HoldAndLease /\ Tail(todo) = LeaseLast
         /\ Head(todo) = "lease" =>
              \/ todo = Unprotected /\ Tail(todo) = GuardOnly
              \/ todo = LeaseLast
         /\ Head(todo) = "guard" =>
              \/ todo = GuardOnly
              \/ todo = FailedFirst /\ Tail(todo) = HoldAndLease
         /\ Len(todo) = 1 <=> todo \in {GuardOnly, LeaseLast}
<1>2. CASE todo = GuardOnly
  BY <1>2 DEF GuardOnly
<1>3. CASE todo = Unprotected
  BY <1>3 DEF Unprotected, GuardOnly, LeaseLast
<1>4. CASE todo = HoldToGuard
  BY <1>4 DEF HoldToGuard, Unprotected, GuardOnly, LeaseLast
<1>5. CASE todo = ReleasedTwice
  BY <1>5 DEF ReleasedTwice, HoldToGuard, GuardOnly, LeaseLast
<1>6. CASE todo = FailedFirst
  BY <1>6 DEF FailedFirst, HoldAndLease, GuardOnly, LeaseLast
<1>7. CASE todo = HoldAndLease
  BY <1>7 DEF HoldAndLease, LeaseLast, GuardOnly
<1>8. CASE todo = LeaseLast
  BY <1>8 DEF LeaseLast
<1> QED
  BY <1>2, <1>3, <1>4, <1>5, <1>6, <1>7, <1>8 DEF Todos, FailedItself

\* The ways out differ.
LEMMA TodosDiffer ==
  /\ {GuardOnly, Unprotected, HoldToGuard, ReleasedTwice} \cap FailedItself = {}
  /\ <<>> \notin Todos
<1>2. /\ Len(GuardOnly) = 1 /\ Len(Unprotected) = 2 /\ Len(HoldToGuard) = 3
      /\ Len(ReleasedTwice) = 4 /\ Len(FailedFirst) = 3 /\ Len(HoldAndLease) = 2
      /\ Len(LeaseLast) = 1 /\ Len(<<>>) = 0
  BY DEF GuardOnly, Unprotected, HoldToGuard, ReleasedTwice, FailedFirst, HoldAndLease,
         LeaseLast
<1>3. /\ Head(GuardOnly) = "guard" /\ Head(LeaseLast) = "lease"
      /\ Head(Unprotected) = "lease" /\ Head(HoldAndLease) = "hold"
      /\ Head(HoldToGuard) = "hold" /\ Head(FailedFirst) = "guard"
  BY DEF GuardOnly, LeaseLast, Unprotected, HoldAndLease, HoldToGuard, FailedFirst
<1>4. \A t \in Todos : Len(t) # 0
  BY <1>2 DEF Todos, FailedItself
<1>5. GuardOnly \notin FailedItself /\ Unprotected \notin FailedItself
  BY <1>2, <1>3 DEF FailedItself
<1>6. HoldToGuard \notin FailedItself /\ ReleasedTwice \notin FailedItself
  BY <1>2, <1>3 DEF FailedItself
<1> QED
  BY <1>2, <1>4, <1>5, <1>6

-----------------------------------------------------------------------------
\* The parts of the invariant, where one attempt's record changes.

\* Only the attempt `a` changes.
Only(a) ==
  \A b : b # a =>
    /\ b \in DOMAIN attempt' <=> b \in DOMAIN attempt
    /\ b \in DOMAIN attempt => attempt'[b] = attempt[b]

\* An attempt that becomes a record changes alone.
LEMMA BecomesOnly ==
  ASSUME NEW a, NEW record, Becomes(a, record)
  PROVE  Only(a) /\ a \in DOMAIN attempt' /\ attempt'[a] = record
BY DEF Becomes, Put, Only

\* The others keep what they have.
LEMMA OthersKeep ==
  ASSUME NEW a, Only(a)
  PROVE  \A b : b # a =>
           /\ \A i, thing : Has(b, i, thing)' <=> Has(b, i, thing)
           /\ Upstream(b)' <=> Upstream(b)
           /\ Upstream(b) => attempt'[b] = attempt[b]
BY DEF Only, Has, Owning, Upstream, In

\* The ways out where one attempt changes and no bill is forgotten.
LEMMA WaysStay ==
  ASSUME WaysOut, NEW a, Only(a), BilledIn(mem) \subseteq BilledIn(mem'),
         a \in DOMAIN attempt' =>
           /\ WayOut(attempt'[a])
           /\ attempt'[a].todo \in FailedItself => attempt'[a].inv \in BilledIn(mem')
  PROVE  WaysOut'
BY DEF WaysOut, Only, WayOut

\* The attempt keeps its guard, or its lack of one.
LEMMA GuardsStay ==
  ASSUME GuardsMatch, NEW a, Only(a), a \in DOMAIN attempt, a \in DOMAIN attempt',
         attempt'[a].inv = attempt[a].inv,
         Owning(attempt'[a], "guard") <=> Owning(attempt[a], "guard"),
         UNCHANGED inProgress
  PROVE  GuardsMatch'
<1>1. \A b, i : Has(b, i, "guard")' <=> Has(b, i, "guard")
  BY OthersKeep DEF Has
<1> QED
  BY <1>1 DEF GuardsMatch

\* The attempt keeps its lease, or its lack of one.
LEMMA LeasesStay ==
  ASSUME LeasesMatch, NEW a, Only(a),
         \A i : Has(a, i, "lease")' <=> Has(a, i, "lease"),
         (a \in DOMAIN attempt /\ Owning(attempt[a], "lease"))'
           <=> a \in DOMAIN attempt /\ Owning(attempt[a], "lease"),
         UNCHANGED <<leases, inflight>>
  PROVE  LeasesMatch'
<1>1. \A b, i : Has(b, i, "lease")' <=> Has(b, i, "lease")
  <2>1. \A b, i : b # a => (Has(b, i, "lease")' <=> Has(b, i, "lease"))
    BY OthersKeep
  <2> QED
    BY <2>1
<1>2. \A i : LeaseOwners(i)' = LeaseOwners(i)
  BY <1>1 DEF LeaseOwners
<1>3. AllLeaseOwners' = AllLeaseOwners
  BY DEF AllLeaseOwners, Only
<1> QED
  BY <1>2, <1>3 DEF LeasesMatch

\* It takes a lease and a permit.
LEMMA LeaseTaken ==
  ASSUME LeasesMatch, leases \in [Invocations -> Nat], NEW a \in Attempts, Only(a),
         a \in DOMAIN attempt, a \in DOMAIN attempt',
         NEW i \in Invocations, attempt[a].inv = i, attempt'[a].inv = i,
         ~Owning(attempt[a], "lease"), Owning(attempt'[a], "lease"),
         inflight < MaxInflight, inflight' = inflight + 1,
         leases' = [leases EXCEPT ![i] = @ + 1]
  PROVE  LeasesMatch'
<1>1. AllLeaseOwners' = AllLeaseOwners \cup {a} /\ a \notin AllLeaseOwners
  BY DEF AllLeaseOwners, Only
<1>2. LeaseOwners(i)' = LeaseOwners(i) \cup {a} /\ a \notin LeaseOwners(i)
  BY OthersKeep DEF LeaseOwners, Has
<1>3. \A j : j # i => LeaseOwners(j)' = LeaseOwners(j)
  BY OthersKeep DEF LeaseOwners, Has
<1>4. IsFiniteSet(AllLeaseOwners) /\ IsFiniteSet(LeaseOwners(i))
  BY GatewayAssumption, FS_Subset DEF AllLeaseOwners, LeaseOwners
<1>5. /\ Cardinality(AllLeaseOwners \cup {a}) = Cardinality(AllLeaseOwners) + 1
      /\ Cardinality(LeaseOwners(i) \cup {a}) = Cardinality(LeaseOwners(i)) + 1
  BY <1>1, <1>2, <1>4, FS_AddElement
<1>6. inflight \in Nat
  BY <1>4, FS_CardinalityType DEF LeasesMatch
<1>7. inflight' = Cardinality(AllLeaseOwners') /\ inflight' <= MaxInflight
  BY <1>1, <1>5, <1>6, GatewayAssumption DEF LeasesMatch
<1>8. \A j \in Invocations : leases'[j] = Cardinality(LeaseOwners(j)')
  BY <1>2, <1>3, <1>5 DEF LeasesMatch
<1> QED
  BY <1>7, <1>8 DEF LeasesMatch

\* It gives its lease and its permit back.
LEMMA LeaseGiven ==
  ASSUME LeasesMatch, leases \in [Invocations -> Nat], NEW a \in Attempts, Only(a),
         a \in DOMAIN attempt, NEW i \in Invocations, attempt[a].inv = i,
         Owning(attempt[a], "lease"),
         a \in DOMAIN attempt' => ~Owning(attempt'[a], "lease"),
         inflight' = inflight - 1,
         leases' = [leases EXCEPT ![i] = @ - 1]
  PROVE  LeasesMatch'
<1>1. AllLeaseOwners' = AllLeaseOwners \ {a} /\ a \in AllLeaseOwners
  BY DEF AllLeaseOwners, Only
<1>2. LeaseOwners(i)' = LeaseOwners(i) \ {a} /\ a \in LeaseOwners(i)
  BY OthersKeep DEF LeaseOwners, Has
<1>3. \A j : j # i => LeaseOwners(j)' = LeaseOwners(j)
  BY OthersKeep DEF LeaseOwners, Has
<1>4. IsFiniteSet(AllLeaseOwners) /\ IsFiniteSet(LeaseOwners(i))
  BY GatewayAssumption, FS_Subset DEF AllLeaseOwners, LeaseOwners
<1>5. /\ Cardinality(AllLeaseOwners \ {a}) = Cardinality(AllLeaseOwners) - 1
      /\ Cardinality(LeaseOwners(i) \ {a}) = Cardinality(LeaseOwners(i)) - 1
  BY <1>1, <1>2, <1>4, FS_RemoveElement
<1>6. inflight \in Nat
  BY <1>4, FS_CardinalityType DEF LeasesMatch
<1>7. inflight' = Cardinality(AllLeaseOwners') /\ inflight' <= MaxInflight
  BY <1>1, <1>5, <1>6, GatewayAssumption DEF LeasesMatch
<1>8. \A j \in Invocations : leases'[j] = Cardinality(LeaseOwners(j)')
  BY <1>2, <1>3, <1>5 DEF LeasesMatch
<1> QED
  BY <1>7, <1>8 DEF LeasesMatch

\* While requests are not charged twice, an open hold is unbilled.
LEMMA OpenUnbilled ==
  ASSUME IInv, ~ClientsReuseIds, NEW i, Releasable(i)
  PROVE  i \notin BilledIn(mem)
<1>1. UnchargedWhileOpen(mem)
  BY DEF IInv, Sound
<1> QED
  BY <1>1, ReleasableIsOpen DEF Open, BilledIn, UnchargedWhileOpen

\* An attempt that gave its guard up has been billed; so whoever finds its
\* invocation's hold open has both, and no other attempt of it is upstream.
LEMMA Ours ==
  ASSUME IInv, ~ClientsReuseIds, Owned, AttemptsOK, NEW a, a \in DOMAIN attempt
  PROVE  /\ up
         /\ ~Owning(attempt[a], "guard") => attempt[a].todo \in FailedItself
         /\ attempt[a].todo \in FailedItself => ~Releasable(attempt[a].inv)
         /\ Releasable(attempt[a].inv) =>
              Owning(attempt[a], "guard") /\ Owning(attempt[a], "hold")
         /\ \A b : Upstream(b) /\ attempt[b].inv = attempt[a].inv => b = a
<1> DEFINE i == attempt[a].inv
<1>1. up /\ i \in Invocations
  BY InvType DEF Owned, DownIsEmpty
<1>2. ~Owning(attempt[a], "guard") => attempt[a].todo \in FailedItself
  BY TodoItems DEF Owned, WaysOut, WayOut, Owning, Todos
<1>3. attempt[a].todo \in FailedItself => ~Releasable(i)
  BY OpenUnbilled DEF Owned, WaysOut
<1>4. ASSUME Releasable(i)
      PROVE  Owning(attempt[a], "guard") /\ Owning(attempt[a], "hold")
  <2>1. Owning(attempt[a], "guard")
    BY <1>2, <1>3, <1>4
  <2>2. Has(a, i, "guard")
    BY <2>1 DEF Has
  <2>3. PICK b \in Attempts : Has(b, i, "guard") /\ Has(b, i, "hold")
    BY <1>1, <1>4 DEF Owned, HoldsMatch
  <2>4. b = a
    BY <2>2, <2>3 DEF Owned, GuardsMatch
  <2> QED
    BY <2>1, <2>3, <2>4 DEF Has
<1>5. ASSUME NEW b, Upstream(b), attempt[b].inv = i PROVE b = a
  <2>1. Releasable(i)
    BY <1>5 DEF Owned, HoldsMatch
  <2>2. Has(a, i, "guard")
    BY <1>4, <2>1 DEF Has
  <2>3. Has(b, i, "guard")
    BY <1>5 DEF Has, Owning, Upstream, In
  <2> QED
    BY <2>2, <2>3 DEF Owned, GuardsMatch
<1> QED
  BY <1>1, <1>2, <1>3, <1>4, <1>5

\* Holds where only those of one attempt's invocation change.
LEMMA HoldsStay ==
  ASSUME IInv, ~ClientsReuseIds, Owned, AttemptsOK,
         NEW a \in Attempts, Only(a), a \in DOMAIN attempt,
         NEW i, attempt[a].inv = i,
         \A j : j # i => (Releasable(j)' <=> Releasable(j)),
         Upstream(a)' => Releasable(attempt[a].inv)',
         Releasable(i)' => Has(a, i, "guard")' /\ Has(a, i, "hold")'
  PROVE  HoldsMatch'
<1>1. up
  BY DEF Owned, DownIsEmpty
<1>2. ASSUME NEW b, Upstream(b)' PROVE Releasable(attempt[b].inv)'
  <2>1. CASE b = a
    BY <1>2, <2>1
  <2>2. CASE b # a
    <3>1. Upstream(b) /\ attempt'[b] = attempt[b] /\ attempt[b].inv # i
      BY <1>2, <2>2, OthersKeep, Ours
    <3> QED
      BY <3>1 DEF Owned, HoldsMatch
  <2> QED
    BY <2>1, <2>2
<1>3. ASSUME NEW j \in Invocations, Releasable(j)'
      PROVE  \E b \in Attempts : Has(b, j, "guard")' /\ Has(b, j, "hold")'
  <2>1. CASE j = i
    BY <1>3, <2>1
  <2>2. CASE j # i
    <3>1. PICK b \in Attempts : Has(b, j, "guard") /\ Has(b, j, "hold")
      BY <1>1, <1>3, <2>2 DEF Owned, HoldsMatch
    <3>2. b # a
      BY <2>2, <3>1 DEF Has
    <3> QED
      BY <3>1, <3>2, OthersKeep
  <2> QED
    BY <2>1, <2>2
<1> QED
  BY <1>2, <1>3 DEF HoldsMatch

-----------------------------------------------------------------------------
\* The steps of an attempt.

Standing == IInv /\ AttemptsOK /\ Owned

\* What a live attempt's record says.
LEMMA LiveAttempt ==
  ASSUME Standing, NEW a, a \in DOMAIN attempt
  PROVE  /\ up /\ a \in Attempts
         /\ attempt[a] \in Attempt /\ attempt[a].inv \in Invocations
         /\ WayOut(attempt[a])
         /\ leases \in [Invocations -> Nat]
BY InvType DEF Standing, AttemptsOK, Owned, DownIsEmpty, WaysOut, IInv

\* An attempt that moves on with the engine left alone keeps its guard and its
\* lease, and an open hold.
LEMMA MovesOn ==
  ASSUME Standing, ~ClientsReuseIds, NEW a, a \in DOMAIN attempt,
         attempt[a].phase # "leaving",
         NEW r, Becomes(a, r), r.inv = attempt[a].inv, WayOut(r),
         r.todo \notin FailedItself,
         Owning(r, "guard"), Owning(r, "lease") <=> Owning(attempt[a], "lease"),
         Owning(attempt[a], "hold") => Owning(r, "hold"),
         r.phase \in {"routing", "streaming"} => Upstream(a),
         UNCHANGED <<inflight, stopping>>, UNCHANGED guard, UNCHANGED vars
  PROVE  Owned'
<1> DEFINE i == attempt[a].inv
<1>1. Only(a) /\ a \in DOMAIN attempt' /\ attempt'[a] = r
  BY BecomesOnly
<1>2. a \in Attempts /\ IInv /\ AttemptsOK /\ Owned /\ up
  BY LiveAttempt DEF Standing
<1>3. WaysOut'
  BY <1>1, <1>2, WaysStay DEF Owned, vars
<1>4. GuardsMatch'
  BY <1>1, <1>2, GuardsStay DEF Owned, guard, Owning
<1>5. LeasesMatch'
  <2>1. \A j : Has(a, j, "lease")' <=> Has(a, j, "lease")
    BY <1>1 DEF Has
  <2> QED
    BY <1>1, <1>2, <2>1, LeasesStay DEF Owned, vars
<1>6. HoldsMatch'
  <2>1. \A j : Releasable(j)' <=> Releasable(j)
    BY DEF vars, Releasable, HoldStands
  <2>2. Upstream(a)' => Releasable(i)
    BY <1>1, <1>2 DEF Upstream, In, Owned, HoldsMatch
  <2>3. Releasable(i) => Has(a, i, "guard")' /\ Has(a, i, "hold")'
    BY <1>1, <1>2, Ours DEF Has
  <2> QED
    BY <1>1, <1>2, <2>1, <2>2, <2>3, HoldsStay
<1>7. DownIsEmpty'
  BY <1>2 DEF vars, DownIsEmpty
<1> QED
  BY <1>3, <1>4, <1>5, <1>6, <1>7 DEF Owned

\* Records that begin to leave.
Going(q, todo, outcome) ==
  [q EXCEPT !.phase = "leaving", !.todo = todo, !.outcome = outcome, !.output = FALSE]

\* What such a record owns is what it has left to drop.
LEMMA LeavingRecord ==
  ASSUME NEW q \in Attempt, NEW todo \in Todos, NEW outcome,
         NEW r, r = Going(q, todo, outcome)
  PROVE  /\ WayOut(r) /\ r.inv = q.inv /\ r.todo = todo /\ r.phase = "leaving"
         /\ \A thing : Owning(r, thing) <=> thing \in Range(todo)
BY DEF Going, Attempt, WayOut, Owning

\* Records that go on to another phase.
LEMMA NextPhase ==
  ASSUME NEW q \in Attempt, WayOut(q), q.phase # "leaving",
         NEW phase \in {"reserving", "routing", "streaming"},
         q.output => phase = "streaming",
         NEW r, r = [q EXCEPT !.phase = phase]
  PROVE  /\ WayOut(r) /\ r.inv = q.inv /\ r.todo = <<>> /\ r.phase = phase
         /\ Owning(r, "guard") /\ Owning(r, "lease")
         /\ Owning(r, "hold") <=> phase \in {"routing", "streaming"}
BY TodoItems DEF Attempt, WayOut, Owning

\* What an attempt has before it leaves.
LEMMA PhaseHas ==
  ASSUME NEW q, WayOut(q), q.phase # "leaving"
  PROVE  /\ q.todo = <<>> /\ q.todo \notin FailedItself
         /\ Owning(q, "guard")
         /\ Owning(q, "lease") <=> q.phase \in {"reserving", "routing", "streaming"}
         /\ Owning(q, "hold") <=> q.phase \in {"routing", "streaming"}
BY TodoItems, TodosDiffer DEF WayOut, Owning, Todos

\* An attempt that goes without touching the engine drops all it has.
LEMMA GoesOwned ==
  ASSUME Standing, ~ClientsReuseIds, NEW a, a \in DOMAIN attempt,
         attempt[a].phase # "leaving",
         NEW todo \in {GuardOnly, Unprotected, HoldToGuard, ReleasedTwice}, NEW outcome,
         Leaving(a, todo, outcome),
         "lease" \in Range(todo) <=> Owning(attempt[a], "lease"),
         Owning(attempt[a], "hold") => "hold" \in Range(todo),
         UNCHANGED <<inflight, stopping>>, UNCHANGED guard, UNCHANGED vars
  PROVE  Owned'
<1>1. PICK r : r = Going(attempt[a], todo, outcome)
  OBVIOUS
<1>2. todo \in Todos /\ todo \notin FailedItself /\ "guard" \in Range(todo)
  BY TodoItems, TodosDiffer DEF Todos
<1>3. /\ WayOut(r) /\ r.inv = attempt[a].inv /\ r.todo = todo /\ r.phase = "leaving"
      /\ \A thing : Owning(r, thing) <=> thing \in Range(todo)
  BY <1>1, <1>2, LiveAttempt, LeavingRecord
<1>4. Becomes(a, r)
  BY <1>1 DEF Leaving, Going
<1> QED
  BY <1>2, <1>3, <1>4, MovesOn

\* A local answer takes nothing but the guard with it.
LEMMA AnswerLocallyOwned ==
  ASSUME Standing, ~ClientsReuseIds, NEW a, AnswerLocally(a)
  PROVE  Owned'
<1>1. a \in DOMAIN attempt /\ attempt[a].phase = "admitted"
  BY DEF AnswerLocally, In
<1> QED
  BY <1>1, GoesOwned, LiveAttempt, PhaseHas, TodoItems DEF AnswerLocally

\* A refused or abandoned request drops what its phase has taken.
LEMMA LeaveOwned ==
  ASSUME Standing, ~ClientsReuseIds, NEW a, Leave(a)
  PROVE  Owned'
<1>1. a \in DOMAIN attempt /\ attempt[a].phase \in {"admitted", "reserving", "routing"}
  BY DEF Leave, In
<1>2. PICK todo \in {GuardOnly, Unprotected, HoldToGuard, ReleasedTwice} :
        /\ Leaving(a, todo, "abort")
        /\ "lease" \in Range(todo) <=> attempt[a].phase # "admitted"
        /\ attempt[a].phase = "routing" => "hold" \in Range(todo)
  BY TodoItems DEF Leave, In
<1> QED
  BY <1>1, <1>2, GoesOwned, LiveAttempt, PhaseHas DEF Leave

\* A stream's end without a bill releases its hold.
LEMMA FinishUnbilledOwned ==
  ASSUME Standing, ~ClientsReuseIds, NEW a, In(a, "streaming"),
         NEW completes, FinishUnbilled(a, completes)
  PROVE  Owned'
<1>1. a \in DOMAIN attempt /\ attempt[a].phase = "streaming"
  BY DEF In
<1> QED
  BY <1>1, GoesOwned, LiveAttempt, PhaseHas, TodoItems DEF FinishUnbilled

\* A stream that begins, carries output or loses its client keeps what it has.
LEMMA StreamOwned ==
  ASSUME Standing, ~ClientsReuseIds, NEW a,
         BeginStream(a) \/ Output(a) \/ ClientLeaves(a)
  PROVE  Owned'
<1>1. a \in DOMAIN attempt /\ attempt[a].phase \in {"routing", "streaming"}
  BY DEF BeginStream, Output, ClientLeaves, In
<1>2. /\ attempt[a] \in Attempt /\ WayOut(attempt[a])
      /\ attempt[a].todo = <<>> /\ attempt[a].todo \notin FailedItself
      /\ Owning(attempt[a], "guard") /\ Owning(attempt[a], "lease")
      /\ Owning(attempt[a], "hold")
  BY <1>1, LiveAttempt, PhaseHas
<1>3. PICK r : /\ Becomes(a, r)
               /\ \/ r = [attempt[a] EXCEPT !.phase = "streaming"]
                  \/ attempt[a].phase = "streaming" /\ r = [attempt[a] EXCEPT !.output = TRUE]
                  \/ attempt[a].phase = "streaming" /\ r = [attempt[a] EXCEPT !.connected = FALSE]
  BY DEF BeginStream, Output, ClientLeaves, In
<1>4. /\ r.inv = attempt[a].inv /\ r.todo = <<>> /\ r.phase = "streaming"
  BY <1>2, <1>3 DEF Attempt
<1>5. WayOut(r) /\ Owning(r, "guard") /\ Owning(r, "lease") /\ Owning(r, "hold")
  BY <1>4 DEF WayOut, Owning
<1>6. Upstream(a)
  BY <1>1 DEF Upstream, In
<1> QED
  BY <1>1, <1>2, <1>3, <1>4, <1>5, <1>6, MovesOn DEF BeginStream, Output, ClientLeaves

\* An attempt upstream has its invocation under a lease.
LEMMA UpstreamLeased ==
  ASSUME Standing, NEW a, Upstream(a)
  PROVE  leases[attempt[a].inv] > 0
<1> DEFINE i == attempt[a].inv
<1>1. a \in Attempts /\ a \in DOMAIN attempt /\ i \in Invocations
  BY LiveAttempt DEF Upstream, In
<1>2. a \in LeaseOwners(i)
  BY <1>1 DEF LeaseOwners, Has, Owning, Upstream, In
<1>3. IsFiniteSet(LeaseOwners(i))
  BY GatewayAssumption, FS_Subset DEF LeaseOwners
<1>4. Cardinality(LeaseOwners(i)) \in Nat \ {0}
  BY <1>2, <1>3, FS_CardinalityType, FS_EmptySet
<1> QED
  BY <1>1, <1>4 DEF Standing, Owned, LeasesMatch

\* What dies with the process leaves nothing owned.
LEMMA LostOwned ==
  ASSUME Lost, ~up', leases' = [i \in Invocations |-> 0]
  PROVE  Owned'
<1>1. DOMAIN attempt' = {} /\ inProgress' = {} /\ inflight' = 0
  BY NoAttempts DEF Lost
<1>2. WaysOut' /\ DownIsEmpty'
  BY <1>1 DEF WaysOut, DownIsEmpty
<1>3. GuardsMatch'
  BY <1>1 DEF GuardsMatch, Has
<1>4. HoldsMatch'
  BY <1>1 DEF HoldsMatch, Upstream, In
<1>5. LeasesMatch'
  <2>1. AllLeaseOwners' = {} /\ \A i : LeaseOwners(i)' = {}
    BY <1>1 DEF AllLeaseOwners, LeaseOwners, Has
  <2> QED
    BY <1>1, <2>1, FS_EmptySet, GatewayAssumption DEF LeasesMatch
<1> QED
  BY <1>2, <1>3, <1>4, <1>5 DEF Owned

\* A bill charges its invocation's open hold, or records the intent.
LEMMA SettleBills ==
  ASSUME IInv, NEW i \in Invocations, Releasable(i), NEW charge \in Charges,
         SettleBill(i, charge)
  PROVE  /\ up' => /\ UNCHANGED leases
                   /\ BilledIn(mem') = BilledIn(mem) \cup {i}
                   /\ \A j : Releasable(j)' <=> Releasable(j) /\ j # i
         /\ ~up' => Stopped /\ BilledIn(disk') = BilledIn(mem) \cup {i}
         /\ disk' = disk \/ BilledIn(disk') = BilledIn(mem) \cup {i}
<1> DEFINE bill == BillFor(charge)
           s == Debited(mem, i, bill)
           t == Intended(mem, i, bill)
<1>1. TablesOK(mem) /\ Open(mem, i) /\ i \in DOMAIN mem.reservations
  BY ReleasableIsOpen DEF IInv, Sound, Open
<1>2. bill \in Bill
  BY AmountsAssumption, TimesAssumption DEF BillFor, Bill, IInv
<1>3. up /\ Commit(s, t)
  BY <1>1 DEF SettleBill, HoldStands, Settle, Open
<1>4. /\ BilledIn(s) = BilledIn(mem) \cup {i}
      /\ \A j : Open(s, j) <=> Open(mem, j) /\ j # i
  BY <1>1, <1>2, DebitedTables
<1>5. /\ BilledIn(t) = BilledIn(mem) \cup {i}
      /\ \A j : Open(t, j) <=> Open(mem, j) /\ j # i
  BY <1>1, IntendedTables
<1> HIDE DEF s, t
<1>6. /\ disk' \in {disk, s}
      /\ up' => UNCHANGED leases /\ mem' \in {s, t}
      /\ ~up' => disk' = s /\ Stopped
  BY <1>3, CommitEnds
<1>7. \A j : Releasable(j)' <=> Open(mem', j)
  BY DEF Releasable, HoldStands, Open
<1> QED
  BY <1>4, <1>5, <1>6, <1>7, ReleasableIsOpen

\* An attempt that is billed goes without its hold.
LEMMA BilledOwned ==
  ASSUME Standing, ~ClientsReuseIds, NEW a, Upstream(a), NEW charge \in Charges,
         SettleBill(attempt[a].inv, charge),
         NEW todo \in {Unprotected, FailedFirst}, NEW outcome,
         UnlessDead(/\ Leaving(a, todo, outcome)
                    /\ UNCHANGED <<inflight, stopping>> /\ UNCHANGED guard)
  PROVE  Owned'
<1>0. PICK i : i = attempt[a].inv
  OBVIOUS
<1>1. /\ a \in DOMAIN attempt /\ a \in Attempts /\ i \in Invocations
      /\ attempt[a] \in Attempt /\ WayOut(attempt[a]) /\ attempt[a].phase # "leaving"
      /\ attempt[a].phase \in {"routing", "streaming"}
      /\ IInv /\ AttemptsOK /\ Owned /\ up
  BY <1>0, LiveAttempt DEF Upstream, In, Standing
<1>2. Releasable(i)
  BY <1>0 DEF Standing, Owned, HoldsMatch
<1>3. CASE ~up'
  <2>1. Lost /\ Stopped
    BY <1>0, <1>1, <1>2, <1>3, SettleBills DEF UnlessDead
  <2> QED
    BY <1>3, <2>1, LostOwned DEF Stopped
<1>4. CASE up'
  <2>1. /\ UNCHANGED leases
        /\ BilledIn(mem') = BilledIn(mem) \cup {i}
        /\ \A j : Releasable(j)' <=> Releasable(j) /\ j # i
    BY <1>0, <1>1, <1>2, <1>4, SettleBills
  <2>2. PICK r : r = Going(attempt[a], todo, outcome)
    OBVIOUS
  <2>3. todo \in Todos /\ Range(todo) \in {{"lease", "guard"}, {"guard", "hold", "lease"}}
    BY TodoItems DEF Todos, FailedItself
  <2>4. /\ WayOut(r) /\ r.inv = i /\ r.phase = "leaving"
        /\ \A thing : Owning(r, thing) <=> thing \in Range(todo)
    BY <1>0, <1>1, <2>2, <2>3, LeavingRecord
  <2>5. /\ Becomes(a, r) /\ UNCHANGED <<inflight, stopping>> /\ UNCHANGED guard
    BY <1>4, <2>2 DEF UnlessDead, Leaving, Going
  <2>6. Only(a) /\ a \in DOMAIN attempt' /\ attempt'[a] = r
    BY <2>5, BecomesOnly
  <2>7. /\ Owning(r, "guard") /\ Owning(r, "lease")
        /\ Owning(attempt[a], "guard") /\ Owning(attempt[a], "lease")
    BY <1>1, <2>3, <2>4, PhaseHas
  <2>8. WaysOut'
    BY <1>1, <2>1, <2>4, <2>6, WaysStay DEF Owned
  <2>9. GuardsMatch'
    BY <1>0, <1>1, <2>4, <2>5, <2>6, <2>7, GuardsStay DEF Owned, guard
  <2>10. LeasesMatch'
    <3>1. \A j : Has(a, j, "lease")' <=> Has(a, j, "lease")
      BY <1>0, <1>1, <2>4, <2>6, <2>7 DEF Has
    <3> QED
      BY <1>1, <2>1, <2>5, <2>6, <2>7, <3>1, LeasesStay DEF Owned
  <2>11. HoldsMatch'
    <3>1. ~Upstream(a)'
      BY <2>4, <2>6 DEF Upstream, In
    <3>2. ~Releasable(i)'
      BY <2>1
    <3> QED
      BY <1>0, <1>1, <2>1, <2>6, <3>1, <3>2, HoldsStay
  <2>12. DownIsEmpty'
    BY <1>4 DEF DownIsEmpty
  <2> QED
    BY <2>8, <2>9, <2>10, <2>11, <2>12 DEF Owned
<1> QED
  BY <1>3, <1>4

\* The bill of an empty attempt, which fails its guard first.
LEMMA BillEmptyOwned ==
  ASSUME Standing, ~ClientsReuseIds, NEW a, BillEmptyAttempt(a)
  PROVE  Owned'
BY BilledOwned DEF BillEmptyAttempt, Upstream

\* The bill of a stream.
LEMMA FinishBilledOwned ==
  ASSUME Standing, ~ClientsReuseIds, NEW a, In(a, "streaming"),
         NEW completes, FinishBilled(a, completes)
  PROVE  Owned'
<1>1. PICK charge \in Charges : SettleBill(attempt[a].inv, charge)
  BY DEF FinishBilled
<1>2. PICK outcome :
        UnlessDead(/\ Leaving(a, Unprotected, outcome)
                   /\ UNCHANGED <<inflight, stopping>> /\ UNCHANGED guard)
  BY DEF FinishBilled, UnlessDead
<1> QED
  BY <1>1, <1>2, BilledOwned DEF Upstream

\* An attempt arrives with the guard of an invocation nobody else has.
LEMMA ArriveOwned ==
  ASSUME Standing, NEW a \in Attempts, NEW i \in Invocations, Arrive(a, i)
  PROVE  Owned'
<1> DEFINE new == [inv |-> i, phase |-> "admitted", todo |-> <<>>,
                   outcome |-> "abort", output |-> FALSE, connected |-> TRUE]
<1>1. PICK r : r = new
  OBVIOUS
<1>2. /\ r.inv = i /\ r.todo = <<>> /\ r.phase = "admitted" /\ WayOut(r)
      /\ Owning(r, "guard") /\ ~Owning(r, "lease") /\ ~Owning(r, "hold")
  BY <1>1, TodoItems DEF WayOut, Owning
<1>3. /\ Only(a) /\ a \in DOMAIN attempt' /\ attempt'[a] = r /\ a \notin DOMAIN attempt
      /\ i \notin inProgress /\ inProgress' = inProgress \cup {i}
      /\ UNCHANGED <<inflight, stopping>> /\ UNCHANGED vars /\ up
  BY <1>1, BecomesOnly DEF Arrive, Acquire
<1>4. Owned
  BY DEF Standing
<1>5. WaysOut'
  BY <1>2, <1>3, <1>4, TodosDiffer, WaysStay DEF Owned, vars, Todos
<1>6. GuardsMatch'
  <2>1. \A j : Has(a, j, "guard")' <=> j = i
    BY <1>2, <1>3 DEF Has
  <2>2. ASSUME NEW b, b # a, NEW j PROVE Has(b, j, "guard")' <=> Has(b, j, "guard")
    BY <1>3, <2>2 DEF Only, Has
  <2>3. \A b : ~Has(b, i, "guard")
    BY <1>3, <1>4 DEF Owned, GuardsMatch
  <2>4. \A b : Has(b, i, "guard")' => b = a
    BY <2>2, <2>3
  <2>5. \A j : ~Has(a, j, "guard")
    BY <1>3 DEF Has
  <2> QED
    BY <1>3, <1>4, <2>1, <2>2, <2>4, <2>5 DEF Owned, GuardsMatch
<1>7. LeasesMatch'
  BY <1>2, <1>3, <1>4, LeasesStay DEF Owned, vars, Has
<1>8. HoldsMatch'
  <2>1. \A j : Releasable(j)' <=> Releasable(j)
    BY <1>3 DEF vars, Releasable, HoldStands
  <2>2. ASSUME NEW b, Upstream(b)' PROVE Releasable(attempt[b].inv)'
    <3>1. b # a
      BY <1>2, <1>3, <2>2 DEF Upstream, In
    <3> QED
      BY <1>3, <1>4, <2>1, <2>2, <3>1, OthersKeep DEF Owned, HoldsMatch
  <2>3. ASSUME NEW j \in Invocations, Releasable(j)'
        PROVE  \E b \in Attempts : Has(b, j, "guard")' /\ Has(b, j, "hold")'
    <3>1. PICK b \in Attempts : Has(b, j, "guard") /\ Has(b, j, "hold")
      BY <1>3, <1>4, <2>1, <2>3 DEF Owned, HoldsMatch
    <3>2. b # a
      BY <1>3, <3>1 DEF Has
    <3> QED
      BY <1>3, <3>1, <3>2, OthersKeep
  <2> QED
    BY <2>2, <2>3 DEF HoldsMatch
<1>9. DownIsEmpty'
  BY <1>3 DEF DownIsEmpty, vars
<1> QED
  BY <1>5, <1>6, <1>7, <1>8, <1>9 DEF Owned

\* Before its hold an attempt takes a permit and a lease.
LEMMA BeginReservingOwned ==
  ASSUME Standing, ~ClientsReuseIds, NEW a, BeginReserving(a)
  PROVE  Owned'
<1>0. PICK i : i = attempt[a].inv
  OBVIOUS
<1>1. /\ a \in DOMAIN attempt /\ attempt[a].phase = "admitted" /\ a \in Attempts
      /\ attempt[a] \in Attempt /\ i \in Invocations /\ WayOut(attempt[a])
      /\ leases \in [Invocations -> Nat] /\ up
      /\ IInv /\ AttemptsOK /\ Owned
  BY <1>0, LiveAttempt DEF BeginReserving, In, Standing
<1>2. PICK r : r = [attempt[a] EXCEPT !.phase = "reserving"]
  OBVIOUS
<1>3. /\ WayOut(r) /\ r.inv = i /\ r.todo = <<>> /\ r.phase = "reserving"
      /\ Owning(r, "guard") /\ Owning(r, "lease") /\ ~Owning(r, "hold")
  BY <1>0, <1>1, <1>2, NextPhase DEF WayOut
<1>4. /\ Owning(attempt[a], "guard") /\ ~Owning(attempt[a], "lease")
      /\ ~Owning(attempt[a], "hold")
  BY <1>1, PhaseHas
<1>5. /\ Becomes(a, r) /\ inflight < MaxInflight /\ inflight' = inflight + 1
      /\ leases' = [leases EXCEPT ![i] = @ + 1] /\ UNCHANGED mem /\ up'
      /\ UNCHANGED stopping /\ UNCHANGED guard
  BY <1>0, <1>2 DEF BeginReserving, ProtectReservation
<1>6. Only(a) /\ a \in DOMAIN attempt' /\ attempt'[a] = r
  BY <1>5, BecomesOnly
<1>7. WaysOut'
  BY <1>1, <1>3, <1>5, <1>6, TodosDiffer, WaysStay DEF Owned, Todos
<1>8. GuardsMatch'
  BY <1>0, <1>1, <1>3, <1>4, <1>5, <1>6, GuardsStay DEF Owned, guard
<1>9. LeasesMatch'
  BY <1>0, <1>1, <1>3, <1>4, <1>5, <1>6, LeaseTaken DEF Owned
<1>10. HoldsMatch'
  <2>1. \A j : Releasable(j)' <=> Releasable(j)
    BY <1>5 DEF Releasable, HoldStands
  <2>2. ~Releasable(i)
    BY <1>0, <1>1, <1>4, Ours
  <2>3. ~Upstream(a)'
    BY <1>3, <1>6 DEF Upstream, In
  <2> QED
    BY <1>0, <1>1, <1>6, <2>1, <2>2, <2>3, HoldsStay
<1>11. DownIsEmpty'
  BY <1>5 DEF DownIsEmpty
<1> QED
  BY <1>7, <1>8, <1>9, <1>10, <1>11 DEF Owned

\* A hold made in its turn opens the invocation's.
LEMMA ReserveOpens ==
  ASSUME IInv, NEW i \in Invocations, NEW amount \in HoldAmounts, Reserve(i, amount)
  PROVE  /\ BilledIn(mem') = BilledIn(mem) /\ ~Open(mem, i)
         /\ \A j : Releasable(j)' <=> Releasable(j) \/ j = i
         /\ UNCHANGED <<disk, leases, writeFailed, up, now>> /\ up
<1>1. Sound(mem) /\ TablesOK(mem)
  BY DEF IInv, Sound
<1>2. i \notin DOMAIN mem.pending /\ ~Open(mem, i)
  BY <1>1 DEF Reserve, Taken, Sound, PendingHeld, Open
<1>3. mem' = Hold(mem, i, amount) /\ UNCHANGED <<disk, leases, writeFailed, up, now>> /\ up
  BY DEF Reserve, InPlace
<1>4. /\ BilledIn(mem') = BilledIn(mem)
      /\ \A j : Open(mem', j) <=> Open(mem, j) \/ j = i
  BY <1>1, <1>2, <1>3, HoldTables
<1>5. \A j : Releasable(j)' <=> Open(mem', j)
  BY DEF Releasable, HoldStands, Open
<1> QED
  BY <1>2, <1>3, <1>4, <1>5, ReleasableIsOpen

\* The hold made for an attempt is its own.
LEMMA ReserveWaitingOwned ==
  ASSUME Standing, ~ClientsReuseIds, NEW a, ReserveWaiting(a)
  PROVE  Owned'
<1>0. PICK i : i = attempt[a].inv
  OBVIOUS
<1>1. /\ a \in DOMAIN attempt /\ attempt[a].phase = "reserving" /\ a \in Attempts
      /\ attempt[a] \in Attempt /\ i \in Invocations /\ WayOut(attempt[a]) /\ up
      /\ IInv /\ AttemptsOK /\ Owned
  BY <1>0, LiveAttempt DEF ReserveWaiting, In, Standing
<1>2. PICK r : r = [attempt[a] EXCEPT !.phase = "routing"]
  OBVIOUS
<1>3. /\ WayOut(r) /\ r.inv = i /\ r.todo = <<>> /\ r.phase = "routing"
      /\ Owning(r, "guard") /\ Owning(r, "lease") /\ Owning(r, "hold")
  BY <1>0, <1>1, <1>2, NextPhase DEF WayOut
<1>4. Owning(attempt[a], "guard") /\ Owning(attempt[a], "lease")
  BY <1>1, PhaseHas
<1>5. /\ Becomes(a, r) /\ UNCHANGED <<inflight, stopping>> /\ UNCHANGED guard
      /\ \E amount \in HoldAmounts : Reserve(i, amount)
  BY <1>0, <1>2 DEF ReserveWaiting
<1>6. /\ BilledIn(mem') = BilledIn(mem)
      /\ \A j : Releasable(j)' <=> Releasable(j) \/ j = i
      /\ UNCHANGED leases /\ up'
  BY <1>1, <1>5, ReserveOpens
<1>7. Only(a) /\ a \in DOMAIN attempt' /\ attempt'[a] = r
  BY <1>5, BecomesOnly
<1>8. WaysOut'
  BY <1>1, <1>3, <1>6, <1>7, TodosDiffer, WaysStay DEF Owned, Todos
<1>9. GuardsMatch'
  BY <1>0, <1>1, <1>3, <1>4, <1>5, <1>7, GuardsStay DEF Owned, guard
<1>10. LeasesMatch'
  <2>1. \A j : Has(a, j, "lease")' <=> Has(a, j, "lease")
    BY <1>0, <1>1, <1>3, <1>4, <1>7 DEF Has
  <2> QED
    BY <1>1, <1>3, <1>4, <1>5, <1>6, <1>7, <2>1, LeasesStay DEF Owned
<1>11. HoldsMatch'
  <2>1. Has(a, i, "guard")' /\ Has(a, i, "hold")'
    BY <1>3, <1>7 DEF Has
  <2>2. Releasable(attempt[a].inv)'
    BY <1>3, <1>6, <1>7
  <2> QED
    BY <1>0, <1>1, <1>6, <1>7, <2>1, <2>2, HoldsStay
<1>12. DownIsEmpty'
  BY <1>6 DEF DownIsEmpty
<1> QED
  BY <1>8, <1>9, <1>10, <1>11, <1>12 DEF Owned

\* The record of an attempt that drops the first of what it has left.
LEMMA NextDropRecord ==
  ASSUME Standing, NEW a, NEW thing, NextDrop(a, thing)
  PROVE  /\ a \in DOMAIN attempt /\ attempt[a].phase = "leaving"
         /\ attempt[a].todo \in Todos /\ Head(attempt[a].todo) = thing
         /\ Only(a)
         /\ Len(attempt[a].todo) = 1 => a \notin DOMAIN attempt'
         /\ Len(attempt[a].todo) # 1 =>
              /\ a \in DOMAIN attempt' /\ attempt'[a].inv = attempt[a].inv
              /\ attempt'[a].phase = "leaving"
              /\ attempt'[a].todo = Tail(attempt[a].todo)
              /\ attempt'[a].output = attempt[a].output
<1>1. /\ a \in DOMAIN attempt /\ attempt[a].phase = "leaving"
      /\ Head(attempt[a].todo) = thing
  BY DEF NextDrop, In
<1>2. attempt[a] \in Attempt /\ attempt[a].todo \in Todos
  BY <1>1, LiveAttempt DEF WayOut
<1>3. CASE Len(attempt[a].todo) = 1
  <2>1. attempt' = Without(attempt, {a})
    BY <1>3 DEF NextDrop, DropNext
  <2>2. Only(a) /\ a \notin DOMAIN attempt'
    BY <2>1 DEF Without, Restrict, Only
  <2> QED
    BY <1>1, <1>2, <1>3, <2>2
<1>4. CASE Len(attempt[a].todo) # 1
  <2>1. PICK todo : todo = Tail(attempt[a].todo)
    OBVIOUS
  <2>2. PICK r : r = [attempt[a] EXCEPT !.todo = todo]
    OBVIOUS
  <2>3. /\ r.inv = attempt[a].inv /\ r.phase = "leaving" /\ r.todo = todo
        /\ r.output = attempt[a].output
    BY <1>1, <1>2, <2>2 DEF Attempt
  <2>4. attempt' = [attempt EXCEPT ![a] = r]
    BY <1>4, <2>1, <2>2 DEF NextDrop, DropNext
  <2>5. Only(a) /\ a \in DOMAIN attempt' /\ attempt'[a] = r
    BY <1>1, <2>4 DEF Only
  <2> QED
    BY <1>1, <1>2, <1>4, <2>1, <2>3, <2>5
<1> QED
  BY <1>3, <1>4

\* Releasing a hold opens nothing and bills nothing.
LEMMA HoldDropped ==
  ASSUME IInv, up, NEW a, DropHold(a), NEW i, i = attempt[a].inv
  PROVE  /\ BilledIn(mem') = BilledIn(mem)
         /\ \A j : Releasable(j)' <=> Releasable(j) /\ j # i
         /\ UNCHANGED <<leases, disk, up>>
<1>1. CASE Releasable(i)
  <2>1. mem' = Returned(mem, {i}) /\ UNCHANGED <<leases, disk, up>>
    BY <1>1 DEF DropHold, Release, InPlace
  <2>2. /\ BilledIn(mem') = BilledIn(mem)
        /\ \A j : Open(mem', j) <=> Open(mem, j) /\ j \notin {i}
    BY <2>1, ReturnedTables DEF IInv, Sound
  <2>3. \A j : Releasable(j)' <=> Open(mem', j)
    BY DEF Releasable, HoldStands, Open
  <2> QED
    BY <2>1, <2>2, <2>3, ReleasableIsOpen
<1>2. CASE ~Releasable(i)
  <2>1. UNCHANGED vars
    BY <1>2 DEF DropHold
  <2> QED
    BY <1>2, <2>1 DEF vars, Releasable, HoldStands
<1> QED
  BY <1>1, <1>2

\* An attempt's hold goes back, unless another's bill or release was first.
LEMMA DropHoldOwned ==
  ASSUME Standing, ~ClientsReuseIds, NEW a, DropHold(a)
  PROVE  Owned'
<1>0. PICK i : i = attempt[a].inv
  OBVIOUS
<1>1. PICK todo : todo = attempt[a].todo
  OBVIOUS
<1>2. /\ a \in DOMAIN attempt /\ attempt[a].phase = "leaving" /\ todo \in Todos
      /\ Head(todo) = "hold" /\ Only(a)
      /\ Len(todo) # 1 =>
           /\ a \in DOMAIN attempt' /\ attempt'[a].inv = i
           /\ attempt'[a].phase = "leaving" /\ attempt'[a].todo = Tail(todo)
           /\ attempt'[a].output = attempt[a].output
  BY <1>0, <1>1, NextDropRecord DEF DropHold
<1>3. /\ a \in Attempts /\ i \in Invocations /\ WayOut(attempt[a]) /\ up
      /\ IInv /\ AttemptsOK /\ Owned /\ Sound(mem)
  BY <1>0, <1>2, LiveAttempt DEF Standing, IInv
<1>4. /\ Len(todo) # 1 /\ Tail(todo) \in Todos
      /\ Tail(todo) \in FailedItself <=> todo \in FailedItself
      /\ "guard" \in Range(Tail(todo)) <=> "guard" \in Range(todo)
      /\ "lease" \in Range(Tail(todo)) /\ "lease" \in Range(todo)
  <2>1. \/ todo = HoldToGuard /\ Tail(todo) = Unprotected
        \/ todo = ReleasedTwice /\ Tail(todo) = HoldToGuard
        \/ todo = HoldAndLease /\ Tail(todo) = LeaseLast
    BY <1>2, TodoSteps
  <2>2. Len(HoldToGuard) # 1 /\ Len(ReleasedTwice) # 1 /\ Len(HoldAndLease) # 1
    BY DEF HoldToGuard, ReleasedTwice, HoldAndLease
  <2> QED
    BY <2>1, <2>2, TodoItems, TodosDiffer DEF Todos, FailedItself
<1>5. PICK r : r = attempt'[a]
  OBVIOUS
<1>6. /\ a \in DOMAIN attempt' /\ r.inv = i /\ r.phase = "leaving"
      /\ r.todo = Tail(todo) /\ WayOut(r)
      /\ Owning(r, "guard") <=> Owning(attempt[a], "guard")
      /\ Owning(r, "lease") /\ Owning(attempt[a], "lease")
  BY <1>1, <1>2, <1>3, <1>4, <1>5 DEF WayOut, Owning
<1>7. /\ BilledIn(mem') = BilledIn(mem)
      /\ \A j : Releasable(j)' <=> Releasable(j) /\ j # i
      /\ UNCHANGED leases /\ up'
  BY <1>0, <1>3, HoldDropped
<1>8. WaysOut'
  <2>1. attempt[a].todo \in FailedItself => i \in BilledIn(mem)
    BY <1>0, <1>2, <1>3 DEF Owned, WaysOut
  <2> QED
    BY <1>1, <1>2, <1>3, <1>4, <1>5, <1>6, <1>7, <2>1, WaysStay DEF Owned
<1>9. GuardsMatch'
  BY <1>0, <1>2, <1>3, <1>5, <1>6, GuardsStay DEF Owned, DropHold, guard
<1>10. LeasesMatch'
  <2>1. \A j : Has(a, j, "lease")' <=> Has(a, j, "lease")
    BY <1>0, <1>2, <1>5, <1>6 DEF Has
  <2> QED
    BY <1>2, <1>3, <1>5, <1>6, <1>7, <2>1, LeasesStay DEF Owned, DropHold
<1>11. HoldsMatch'
  <2>1. ~Upstream(a)'
    BY <1>5, <1>6 DEF Upstream, In
  <2> QED
    BY <1>0, <1>2, <1>3, <1>7, <2>1, HoldsStay
<1>12. DownIsEmpty'
  BY <1>7 DEF DownIsEmpty
<1> QED
  BY <1>8, <1>9, <1>10, <1>11, <1>12 DEF Owned

\* Its permit and its lease go back together.
LEMMA DropProtectionOwned ==
  ASSUME Standing, ~ClientsReuseIds, NEW a, DropProtection(a)
  PROVE  Owned'
<1>0. PICK i : i = attempt[a].inv
  OBVIOUS
<1>1. PICK todo : todo = attempt[a].todo
  OBVIOUS
<1>2. /\ a \in DOMAIN attempt /\ attempt[a].phase = "leaving" /\ todo \in Todos
      /\ Head(todo) = "lease" /\ Only(a)
      /\ Len(todo) = 1 => a \notin DOMAIN attempt'
      /\ Len(todo) # 1 =>
           /\ a \in DOMAIN attempt' /\ attempt'[a].inv = i
           /\ attempt'[a].phase = "leaving" /\ attempt'[a].todo = Tail(todo)
           /\ attempt'[a].output = attempt[a].output
  BY <1>0, <1>1, NextDropRecord DEF DropProtection
<1>3. /\ a \in Attempts /\ i \in Invocations /\ WayOut(attempt[a]) /\ up
      /\ IInv /\ AttemptsOK /\ Owned /\ leases \in [Invocations -> Nat]
  BY <1>0, <1>2, LiveAttempt DEF Standing
<1>4. \/ todo = Unprotected /\ Tail(todo) = GuardOnly /\ Len(todo) # 1
      \/ todo = LeaseLast /\ Len(todo) = 1
  <2>1. Len(Unprotected) # 1 /\ Len(LeaseLast) = 1
    BY DEF Unprotected, LeaseLast
  <2> QED
    BY <1>2, <2>1, TodoSteps
<1>5. "lease" \in Range(todo) /\ "hold" \notin Range(todo)
  BY <1>4, TodoItems
<1>6. Owning(attempt[a], "lease") /\ ~Owning(attempt[a], "hold")
  BY <1>1, <1>2, <1>5 DEF Owning
<1>7. /\ UNCHANGED mem /\ up' /\ inflight' = inflight - 1
      /\ leases' = [leases EXCEPT ![i] = @ - 1] /\ UNCHANGED guard
  BY <1>0 DEF DropProtection, DropLease
<1>8. ~Releasable(i)
  BY <1>0, <1>2, <1>3, <1>6, Ours
<1>9. \A j : Releasable(j)' <=> Releasable(j)
  BY <1>7 DEF Releasable, HoldStands
<1>10. ~Upstream(a)'
  BY <1>2 DEF Upstream, In
<1>11. a \in DOMAIN attempt' =>
         /\ attempt'[a].inv = i /\ attempt'[a].todo = GuardOnly /\ todo = Unprotected
         /\ WayOut(attempt'[a]) /\ ~Owning(attempt'[a], "lease")
         /\ Owning(attempt'[a], "guard") /\ Owning(attempt[a], "guard")
  BY <1>1, <1>2, <1>3, <1>4, TodoItems DEF WayOut, Owning, Todos
<1>12. WaysOut'
  BY <1>2, <1>3, <1>7, <1>11, TodosDiffer, WaysStay DEF Owned
<1>13. LeasesMatch'
  BY <1>0, <1>2, <1>3, <1>6, <1>7, <1>11, LeaseGiven DEF Owned
<1>14. HoldsMatch'
  BY <1>0, <1>2, <1>3, <1>8, <1>9, <1>10, HoldsStay
<1>15. GuardsMatch'
  <2>1. CASE a \in DOMAIN attempt'
    BY <1>0, <1>2, <1>3, <1>7, <1>11, <2>1, GuardsStay DEF Owned, guard
  <2>2. CASE a \notin DOMAIN attempt'
    <3>1. todo = LeaseLast
      BY <1>2, <1>4, <2>2
    <3>2. ~Owning(attempt[a], "guard")
      BY <1>1, <1>2, <3>1, TodoItems DEF Owning
    <3>3. ASSUME NEW b, NEW j PROVE Has(b, j, "guard")' <=> Has(b, j, "guard")
      <4>1. CASE b = a
        BY <2>2, <3>2, <4>1 DEF Has
      <4>2. CASE b # a
        BY <1>2, <4>2 DEF Only, Has
      <4> QED
        BY <4>1, <4>2
    <3> QED
      BY <1>3, <1>7, <3>3 DEF Owned, GuardsMatch, guard
  <2> QED
    BY <2>1, <2>2
<1>16. DownIsEmpty'
  BY <1>7 DEF DownIsEmpty
<1> QED
  BY <1>12, <1>13, <1>14, <1>15, <1>16 DEF Owned

\* The guard ends with nothing of its invocation left open: it is dropped last,
\* or its attempt has been billed.
LEMMA DropGuardOwned ==
  ASSUME Standing, ~ClientsReuseIds, NEW a, DropGuard(a)
  PROVE  Owned'
<1>0. PICK i : i = attempt[a].inv
  OBVIOUS
<1>1. PICK todo : todo = attempt[a].todo
  OBVIOUS
<1>2. /\ a \in DOMAIN attempt /\ attempt[a].phase = "leaving" /\ todo \in Todos
      /\ Head(todo) = "guard" /\ Only(a)
      /\ Len(todo) = 1 => a \notin DOMAIN attempt'
      /\ Len(todo) # 1 =>
           /\ a \in DOMAIN attempt' /\ attempt'[a].inv = i
           /\ attempt'[a].phase = "leaving" /\ attempt'[a].todo = Tail(todo)
           /\ attempt'[a].output = attempt[a].output
  BY <1>0, <1>1, NextDropRecord DEF DropGuard
<1>3. /\ a \in Attempts /\ i \in Invocations /\ WayOut(attempt[a]) /\ up
      /\ IInv /\ AttemptsOK /\ Owned
  BY <1>0, <1>2, LiveAttempt DEF Standing
<1>4. \/ todo = GuardOnly /\ Len(todo) = 1
      \/ todo = FailedFirst /\ Tail(todo) = HoldAndLease /\ Len(todo) # 1
  <2>1. Len(GuardOnly) = 1 /\ Len(FailedFirst) # 1
    BY DEF GuardOnly, FailedFirst
  <2> QED
    BY <1>2, <2>1, TodoSteps
<1>5. Has(a, i, "guard")
  BY <1>0, <1>1, <1>2, <1>4, TodoItems DEF Has, Owning
<1>6. /\ UNCHANGED vars /\ UNCHANGED <<inflight, stopping>>
      /\ inProgress' = inProgress \ {i}
  BY <1>0 DEF DropGuard, EndGuard
<1>7. ~Releasable(i)
  <2>1. CASE todo = GuardOnly
    <3>1. ~Owning(attempt[a], "hold")
      BY <1>1, <1>2, <2>1, TodoItems DEF Owning
    <3> QED
      BY <1>0, <1>2, <1>3, <3>1, Ours
  <2>2. CASE todo = FailedFirst
    BY <1>0, <1>1, <1>2, <1>3, <2>2, Ours DEF FailedItself
  <2> QED
    BY <1>4, <2>1, <2>2
<1>8. a \in DOMAIN attempt' =>
        /\ attempt'[a].inv = i /\ attempt'[a].todo = HoldAndLease /\ todo = FailedFirst
        /\ WayOut(attempt'[a]) /\ Owning(attempt'[a], "lease")
        /\ ~Owning(attempt'[a], "guard")
  BY <1>1, <1>2, <1>3, <1>4, TodoItems DEF WayOut, Owning, Todos, FailedItself
<1>9. WaysOut'
  <2>1. todo = FailedFirst => i \in BilledIn(mem)
    BY <1>0, <1>1, <1>2, <1>3 DEF Owned, WaysOut, FailedItself
  <2> QED
    BY <1>2, <1>3, <1>6, <1>8, <2>1, WaysStay DEF Owned, vars
<1>10. GuardsMatch'
  <2>1. \A j : ~Has(a, j, "guard")'
    BY <1>8 DEF Has
  <2>2. ASSUME NEW b, b # a, NEW j PROVE Has(b, j, "guard")' <=> Has(b, j, "guard")
    BY <1>2, <2>2 DEF Only, Has
  <2>3. \A b : Has(b, i, "guard") => b = a
    BY <1>3, <1>5 DEF Owned, GuardsMatch
  <2>4. \A j : Has(a, j, "guard") => j = i
    BY <1>0 DEF Has
  <2> QED
    BY <1>3, <1>6, <2>1, <2>2, <2>3, <2>4 DEF Owned, GuardsMatch
<1>11. LeasesMatch'
  <2>1. Owning(attempt[a], "lease") <=> todo = FailedFirst
    BY <1>1, <1>2, <1>4, TodoItems DEF Owning
  <2>2. a \in DOMAIN attempt' <=> todo = FailedFirst
    BY <1>2, <1>4, TodosDiffer DEF FailedItself
  <2>3. \A j : Has(a, j, "lease")' <=> Has(a, j, "lease")
    BY <1>0, <1>2, <1>8, <2>1, <2>2 DEF Has
  <2> QED
    BY <1>2, <1>3, <1>6, <1>8, <2>1, <2>2, <2>3, LeasesStay DEF Owned, vars
<1>12. HoldsMatch'
  <2>1. \A j : Releasable(j)' <=> Releasable(j)
    BY <1>6 DEF vars, Releasable, HoldStands
  <2>2. ~Upstream(a)'
    BY <1>2 DEF Upstream, In
  <2> QED
    BY <1>0, <1>2, <1>3, <1>7, <2>1, <2>2, HoldsStay
<1>13. DownIsEmpty'
  BY <1>3, <1>6 DEF DownIsEmpty, vars
<1> QED
  BY <1>9, <1>10, <1>11, <1>12, <1>13 DEF Owned

-----------------------------------------------------------------------------
\* The steps around the attempts.

\* What leaves the attempts alone and the tables quiet.
LEMMA QuietOwned ==
  ASSUME Standing, UNCHANGED <<attempt, inProgress, inflight, leases>>,
         Quiet(mem, mem'), up' = up
  PROVE  Owned'
<1>1. Owned /\ DownIsEmpty
  BY DEF Standing, Owned
<1>2. \A a, i, thing : Has(a, i, thing)' <=> Has(a, i, thing)
  BY DEF Has
<1>3. \A i : Releasable(i)' <=> Open(mem', i)
  BY DEF Releasable, HoldStands, Open
<1>4. WaysOut'
  BY <1>1 DEF Owned, WaysOut, Quiet
<1>5. GuardsMatch'
  BY <1>1, <1>2 DEF Owned, GuardsMatch
<1>6. LeasesMatch'
  <2>1. AllLeaseOwners' = AllLeaseOwners /\ \A i : LeaseOwners(i)' = LeaseOwners(i)
    BY <1>2 DEF AllLeaseOwners, LeaseOwners
  <2> QED
    BY <1>1, <2>1 DEF Owned, LeasesMatch
<1>7. HoldsMatch'
  <2>1. ASSUME NEW a, Upstream(a)' PROVE Releasable(attempt[a].inv)'
    <3>1. Upstream(a)
      BY <2>1 DEF Upstream, In
    <3>2. Open(mem, attempt[a].inv) /\ leases[attempt[a].inv] > 0
      BY <1>1, <3>1, ReleasableIsOpen, UpstreamLeased DEF Owned, HoldsMatch
    <3>3. Open(mem', attempt[a].inv)
      BY <3>2 DEF Quiet
    <3> QED
      BY <1>3, <3>3
  <2>2. ASSUME up', NEW i \in Invocations, Releasable(i)'
        PROVE  \E a \in Attempts : Has(a, i, "guard")' /\ Has(a, i, "hold")'
    <3>1. Releasable(i)
      BY <1>3, <2>2, ReleasableIsOpen DEF Quiet
    <3> QED
      BY <1>1, <1>2, <2>2, <3>1 DEF Owned, HoldsMatch
  <2> QED
    BY <2>1, <2>2 DEF HoldsMatch
<1>8. DownIsEmpty'
  BY <1>1 DEF DownIsEmpty
<1> QED
  BY <1>4, <1>5, <1>6, <1>7, <1>8 DEF Owned

\* What the engine does of itself: it returns no hold an attempt still wants.
LEMMA EngineOwned ==
  ASSUME Standing, Engine
  PROVE  Owned'
<1>1. up /\ \E candidate : Quiet(mem, candidate) /\ Commit(candidate, mem)
  BY EngineQuiet DEF Engine, Standing
<1>2. PICK candidate : Quiet(mem, candidate) /\ Commit(candidate, mem)
  BY <1>1
<1>3. /\ up' => UNCHANGED leases /\ mem' \in {candidate, mem}
      /\ ~up' => Stopped
  BY <1>1, <1>2, CommitEnds
<1>4. CASE ~up'
  <2>1. Lost
    BY <1>4 DEF Engine, UnlessDead
  <2> QED
    BY <1>3, <1>4, <2>1, LostOwned DEF Stopped
<1>5. CASE up'
  <2>1. UNCHANGED gateway
    BY <1>5 DEF Engine, UnlessDead
  <2>2. Quiet(mem, mem)
    BY DEF Quiet
  <2>3. Quiet(mem, mem')
    BY <1>2, <1>3, <1>5, <2>2
  <2> QED
    BY <1>1, <1>3, <1>5, <2>1, <2>3, QuietOwned DEF gateway
<1> QED
  BY <1>4, <1>5

\* A start finds no hold open.
LEMMA RestartOwned ==
  ASSUME Standing, Restart, UNCHANGED gateway
  PROVE  Owned'
<1>1. /\ ~up /\ up' /\ mem' = Import(disk) /\ UNCHANGED leases
      /\ UNCHANGED <<attempt, inProgress, inflight>>
  BY DEF Restart, gateway
<1>2. Owned /\ DOMAIN attempt = {} /\ Sound(disk)
  BY <1>1 DEF Standing, Owned, DownIsEmpty, IInv
<1>3. \A i : ~Releasable(i)'
  <2>1. \A i : ~Open(mem', i)
    BY <1>1, <1>2, ImportTables
  <2> QED
    BY <2>1 DEF Releasable, HoldStands, Open
<1>4. WaysOut' /\ DownIsEmpty'
  BY <1>1, <1>2 DEF WaysOut, DownIsEmpty
<1>5. GuardsMatch'
  BY <1>1, <1>2 DEF Owned, GuardsMatch, Has
<1>6. HoldsMatch'
  BY <1>1, <1>2, <1>3 DEF HoldsMatch, Upstream, In
<1>7. LeasesMatch'
  <2>1. AllLeaseOwners' = AllLeaseOwners /\ \A i : LeaseOwners(i)' = LeaseOwners(i)
    BY <1>1 DEF AllLeaseOwners, LeaseOwners, Has
  <2> QED
    BY <1>1, <1>2, <2>1 DEF Owned, LeasesMatch
<1> QED
  BY <1>4, <1>5, <1>6, <1>7 DEF Owned

\* What an attempt does keeps everything owned.
LEMMA ServeOwned ==
  ASSUME Standing, ~ClientsReuseIds, NEW a \in Attempts, Serve(a)
  PROVE  Owned'
<1>1. CASE FinishStream(a)
  BY <1>1, FinishBilledOwned, FinishUnbilledOwned DEF FinishStream
<1>2. CASE \E i \in Invocations : Arrive(a, i)
  BY <1>2, ArriveOwned
<1>3. CASE AnswerLocally(a) \/ Leave(a) \/ BillEmptyAttempt(a)
  BY <1>3, AnswerLocallyOwned, LeaveOwned, BillEmptyOwned
<1>4. CASE BeginReserving(a) \/ ReserveWaiting(a)
  BY <1>4, BeginReservingOwned, ReserveWaitingOwned
<1>5. CASE BeginStream(a) \/ Output(a) \/ ClientLeaves(a)
  BY <1>5, StreamOwned
<1>6. CASE DropHold(a) \/ DropProtection(a) \/ DropGuard(a)
  BY <1>6, DropHoldOwned, DropProtectionOwned, DropGuardOwned
<1> QED
  BY <1>1, <1>2, <1>3, <1>4, <1>5, <1>6 DEF Serve, Proceeds

\* So does every step.
LEMMA StepOwned ==
  ASSUME Standing, ~ClientsReuseIds, [GatewayNext]_allVars
  PROVE  Owned'
<1>1. Quiet(mem, mem)
  BY DEF Quiet
<1>2. CASE UNCHANGED allVars
  BY <1>1, <1>2, QuietOwned DEF allVars, gateway, vars
<1>3. CASE \E a \in Attempts : Serve(a)
  BY <1>3, ServeOwned
<1>4. CASE (\E i \in Invocations : Forget(i)) \/ BeginStop
  BY <1>1, <1>4, QuietOwned DEF Forget, BeginStop, guard, vars
<1>5. CASE Engine
  BY <1>5, EngineOwned
<1>6. CASE OrderlyStop \/ GatewayCrash
  BY <1>6, LostOwned DEF OrderlyStop, GatewayCrash, Crash, Shutdown, Stopped
<1>7. CASE Idles
  <2>1. CASE Restart
    BY <1>7, <2>1, RestartOwned DEF Idles
  <2>2. CASE Tick
    BY <1>1, <1>7, <2>2, QuietOwned DEF Idles, Tick, gateway
  <2> QED
    BY <1>7, <2>1, <2>2 DEF Idles
<1> QED
  BY <1>2, <1>3, <1>4, <1>5, <1>6, <1>7 DEF GatewayNext

\* At first nothing is owned.
LEMMA InitOwned == GatewayInit => Owned
<1> SUFFICES ASSUME GatewayInit PROVE Owned
  OBVIOUS
<1>1. DOMAIN attempt = {} /\ inProgress = {} /\ inflight = 0
      /\ leases = [i \in Invocations |-> 0] /\ up /\ mem = Fresh
  BY NoAttempts DEF GatewayInit, Init
<1>2. WaysOut /\ DownIsEmpty
  BY <1>1 DEF WaysOut, DownIsEmpty
<1>3. GuardsMatch
  BY <1>1 DEF GuardsMatch, Has
<1>4. HoldsMatch
  <2>1. DOMAIN mem.reservations = {}
    BY <1>1, NoAttempts DEF Fresh
  <2> QED
    BY <1>1, <2>1 DEF HoldsMatch, Upstream, In, Releasable, HoldStands
<1>5. LeasesMatch
  <2>1. AllLeaseOwners = {} /\ \A i : LeaseOwners(i) = {}
    BY <1>1 DEF AllLeaseOwners, LeaseOwners, Has
  <2> QED
    BY <1>1, <2>1, FS_EmptySet, GatewayAssumption DEF LeasesMatch
<1> QED
  BY <1>2, <1>3, <1>4, <1>5 DEF Owned

-----------------------------------------------------------------------------
\* The theorems of ownership.  They ask that clients do not send the id of a
\* charged request again once its record has been pruned: an attempt that failed
\* its guard itself may outlive the memory of it, and its late release is harmless
\* because its invocation has been charged.

\* The invariant of ownership holds throughout.
THEOREM Ownership ==
  ASSUME ~ClientsReuseIds PROVE GatewaySpec => []Standing
<1>1. GatewayInit => Owned
  BY InitOwned
<1>2. Standing /\ [GatewayNext]_allVars => Owned'
  BY StepOwned
<1>3. IInv /\ GInv /\ Owned => Standing
  BY DEF Standing, GInv
<1> QED
  BY <1>1, <1>2, <1>3, AttemptsTyped, GatewayCallsBilling, Invariance, PTL
     DEF GatewaySpec

\* A permit, a lease, a guard or an unbilled hold always belongs to one live
\* attempt, which still has the guard while the hold stands: whatever way an
\* attempt leaves the gateway, what it took goes back with it.
THEOREM NothingIsLeaked ==
  ASSUME ~ClientsReuseIds PROVE GatewaySpec => []EverythingOwned
<1>1. ASSUME Standing PROVE EverythingOwned
  <2>1. DOMAIN attempt \subseteq Attempts /\ Owned
    BY <1>1 DEF Standing, AttemptsOK
  <2>2. \A a \in DOMAIN attempt : \A thing :
          Owns(a, thing) <=> Owning(attempt[a], thing)
    BY DEF Owns, Owning, Upstream, In
  <2>3. \A i, thing : Owners(i, thing) = {a \in Attempts : Has(a, i, thing)}
    BY <2>1, <2>2 DEF Owners, Has
  <2>4. {a \in DOMAIN attempt : Owns(a, "lease")} = AllLeaseOwners
    BY <2>1, <2>2 DEF AllLeaseOwners
  <2>5. inflight = Cardinality(AllLeaseOwners) /\ inflight <= MaxInflight
    BY <2>1 DEF Owned, LeasesMatch
  <2>6. ASSUME NEW i \in Invocations
        PROVE  leases[i] = Cardinality(Owners(i, "lease"))
    BY <2>1, <2>3 DEF Owned, LeasesMatch, LeaseOwners
  <2>7. ASSUME NEW i \in Invocations
        PROVE  Cardinality(Owners(i, "guard")) = IF i \in inProgress THEN 1 ELSE 0
    <3>1. CASE i \in inProgress
      <4>1. PICK a \in Attempts : Has(a, i, "guard")
        BY <2>1, <3>1 DEF Owned, GuardsMatch
      <4>2. Owners(i, "guard") = {a}
        BY <2>1, <2>3, <4>1 DEF Owned, GuardsMatch
      <4> QED
        BY <3>1, <4>2, FS_Singleton
    <3>2. CASE i \notin inProgress
      <4>1. Owners(i, "guard") = {}
        BY <2>1, <2>3, <3>2 DEF Owned, GuardsMatch
      <4> QED
        BY <3>2, <4>1, FS_EmptySet
    <3> QED
      BY <3>1, <3>2
  <2>8. ASSUME NEW i \in Invocations, up, Releasable(i)
        PROVE  Owners(i, "hold") \cap Owners(i, "guard") # {}
    <3>1. PICK a \in Attempts : Has(a, i, "guard") /\ Has(a, i, "hold")
      BY <2>1, <2>8 DEF Owned, HoldsMatch
    <3> QED
      BY <2>3, <3>1
  <2> QED
    BY <2>4, <2>5, <2>6, <2>7, <2>8 DEF EverythingOwned
<1> QED
  BY <1>1, Ownership, PTL

\* While an attempt is upstream its hold stands unbilled and under a lease, so
\* its bill finds it.
THEOREM HoldsStayUpstream ==
  ASSUME ~ClientsReuseIds PROVE GatewaySpec => []KeepsItsHold
<1>1. ASSUME Standing, NEW a \in DOMAIN attempt, Upstream(a)
      PROVE  /\ HoldStands(attempt[a].inv) /\ attempt[a].inv \notin DOMAIN mem.pending
             /\ leases[attempt[a].inv] > 0
  BY <1>1, UpstreamLeased DEF Standing, Owned, HoldsMatch, Releasable
<1>2. Standing => KeepsItsHold
  BY <1>1 DEF KeepsItsHold
<1> QED
  BY <1>2, Ownership, PTL

-----------------------------------------------------------------------------
\* Output delivered is billed.

\* A step of one attempt that does not end the process changes it alone.
LEMMA ServeOnly ==
  ASSUME Standing, NEW a \in Attempts, Serve(a), up'
  PROVE  Only(a)
<1>1. ASSUME NEW r, Becomes(a, r) PROVE Only(a)
  BY <1>1, BecomesOnly
<1>2. ASSUME NEW thing, NextDrop(a, thing) PROVE Only(a)
  BY <1>2, NextDropRecord
<1>3. CASE \E i \in Invocations : Arrive(a, i)
  BY <1>1, <1>3 DEF Arrive
<1>4. CASE AnswerLocally(a) \/ Leave(a)
  BY <1>1, <1>4 DEF AnswerLocally, Leave, Leaving
<1>5. CASE BeginReserving(a) \/ ReserveWaiting(a)
  BY <1>1, <1>5 DEF BeginReserving, ReserveWaiting
<1>6. CASE BillEmptyAttempt(a)
  BY <1>1, <1>6 DEF BillEmptyAttempt, UnlessDead, Leaving
<1>7. CASE BeginStream(a) \/ Output(a) \/ ClientLeaves(a)
  BY <1>1, <1>7 DEF BeginStream, Output, ClientLeaves
<1>8. CASE FinishStream(a)
  BY <1>1, <1>8 DEF FinishStream, FinishBilled, FinishUnbilled, UnlessDead, Leaving
<1>9. CASE DropHold(a) \/ DropProtection(a) \/ DropGuard(a)
  BY <1>2, <1>9 DEF DropHold, DropProtection, DropGuard
<1> QED
  BY <1>3, <1>4, <1>5, <1>6, <1>7, <1>8, <1>9 DEF Serve, Proceeds

\* A stream with output ends only by a bill.
LEMMA OutputEnds ==
  ASSUME Standing, NEW a \in Attempts, Serve(a), up',
         a \in DOMAIN attempt, attempt[a].output,
         ~(In(a, "streaming") /\ attempt[a].output)'
  PROVE  attempt[a].inv \in BilledIn(mem')
<1>1. attempt[a].phase = "streaming" /\ attempt[a] \in Attempt
  BY LiveAttempt DEF WayOut
<1>2. CASE FinishStream(a)
  <2>1. PICK i \in Invocations : i = attempt[a].inv
    BY LiveAttempt
  <2>2. \A r : Billable(attempt[a].output, r)
    BY Zenon DEF Billable
  <2>3. ASSUME NEW verdict \in Verdicts(attempt[a].output) PROVE verdict.bills
    <3>1. PICK r \in Reports :
            verdict = [bills |-> Billable(attempt[a].output, r),
                       completes |-> Completes(attempt[a].output, r)]
      BY DEF Verdicts
    <3>2. verdict.bills = Billable(attempt[a].output, r)
      BY <3>1
    <3> QED
      BY <2>2, <3>2
  <2>4. PICK charge \in Charges : SettleBill(i, charge)
    BY <1>2, <2>1, <2>3 DEF FinishStream, FinishBilled
  <2>5. IInv /\ Releasable(i)
    BY <1>1, <2>1 DEF Standing, Owned, HoldsMatch, Upstream, In
  <2> QED
    BY <2>1, <2>4, <2>5, SettleBills
<1>3. CASE ClientLeaves(a)
  <2>1. PICK r : r = [attempt[a] EXCEPT !.connected = FALSE]
    OBVIOUS
  <2>2. r.phase = "streaming" /\ r.output = attempt[a].output
    BY <1>1, <2>1 DEF Attempt
  <2>3. a \in DOMAIN attempt' /\ attempt'[a] = r
    BY <1>3, <2>1, BecomesOnly DEF ClientLeaves
  <2> QED
    BY <2>2, <2>3 DEF In
<1>4. CASE Output(a)
  BY <1>4 DEF Output
<1>5. ~In(a, "admitted") /\ ~In(a, "reserving") /\ ~In(a, "routing") /\ ~In(a, "leaving")
  BY <1>1 DEF In
<1>6. ~(\E i \in Invocations : Arrive(a, i))
  BY DEF Arrive
<1> QED
  BY <1>2, <1>3, <1>4, <1>5, <1>6
     DEF Serve, Proceeds, AnswerLocally, BeginReserving, ReserveWaiting, BillEmptyAttempt,
         BeginStream, Leave, DropHold, DropProtection, DropGuard, NextDrop

\* What a stream delivered is billed, in the ledger or as an intent, before the
\* stream is gone, unless the process ends first.
THEOREM OutputIsBilled ==
  ASSUME ~ClientsReuseIds PROVE GatewaySpec => DeliveredIsBilled
<1>1. ASSUME Standing, [GatewayNext]_allVars, NEW a \in DOMAIN attempt,
             attempt[a].output, up', ~(In(a, "streaming") /\ attempt[a].output)'
      PROVE  attempt[a].inv \in BilledIn(mem')
  <2>1. attempt[a].phase = "streaming"
    BY <1>1, LiveAttempt DEF WayOut
  <2>2. attempt' # attempt
    BY <1>1, <2>1 DEF In
  <2>3. CASE \E b \in Attempts : Serve(b)
    <3>1. PICK b \in Attempts : Serve(b)
      BY <2>3
    <3>2. Only(b)
      BY <1>1, <3>1, ServeOnly
    <3>3. CASE a = b
      BY <1>1, <3>1, <3>3, OutputEnds
    <3>4. CASE a # b
      BY <1>1, <2>1, <3>2, <3>4 DEF Only, In
    <3> QED
      BY <3>3, <3>4
  <2>4. CASE Engine \/ Idles \/ BeginStop \/ \E i \in Invocations : Forget(i)
    BY <1>1, <2>2, <2>4 DEF Engine, UnlessDead, Idles, BeginStop, Forget, gateway
  <2>5. CASE OrderlyStop \/ GatewayCrash
    BY <1>1, <2>5 DEF OrderlyStop, GatewayCrash, Crash, Shutdown, Stopped
  <2> QED
    BY <1>1, <2>2, <2>3, <2>4, <2>5 DEF GatewayNext, allVars, gateway
<1>2. Standing /\ [GatewayNext]_allVars =>
        [\A a \in DOMAIN attempt :
           attempt[a].output /\ up' /\ ~(In(a, "streaming") /\ attempt[a].output)'
             => attempt[a].inv \in BilledIn(mem')]_allVars
  BY <1>1
<1> QED
  BY <1>2, Ownership, PTL DEF GatewaySpec, DeliveredIsBilled

-----------------------------------------------------------------------------
\* The gateway implements ServedOnce, step by step.

\* The attempts upstream, with their invocations.
Running == [a \in {b \in DOMAIN attempt : Upstream(b)} |-> attempt[a].inv]

\* Where no attempt goes upstream or comes back, nothing begins or stops.
LEMMA RunningSame ==
  ASSUME NEW a, Only(a),
         \/ ~Upstream(a) /\ ~Upstream(a)'
         \/ Upstream(a) /\ Upstream(a)' /\ attempt'[a].inv = attempt[a].inv
  PROVE  Running' = Running
<1>1. \A b : Upstream(b)' <=> Upstream(b)
  BY OthersKeep
<1>2. \A b : Upstream(b) => attempt'[b].inv = attempt[b].inv
  BY OthersKeep
<1>3. {b \in DOMAIN attempt : Upstream(b)}' = {b \in DOMAIN attempt : Upstream(b)}
  BY <1>1 DEF Upstream, In
<1> QED
  BY <1>2, <1>3 DEF Running

\* An attempt no longer upstream has stopped.
LEMMA RunningStops ==
  ASSUME NEW a, Only(a), Upstream(a), ~Upstream(a)'
  PROVE  /\ a \in DOMAIN Running /\ Running[a] = attempt[a].inv
         /\ Running' = [b \in DOMAIN Running \ {a} |-> Running[b]]
<1>1. \A b : Upstream(b)' <=> Upstream(b) /\ b # a
  BY OthersKeep
<1>2. \A b : Upstream(b) /\ b # a => attempt'[b].inv = attempt[b].inv
  BY OthersKeep
<1>3. {b \in DOMAIN attempt : Upstream(b)}' = {b \in DOMAIN attempt : Upstream(b)} \ {a}
  BY <1>1 DEF Upstream, In
<1>4. a \in {b \in DOMAIN attempt : Upstream(b)}
  BY DEF Upstream, In
<1> QED
  BY <1>2, <1>3, <1>4 DEF Running

\* An attempt that goes upstream begins.
LEMMA RunningStarts ==
  ASSUME NEW a, Only(a), ~Upstream(a), Upstream(a)', NEW i, attempt'[a].inv = i
  PROVE  /\ a \notin DOMAIN Running
         /\ Running' = [b \in DOMAIN Running \cup {a} |-> IF b = a THEN i ELSE Running[b]]
<1>1. \A b : Upstream(b)' <=> Upstream(b) \/ b = a
  BY OthersKeep
<1>2. \A b : Upstream(b) => attempt'[b].inv = attempt[b].inv
  BY OthersKeep
<1>3. {b \in DOMAIN attempt : Upstream(b)}' = {b \in DOMAIN attempt : Upstream(b)} \cup {a}
  BY <1>1 DEF Upstream, In
<1> QED
  BY <1>2, <1>3 DEF Running

\* The attempts gone, nothing runs.
LEMMA RunningEnds ==
  ASSUME Lost
  PROVE  Running' = Served!Idle
<1>1. DOMAIN attempt' = {}
  BY NoAttempts DEF Lost
<1>2. {b \in DOMAIN attempt : Upstream(b)}' = {}
  BY <1>1
<1> QED
  BY <1>2 DEF Running, Served!Idle

\* What is saved is known: a bill on disk is a bill in memory.
LEMMA SavedIsKnown ==
  ASSUME IInv
  PROVE  BilledIn(disk) \subseteq BilledIn(mem)
<1>1. mem.ledger = disk.ledger /\ DOMAIN disk.pending \subseteq DOMAIN mem.pending
  BY DEF IInv, MoneyIsDurable, SameMoney, IntentsKept
<1> QED
  BY <1>1 DEF BilledIn, UsageOf

\* The abstract steps, over what runs and what is billed.
LEMMA AbstractSame ==
  ASSUME Running' = Running, BilledIn(mem') = BilledIn(mem),
         BilledIn(disk') = BilledIn(disk)
  PROVE  [Served!SNext]_(Served!svars)
BY DEF Served!svars, Running

\* Bills come to be saved.
LEMMA AbstractSave ==
  ASSUME Running' = Running, BilledIn(mem') = BilledIn(mem),
         BilledIn(disk) \subseteq BilledIn(disk'), BilledIn(disk') \subseteq BilledIn(mem)
  PROVE  Served!SNext
BY DEF Served!SNext, Served!Save, Served!SaveAmong, Running

\* An attempt begins to run an unbilled invocation that nothing else runs.
LEMMA AbstractRun ==
  ASSUME NEW a \in Attempts, NEW i \in Invocations,
         a \notin DOMAIN Running, \A b \in DOMAIN Running : Running[b] # i,
         i \notin BilledIn(mem),
         Running' = [b \in DOMAIN Running \cup {a} |-> IF b = a THEN i ELSE Running[b]],
         BilledIn(mem') = BilledIn(mem), BilledIn(disk') = BilledIn(disk)
  PROVE  Served!SNext
<1>1. Served!Run(a, i)
  BY DEF Served!Run, Served!Range, Running
<1> QED
  BY <1>1 DEF Served!SNext

\* An attempt stops without a bill.
LEMMA AbstractAbandon ==
  ASSUME NEW a \in Attempts, a \in DOMAIN Running,
         Running' = [b \in DOMAIN Running \ {a} |-> Running[b]],
         BilledIn(mem') = BilledIn(mem), BilledIn(disk') = BilledIn(disk)
  PROVE  Served!SNext
<1>1. Served!Abandon(a)
  BY DEF Served!Abandon, Served!Stops, Served!Restrict, Running
<1> QED
  BY <1>1 DEF Served!SNext

\* An attempt stops with its bill.
LEMMA AbstractBill ==
  ASSUME NEW a \in Attempts, a \in DOMAIN Running,
         Running' = [b \in DOMAIN Running \ {a} |-> Running[b]],
         BilledIn(mem') = BilledIn(mem) \cup {Running[a]},
         BilledIn(disk) \subseteq BilledIn(disk'), BilledIn(disk') \subseteq BilledIn(mem')
  PROVE  Served!SNext
<1>1. Served!Bill(a)
  BY DEF Served!Bill, Served!Stops, Served!Restrict, Served!SaveAmong, Running
<1> QED
  BY <1>1 DEF Served!SNext

\* The process ends, with one more bill saved at most.
LEMMA AbstractDie ==
  ASSUME Running' = Served!Idle, BilledIn(disk) \subseteq BilledIn(disk'),
         \/ BilledIn(disk') \subseteq BilledIn(mem)
         \/ \E a \in DOMAIN Running : BilledIn(disk') \subseteq BilledIn(mem) \cup {Running[a]},
         mem' = disk'
  PROVE  Served!SNext
<1>1. Served!Die
  BY DEF Served!Die, Served!SaveAmong, Running
<1> QED
  BY <1>1 DEF Served!SNext

\* A bill ends its attempt's run, and the process perhaps with it.
LEMMA BilledRefines ==
  ASSUME Standing, NEW a, Upstream(a), NEW charge \in Charges,
         SettleBill(attempt[a].inv, charge),
         NEW todo, NEW outcome,
         UnlessDead(/\ Leaving(a, todo, outcome)
                    /\ UNCHANGED <<inflight, stopping>> /\ UNCHANGED guard)
  PROVE  Served!SNext
<1>0. PICK i : i = attempt[a].inv
  OBVIOUS
<1>1. /\ a \in DOMAIN attempt /\ a \in Attempts /\ i \in Invocations /\ IInv
      /\ attempt[a] \in Attempt
  BY <1>0, LiveAttempt DEF Upstream, In, Standing
<1>2. Releasable(i)
  BY <1>0 DEF Standing, Owned, HoldsMatch
<1>3. /\ up' => BilledIn(mem') = BilledIn(mem) \cup {i}
      /\ ~up' => Stopped /\ BilledIn(disk') = BilledIn(mem) \cup {i}
      /\ disk' = disk \/ BilledIn(disk') = BilledIn(mem) \cup {i}
  BY <1>0, <1>1, <1>2, SettleBills
<1>4. BilledIn(disk) \subseteq BilledIn(mem)
  BY <1>1, SavedIsKnown
<1>5. a \in DOMAIN Running /\ Running[a] = i
  BY <1>0, <1>1 DEF Running
<1>6. CASE ~up'
  BY <1>3, <1>4, <1>5, <1>6, RunningEnds, AbstractDie DEF UnlessDead, Stopped
<1>7. CASE up'
  <2>1. PICK r : r = Going(attempt[a], todo, outcome)
    OBVIOUS
  <2>2. Becomes(a, r)
    BY <1>7, <2>1 DEF UnlessDead, Leaving, Going
  <2>3. r.phase = "leaving"
    BY <1>1, <2>1 DEF Going, Attempt
  <2>4. Only(a) /\ ~Upstream(a)'
    BY <2>2, <2>3, BecomesOnly DEF Upstream, In
  <2>5. Running' = [b \in DOMAIN Running \ {a} |-> Running[b]]
    BY <2>4, RunningStops
  <2> QED
    BY <1>1, <1>3, <1>4, <1>5, <1>7, <2>5, AbstractBill
<1> QED
  BY <1>6, <1>7

\* What goes without a bill, or was not yet upstream, bills nothing.
LEMMA LeavingRefines ==
  ASSUME Standing, NEW a, a \in DOMAIN attempt, NEW todo, NEW outcome,
         Leaving(a, todo, outcome), UNCHANGED vars
  PROVE  [Served!SNext]_(Served!svars)
<1>1. PICK r : r = Going(attempt[a], todo, outcome)
  OBVIOUS
<1>2. Becomes(a, r) /\ attempt[a] \in Attempt /\ a \in Attempts
  BY <1>1, LiveAttempt DEF Leaving, Going
<1>3. r.phase = "leaving"
  BY <1>1, <1>2 DEF Going, Attempt
<1>4. Only(a) /\ ~Upstream(a)'
  BY <1>2, <1>3, BecomesOnly DEF Upstream, In
<1>5. BilledIn(mem') = BilledIn(mem) /\ BilledIn(disk') = BilledIn(disk)
  BY DEF vars
<1>6. CASE Upstream(a)
  BY <1>2, <1>4, <1>5, <1>6, RunningStops, AbstractAbandon
<1>7. CASE ~Upstream(a)
  BY <1>4, <1>5, <1>7, RunningSame, AbstractSame
<1> QED
  BY <1>6, <1>7

\* A hold made takes its attempt upstream: nothing else runs its invocation,
\* and it is unbilled.
LEMMA ReserveRefines ==
  ASSUME Standing, ~ClientsReuseIds, NEW a, ReserveWaiting(a)
  PROVE  Served!SNext
<1>0. PICK i : i = attempt[a].inv
  OBVIOUS
<1>1. /\ a \in DOMAIN attempt /\ attempt[a].phase = "reserving" /\ a \in Attempts
      /\ attempt[a] \in Attempt /\ i \in Invocations
      /\ IInv /\ Sound(mem) /\ Owned
  BY <1>0, LiveAttempt DEF ReserveWaiting, In, Standing, IInv
<1>2. PICK amount \in HoldAmounts : Reserve(i, amount)
  BY <1>0 DEF ReserveWaiting
<1>3. /\ BilledIn(mem') = BilledIn(mem) /\ ~Open(mem, i) /\ UNCHANGED disk
  BY <1>1, <1>2, ReserveOpens
<1>4. i \notin BilledIn(mem)
  <2>1. i \notin DOMAIN mem.pending
    BY <1>1, <1>2 DEF Reserve, Taken, Sound, PendingHeld
  <2>2. CASE i \in DOMAIN mem.reservations
    <3>1. mem.reservations[i].state = "released"
      BY <1>2, <2>2 DEF Reserve, Taken
    <3> QED
      BY <1>1, <2>1, <2>2, <3>1 DEF Sound, UnchargedWhileOpen, BilledIn
  <2>3. CASE i \notin DOMAIN mem.reservations
    BY <1>2, <2>1, <2>3 DEF Reserve, Sendable, BilledIn
  <2> QED
    BY <2>2, <2>3
<1>5. \A b : Upstream(b) => attempt[b].inv # i
  BY <1>1, <1>3, ReleasableIsOpen DEF Owned, HoldsMatch
<1>6. PICK r : r = [attempt[a] EXCEPT !.phase = "routing"]
  OBVIOUS
<1>7. r.phase = "routing" /\ r.inv = i /\ Becomes(a, r)
  BY <1>0, <1>1, <1>6 DEF ReserveWaiting, Attempt
<1>8. Only(a) /\ ~Upstream(a) /\ Upstream(a)' /\ attempt'[a].inv = i
  BY <1>1, <1>7, BecomesOnly DEF Upstream, In
<1>9. \A b \in DOMAIN Running : Running[b] # i
  BY <1>5 DEF Running
<1> QED
  BY <1>1, <1>3, <1>4, <1>8, <1>9, RunningStarts, AbstractRun

\* A step that takes no attempt upstream or back, and bills nothing.
LEMMA ServeStutters ==
  ASSUME Standing, NEW a \in Attempts,
         \/ \E i \in Invocations : Arrive(a, i)
         \/ BeginReserving(a) \/ BeginStream(a) \/ Output(a) \/ ClientLeaves(a)
         \/ DropHold(a) \/ DropProtection(a) \/ DropGuard(a)
  PROVE  [Served!SNext]_(Served!svars)
<1>1. ASSUME NEW i \in Invocations, Arrive(a, i)
      PROVE  Running' = Running /\ UNCHANGED <<mem, disk>>
  <2>1. PICK r : r = [inv |-> i, phase |-> "admitted", todo |-> <<>>,
                      outcome |-> "abort", output |-> FALSE, connected |-> TRUE]
    OBVIOUS
  <2>2. r.phase = "admitted" /\ Becomes(a, r) /\ a \notin DOMAIN attempt
    BY <1>1, <2>1 DEF Arrive
  <2> QED
    BY <1>1, <2>2, BecomesOnly, RunningSame DEF Upstream, In, Arrive, vars
<1>2. CASE BeginReserving(a) \/ BeginStream(a) \/ Output(a) \/ ClientLeaves(a)
  <2>1. a \in DOMAIN attempt /\ attempt[a] \in Attempt
    BY <1>2, LiveAttempt DEF BeginReserving, BeginStream, Output, ClientLeaves, In
  <2>2. PICK r : /\ Becomes(a, r)
                 /\ \/ /\ attempt[a].phase = "admitted"
                       /\ r = [attempt[a] EXCEPT !.phase = "reserving"]
                    \/ /\ attempt[a].phase = "routing"
                       /\ r = [attempt[a] EXCEPT !.phase = "streaming"]
                    \/ /\ attempt[a].phase = "streaming"
                       /\ r = [attempt[a] EXCEPT !.output = TRUE]
                    \/ /\ attempt[a].phase = "streaming"
                       /\ r = [attempt[a] EXCEPT !.connected = FALSE]
    BY <1>2 DEF BeginReserving, BeginStream, Output, ClientLeaves, In
  <2>3. /\ r.inv = attempt[a].inv
        /\ r.phase \in {"routing", "streaming"} <=>
             attempt[a].phase \in {"routing", "streaming"}
    BY <2>1, <2>2 DEF Attempt
  <2>4. Only(a) /\ attempt'[a] = r /\ (Upstream(a)' <=> Upstream(a))
    BY <2>1, <2>2, <2>3, BecomesOnly DEF Upstream, In
  <2>5. Running' = Running
    BY <2>3, <2>4, RunningSame
  <2>6. UNCHANGED <<mem, disk>>
    BY <1>2 DEF BeginReserving, ProtectReservation, BeginStream, Output, ClientLeaves, vars
  <2> QED
    BY <2>5, <2>6, AbstractSame
<1>3. CASE DropHold(a) \/ DropProtection(a) \/ DropGuard(a)
  <2>1. PICK thing : NextDrop(a, thing)
    BY <1>3 DEF DropHold, DropProtection, DropGuard
  <2>2. Only(a) /\ ~Upstream(a) /\ ~Upstream(a)'
    BY <2>1, NextDropRecord DEF Upstream, In
  <2>3. Running' = Running
    BY <2>2, RunningSame
  <2>4. BilledIn(mem') = BilledIn(mem) /\ disk' = disk
    <3>1. CASE DropHold(a)
      <4>1. a \in DOMAIN attempt
        BY <2>1 DEF NextDrop, In
      <4>2. IInv /\ up
        BY <4>1, LiveAttempt DEF Standing
      <4>3. PICK i : i = attempt[a].inv
        OBVIOUS
      <4> QED
        BY <3>1, <4>2, <4>3, HoldDropped
    <3>2. CASE DropProtection(a) \/ DropGuard(a)
      BY <3>2 DEF DropProtection, DropLease, DropGuard, vars
    <3> QED
      BY <1>3, <3>1, <3>2
  <2> QED
    BY <2>3, <2>4, AbstractSame
<1> QED
  BY <1>1, <1>2, <1>3, AbstractSame

\* What an attempt does is a step of ServedOnce or none.
LEMMA ServeRefines ==
  ASSUME Standing, ~ClientsReuseIds, NEW a \in Attempts, Serve(a)
  PROVE  [Served!SNext]_(Served!svars)
<1>1. CASE AnswerLocally(a) \/ Leave(a)
  BY <1>1, LeavingRefines DEF AnswerLocally, Leave, In
<1>2. CASE BillEmptyAttempt(a)
  BY <1>2, BilledRefines DEF BillEmptyAttempt, Upstream
<1>3. CASE FinishStream(a)
  <2>1. In(a, "streaming") /\ a \in DOMAIN attempt /\ Upstream(a)
    BY <1>3 DEF FinishStream, In, Upstream
  <2>2. PICK completes : FinishBilled(a, completes) \/ FinishUnbilled(a, completes)
    BY <1>3 DEF FinishStream
  <2>3. CASE FinishUnbilled(a, completes)
    BY <2>1, <2>3, LeavingRefines DEF FinishUnbilled
  <2>4. CASE FinishBilled(a, completes)
    <3>1. PICK charge \in Charges : SettleBill(attempt[a].inv, charge)
      BY <2>4 DEF FinishBilled
    <3>2. PICK outcome :
            UnlessDead(/\ Leaving(a, Unprotected, outcome)
                       /\ UNCHANGED <<inflight, stopping>> /\ UNCHANGED guard)
      BY <2>4 DEF FinishBilled, UnlessDead
    <3> QED
      BY <2>1, <3>1, <3>2, BilledRefines
  <2> QED
    BY <2>2, <2>3, <2>4
<1>4. CASE ReserveWaiting(a)
  BY <1>4, ReserveRefines
<1> QED
  BY <1>1, <1>2, <1>3, <1>4, ServeStutters DEF Serve, Proceeds

\* So is every step of the gateway.
LEMMA StepRefines ==
  ASSUME Standing, ~ClientsReuseIds, [GatewayNext]_allVars
  PROVE  [Served!SNext]_(Served!svars)
<1>0. IInv /\ BilledIn(disk) \subseteq BilledIn(mem)
  BY SavedIsKnown DEF Standing
<1>1. ASSUME UNCHANGED attempt PROVE Running' = Running
  BY <1>1 DEF Running, Upstream, In
<1>2. CASE UNCHANGED allVars \/ BeginStop \/ (\E i \in Invocations : Forget(i))
  BY <1>1, <1>2, AbstractSame DEF allVars, gateway, BeginStop, Forget, vars
<1>3. CASE \E a \in Attempts : Serve(a)
  BY <1>3, ServeRefines
<1>4. CASE Engine
  <2>1. up /\ \E candidate : Quiet(mem, candidate) /\ Commit(candidate, mem)
    BY <1>0, <1>4, EngineQuiet DEF Engine
  <2>2. PICK candidate : Quiet(mem, candidate) /\ Commit(candidate, mem)
    BY <2>1
  <2>3. /\ disk' \in {disk, candidate}
        /\ up' => mem' \in {candidate, mem}
        /\ ~up' => disk' = candidate /\ Stopped
    BY <2>1, <2>2, CommitEnds
  <2>4. BilledIn(candidate) = BilledIn(mem)
    BY <2>2 DEF Quiet
  <2>5. CASE ~up'
    BY <1>0, <1>4, <2>3, <2>4, <2>5, RunningEnds, AbstractDie
       DEF Engine, UnlessDead, Stopped
  <2>6. CASE up'
    BY <1>0, <1>1, <1>4, <2>3, <2>4, <2>6, AbstractSave DEF Engine, UnlessDead, gateway
  <2> QED
    BY <2>5, <2>6
<1>5. CASE OrderlyStop \/ GatewayCrash
  BY <1>0, <1>5, RunningEnds, AbstractDie
     DEF OrderlyStop, GatewayCrash, Crash, Shutdown, Stopped
<1>6. CASE Idles
  <2>1. CASE Restart
    <3>1. mem = disk /\ Sound(disk) /\ mem' = Import(disk) /\ UNCHANGED disk
      BY <1>0, <2>1 DEF Restart, IInv
    <3>2. BilledIn(mem') = BilledIn(mem)
      BY <3>1, ImportTables
    <3> QED
      BY <1>1, <1>6, <3>1, <3>2, AbstractSame DEF Idles, gateway
  <2>2. CASE Tick
    BY <1>1, <1>6, <2>2, AbstractSame DEF Idles, gateway, Tick
  <2> QED
    BY <1>6, <2>1, <2>2 DEF Idles
<1> QED
  BY <1>2, <1>3, <1>4, <1>5, <1>6 DEF GatewayNext

\* At first nothing runs and nothing is billed.
LEMMA InitRefines == GatewayInit => Served!SInit
<1> SUFFICES ASSUME GatewayInit PROVE Served!SInit
  OBVIOUS
<1>1. DOMAIN attempt = {} /\ mem = Fresh /\ disk = Fresh
  BY NoAttempts DEF GatewayInit, Init
<1>2. Running = Served!Idle
  BY <1>1 DEF Running, Served!Idle
<1>3. BilledIn(Fresh) = {}
  <2>1. DOMAIN Fresh.ledger = {} /\ DOMAIN Fresh.pending = {}
    BY NoAttempts DEF Fresh
  <2> QED
    BY <2>1 DEF BilledIn, UsageOf
<1> QED
  BY <1>1, <1>2, <1>3 DEF Served!SInit, Running

\* Of an invocation's attempts one at a time is upstream, and what has been
\* billed is not run again: the gateway implements ServedOnce.
THEOREM GatewayServesOnce ==
  ASSUME ~ClientsReuseIds PROVE GatewaySpec => ImplementsServedOnce
<1>1. GatewayInit => Served!SInit
  BY InitRefines
<1>2. Standing /\ [GatewayNext]_allVars => [Served!SNext]_(Served!svars)
  BY StepRefines
<1> QED
  BY <1>1, <1>2, Ownership, PTL
     DEF GatewaySpec, ImplementsServedOnce, Served!ServedOnceSpec

-----------------------------------------------------------------------------
\* Traces.

UpstreamAttempts == UNION {Range(chain) : chain \in Chains}

TraceClasses ==
  {NoTrace, "no_route", "upstream_start_failed", "input_too_long", "stream_incomplete",
   "empty_completion", "settlement_failed"} \cup {r.class : r \in Refusals}

TraceStatuses == {"in_progress", "success", "error", "aborted"}

TraceSet ==
  [call : Calls, status : TraceStatuses, class : TraceClasses, chain : Seq(UpstreamAttempts),
   credits : Nat, model : Range(ModelOf) \cup {Unknown}, ts : Int, repeats : Nat, lastSeen : Int]

\* What counts as the attempts of i, as what it was charged, as its traces, and as the trace of a
\* charge.
TriedBy(i) == [t \in TraceSet |-> IF t.call = i THEN Len(t.chain) ELSE 0]

ChargedTo(i) == [t \in TraceSet |-> IF t.call = i THEN t.credits ELSE 0]

OneOf(i) == [t \in TraceSet |-> IF t.call = i THEN 1 ELSE 0]

ShowsEntry(t, e) == Finished(t) /\ t.call = e.call /\ t.ts = e.at /\ t.credits = e.credits

Showing(e) == [t \in TraceSet |-> IF ShowsEntry(t, e) THEN 1 ELSE 0]

\* They are naturals.
LEMMA TraceWeights ==
  /\ \A i : /\ TriedBy(i) \in [TraceSet -> Nat] /\ TriedBy(i) \in [TraceSet -> Int]
            /\ ChargedTo(i) \in [TraceSet -> Nat] /\ ChargedTo(i) \in [TraceSet -> Int]
            /\ OneOf(i) \in [TraceSet -> Nat] /\ OneOf(i) \in [TraceSet -> Int]
  /\ \A e : Showing(e) \in [TraceSet -> Nat] /\ Showing(e) \in [TraceSet -> Int]
<1>1. \A t \in TraceSet : Len(t.chain) \in Nat /\ t.credits \in Nat
  BY DEF TraceSet
<1> QED
  BY <1>1 DEF TriedBy, ChargedTo, OneOf, Showing

TriedPeels(g, s, i) ==
  g = [t \in SUBSET DOMAIN s |->
         IF t = {} THEN 0
         ELSE g[t \ {Max(t)}] + (IF s[Max(t)].call = i THEN Len(s[Max(t)].chain) ELSE 0)]

\* The attempts of a call are a tally.
LEMMA AttemptsTally ==
  ASSUME NEW s \in Seq(TraceSet), NEW i
  PROVE  InvocationAttempts(s, i) = Tally(TriedBy(i), TraceSet, s)
<1> DEFINE w == TriedBy(i)
           h == CHOOSE g : TriedPeels(g, s, i)
<1>1. InvocationAttempts(s, i) = h[DOMAIN s]
  BY DEF InvocationAttempts, Summed, FoldLeft, MapThenFoldSet, TriedPeels
<1>2. w \in [TraceSet -> Int]
  BY TraceWeights
<1>3. \A g : TriedPeels(g, s, i) <=> TallyPeels(g, w, s)
  <2> TAKE g
  <2>1. ASSUME NEW t \in SUBSET DOMAIN s, t # {}
        PROVE  w[s[Max(t)]] = (IF s[Max(t)].call = i THEN Len(s[Max(t)].chain) ELSE 0)
    <3>1. DOMAIN s = 1 .. Len(s) /\ Len(s) \in Nat /\ \A k \in 1 .. Len(s) : s[k] \in TraceSet
      OBVIOUS
    <3>2. Max(t) \in 1 .. Len(s)
      BY <2>1, <3>1, LastOfSet
    <3>3. s[Max(t)] \in TraceSet
      BY <3>1, <3>2
    <3> QED
      BY <3>3 DEF TriedBy
  <2> HIDE DEF w
  <2>2. [t \in SUBSET DOMAIN s |->
           IF t = {} THEN 0
           ELSE g[t \ {Max(t)}] + (IF s[Max(t)].call = i THEN Len(s[Max(t)].chain) ELSE 0)]
        = [t \in SUBSET DOMAIN s |->
             IF t = {} THEN 0 ELSE g[t \ {Max(t)}] + w[s[Max(t)]]]
    BY <2>1
  <2> QED
    BY <2>2, Zenon DEF TriedPeels, TallyPeels
<1>4. \E g : TriedPeels(g, s, i)
  BY <1>2, <1>3, PeelingTallies
<1> HIDE DEF w
<1>5. TallyPeels(h, w, s)
  BY <1>3, <1>4
<1> HIDE DEF h
<1>6. h[DOMAIN s] = Tally(w, TraceSet, s)
  BY <1>2, <1>5, PeelingTallies
<1> QED
  BY <1>1, <1>6 DEF w

ChargedPeels(g, s, i) ==
  g = [t \in SUBSET DOMAIN s |->
         IF t = {} THEN 0
         ELSE g[t \ {Max(t)}] + (IF s[Max(t)].call = i THEN s[Max(t)].credits ELSE 0)]

ChargedIn(s, i) == Summed(s, LAMBDA t : IF t.call = i THEN t.credits ELSE 0)

\* What a call is shown as charged is a tally.
LEMMA ChargedTally ==
  ASSUME NEW s \in Seq(TraceSet), NEW i
  PROVE  ChargedIn(s, i) = Tally(ChargedTo(i), TraceSet, s)
<1> DEFINE w == ChargedTo(i)
           h == CHOOSE g : ChargedPeels(g, s, i)
<1>1. ChargedIn(s, i) = h[DOMAIN s]
  BY DEF ChargedIn, Summed, FoldLeft, MapThenFoldSet, ChargedPeels
<1>2. w \in [TraceSet -> Int]
  BY TraceWeights
<1>3. \A g : ChargedPeels(g, s, i) <=> TallyPeels(g, w, s)
  <2> TAKE g
  <2>1. ASSUME NEW t \in SUBSET DOMAIN s, t # {}
        PROVE  w[s[Max(t)]] = (IF s[Max(t)].call = i THEN s[Max(t)].credits ELSE 0)
    <3>1. DOMAIN s = 1 .. Len(s) /\ Len(s) \in Nat /\ \A k \in 1 .. Len(s) : s[k] \in TraceSet
      OBVIOUS
    <3>2. Max(t) \in 1 .. Len(s)
      BY <2>1, <3>1, LastOfSet
    <3>3. s[Max(t)] \in TraceSet
      BY <3>1, <3>2
    <3> QED
      BY <3>3 DEF ChargedTo
  <2> HIDE DEF w
  <2>2. [t \in SUBSET DOMAIN s |->
           IF t = {} THEN 0
           ELSE g[t \ {Max(t)}] + (IF s[Max(t)].call = i THEN s[Max(t)].credits ELSE 0)]
        = [t \in SUBSET DOMAIN s |->
             IF t = {} THEN 0 ELSE g[t \ {Max(t)}] + w[s[Max(t)]]]
    BY <2>1
  <2> QED
    BY <2>2, Zenon DEF ChargedPeels, TallyPeels
<1>4. \E g : ChargedPeels(g, s, i)
  BY <1>2, <1>3, PeelingTallies
<1> HIDE DEF w
<1>5. TallyPeels(h, w, s)
  BY <1>3, <1>4
<1> HIDE DEF h
<1>6. h[DOMAIN s] = Tally(w, TraceSet, s)
  BY <1>2, <1>5, PeelingTallies
<1> QED
  BY <1>1, <1>6 DEF w

\* The traces of i, those of others, and those made since a time.
MadeBy(i) == {t \in TraceSet : t.call = i}

MadeByOthers(i) == {t \in TraceSet : t.call # i}

MadeSince(cutoff) == {t \in TraceSet : t.ts >= cutoff}

OwnPeels(g, s, i) ==
  g = [t \in SUBSET DOMAIN s |->
         IF t = {} THEN <<>>
         ELSE IF s[Max(t)].call = i THEN Append(g[t \ {Max(t)}], s[Max(t)]) ELSE g[t \ {Max(t)}]]

OthersPeels(g, s, i) ==
  g = [t \in SUBSET DOMAIN s |->
         IF t = {} THEN <<>>
         ELSE IF s[Max(t)].call # i THEN Append(g[t \ {Max(t)}], s[Max(t)]) ELSE g[t \ {Max(t)}]]

SincePeels(g, s, cutoff) ==
  g = [t \in SUBSET DOMAIN s |->
         IF t = {} THEN <<>>
         ELSE IF s[Max(t)].ts >= cutoff THEN Append(g[t \ {Max(t)}], s[Max(t)]) ELSE g[t \ {Max(t)}]]

\* Choosing a call's own traces.
LEMMA OwnChosen ==
  ASSUME NEW s \in Seq(TraceSet), NEW i
  PROVE  TracesOf(s, i) = Chosen(MadeBy(i), TraceSet, s)
<1> DEFINE h == CHOOSE g : OwnPeels(g, s, i)
           Q == MadeBy(i)
<1>1. TracesOf(s, i) = h[DOMAIN s]
  BY DEF TracesOf, TracesThat, FoldLeft, MapThenFoldSet, OwnPeels
<1>2. \A g : OwnPeels(g, s, i) <=> ChoosePeels(g, Q, s)
  <2> TAKE g
  <2>1. ASSUME NEW t \in SUBSET DOMAIN s, t # {} PROVE s[Max(t)] \in Q <=> s[Max(t)].call = i
    <3>1. DOMAIN s = 1 .. Len(s) /\ Len(s) \in Nat /\ \A k \in 1 .. Len(s) : s[k] \in TraceSet
      OBVIOUS
    <3>2. Max(t) \in 1 .. Len(s)
      BY <2>1, <3>1, LastOfSet
    <3> QED
      BY <3>1, <3>2 DEF MadeBy
  <2> HIDE DEF Q
  <2>2. [t \in SUBSET DOMAIN s |->
           IF t = {} THEN <<>>
           ELSE IF s[Max(t)].call = i THEN Append(g[t \ {Max(t)}], s[Max(t)]) ELSE g[t \ {Max(t)}]]
        = [t \in SUBSET DOMAIN s |->
             IF t = {} THEN <<>>
             ELSE IF s[Max(t)] \in Q THEN Append(g[t \ {Max(t)}], s[Max(t)]) ELSE g[t \ {Max(t)}]]
    BY <2>1
  <2> QED
    BY <2>2, Zenon DEF OwnPeels, ChoosePeels
<1> HIDE DEF Q
<1>3. \E g : ChoosePeels(g, Q, s)
  BY PeelingChooses
<1>4. ChoosePeels(h, Q, s)
  BY <1>2, <1>3
<1> HIDE DEF h
<1>5. h[DOMAIN s] = Chosen(Q, TraceSet, s)
  BY <1>4, PeelingChooses
<1> QED
  BY <1>1, <1>5 DEF Q

\* Choosing the others.
LEMMA OthersChosen ==
  ASSUME NEW s \in Seq(TraceSet), NEW i
  PROVE  TracesThat(s, LAMBDA t : t.call # i) = Chosen(MadeByOthers(i), TraceSet, s)
<1> DEFINE h == CHOOSE g : OthersPeels(g, s, i)
           Q == MadeByOthers(i)
<1>1. TracesThat(s, LAMBDA t : t.call # i) = h[DOMAIN s]
  BY DEF TracesThat, FoldLeft, MapThenFoldSet, OthersPeels
<1>2. \A g : OthersPeels(g, s, i) <=> ChoosePeels(g, Q, s)
  <2> TAKE g
  <2>1. ASSUME NEW t \in SUBSET DOMAIN s, t # {} PROVE s[Max(t)] \in Q <=> s[Max(t)].call # i
    <3>1. DOMAIN s = 1 .. Len(s) /\ Len(s) \in Nat /\ \A k \in 1 .. Len(s) : s[k] \in TraceSet
      OBVIOUS
    <3>2. Max(t) \in 1 .. Len(s)
      BY <2>1, <3>1, LastOfSet
    <3> QED
      BY <3>1, <3>2 DEF MadeByOthers
  <2> HIDE DEF Q
  <2>2. [t \in SUBSET DOMAIN s |->
           IF t = {} THEN <<>>
           ELSE IF s[Max(t)].call # i THEN Append(g[t \ {Max(t)}], s[Max(t)]) ELSE g[t \ {Max(t)}]]
        = [t \in SUBSET DOMAIN s |->
             IF t = {} THEN <<>>
             ELSE IF s[Max(t)] \in Q THEN Append(g[t \ {Max(t)}], s[Max(t)]) ELSE g[t \ {Max(t)}]]
    BY <2>1
  <2> QED
    BY <2>2, Zenon DEF OthersPeels, ChoosePeels
<1> HIDE DEF Q
<1>3. \E g : ChoosePeels(g, Q, s)
  BY PeelingChooses
<1>4. ChoosePeels(h, Q, s)
  BY <1>2, <1>3
<1> HIDE DEF h
<1>5. h[DOMAIN s] = Chosen(Q, TraceSet, s)
  BY <1>4, PeelingChooses
<1> QED
  BY <1>1, <1>5 DEF Q

\* Choosing by age.
LEMMA SinceChosen ==
  ASSUME NEW s \in Seq(TraceSet), NEW cutoff
  PROVE  TracesThat(s, LAMBDA t : t.ts >= cutoff) = Chosen(MadeSince(cutoff), TraceSet, s)
<1> DEFINE h == CHOOSE g : SincePeels(g, s, cutoff)
           Q == MadeSince(cutoff)
<1>1. TracesThat(s, LAMBDA t : t.ts >= cutoff) = h[DOMAIN s]
  BY DEF TracesThat, FoldLeft, MapThenFoldSet, SincePeels
<1>2. \A g : SincePeels(g, s, cutoff) <=> ChoosePeels(g, Q, s)
  <2> TAKE g
  <2>1. ASSUME NEW t \in SUBSET DOMAIN s, t # {} PROVE s[Max(t)] \in Q <=> s[Max(t)].ts >= cutoff
    <3>1. DOMAIN s = 1 .. Len(s) /\ Len(s) \in Nat /\ \A k \in 1 .. Len(s) : s[k] \in TraceSet
      OBVIOUS
    <3>2. Max(t) \in 1 .. Len(s)
      BY <2>1, <3>1, LastOfSet
    <3> QED
      BY <3>1, <3>2 DEF MadeSince
  <2> HIDE DEF Q
  <2>2. [t \in SUBSET DOMAIN s |->
           IF t = {} THEN <<>>
           ELSE IF s[Max(t)].ts >= cutoff THEN Append(g[t \ {Max(t)}], s[Max(t)]) ELSE g[t \ {Max(t)}]]
        = [t \in SUBSET DOMAIN s |->
             IF t = {} THEN <<>>
             ELSE IF s[Max(t)] \in Q THEN Append(g[t \ {Max(t)}], s[Max(t)]) ELSE g[t \ {Max(t)}]]
    BY <2>1
  <2> QED
    BY <2>2, Zenon DEF SincePeels, ChoosePeels
<1> HIDE DEF Q
<1>3. \E g : ChoosePeels(g, Q, s)
  BY PeelingChooses
<1>4. ChoosePeels(h, Q, s)
  BY <1>2, <1>3
<1> HIDE DEF h
<1>5. h[DOMAIN s] = Chosen(Q, TraceSet, s)
  BY <1>4, PeelingChooses
<1> QED
  BY <1>1, <1>5 DEF Q

\* How many traces a call has.
LEMMA OwnCounted ==
  ASSUME NEW s \in Seq(TraceSet), NEW i
  PROVE  Len(TracesOf(s, i)) = Tally(OneOf(i), TraceSet, s)
<1> DEFINE w == Ones(TraceSet)  c == Chosen(MadeBy(i), TraceSet, s)
<1>1. w \in [TraceSet -> Int]
  BY DEF Ones
<1>2. c \in Seq(TraceSet) /\ Tally(w, TraceSet, c) = Tally(Among(w, MadeBy(i), TraceSet), TraceSet, s)
  BY <1>1, ChosenFacts DEF Chooses
<1>3. Among(w, MadeBy(i), TraceSet) = OneOf(i)
  BY DEF Among, Ones, MadeBy, OneOf
<1> HIDE DEF c
<1>4. Len(c) = Tally(w, TraceSet, c)
  BY <1>2, LenIsTally
<1> QED
  BY <1>2, <1>3, <1>4, OwnChosen DEF c

\* What only traces of i weigh for.
Concerns(w, i) == w \in [TraceSet -> Nat] /\ \A t \in TraceSet : t.call # i => w[t] = 0

\* What a list that was cut still tells: of the calls it dropped nothing of, everything.
TellsOf(all, kept, D) ==
  /\ kept \in Seq(TraceSet)
  /\ \A k \in 1 .. Len(kept) : \E n \in 1 .. Len(all) : all[n] = kept[k]
  /\ \A i \in Calls \ D, w \in [TraceSet -> Nat] :
       Concerns(w, i) => Tally(w, TraceSet, kept) = Tally(w, TraceSet, all)

TalliedLess(all, kept, out) ==
  /\ kept \in Seq(TraceSet) /\ out \in Seq(TraceSet)
  /\ \A k \in 1 .. Len(kept) : \E n \in 1 .. Len(all) : all[n] = kept[k]
  /\ \A w \in [TraceSet -> Int] :
       Tally(w, TraceSet, all) = Tally(w, TraceSet, kept) + Tally(w, TraceSet, out)

\* What is left out of a list weighs nothing for a call that lost no trace.
LEMMA DropsNothing ==
  ASSUME NEW all \in Seq(TraceSet), NEW kept, NEW out, TalliedLess(all, kept, out)
  PROVE  TellsOf(all, kept, Dropped(all, kept))
<1> SUFFICES ASSUME NEW i \in Calls \ Dropped(all, kept), NEW w \in [TraceSet -> Nat], Concerns(w, i)
             PROVE  Tally(w, TraceSet, kept) = Tally(w, TraceSet, all)
  BY DEF TellsOf, TalliedLess
<1>1. kept \in Seq(TraceSet) /\ out \in Seq(TraceSet)
  BY DEF TalliedLess
<1>2. Len(TracesOf(all, i)) <= Len(TracesOf(kept, i))
  <2>1. ~(Len(TracesOf(all, i)) > Len(TracesOf(kept, i)))
    BY DEF Dropped
  <2>2. Len(TracesOf(all, i)) \in Int /\ Len(TracesOf(kept, i)) \in Int
    BY <1>1, OwnCounted, TraceWeights, TallyFacts DEF AddsUp
  <2> QED
    BY <2>1, <2>2
<1>3. Tally(OneOf(i), TraceSet, all) <= Tally(OneOf(i), TraceSet, kept)
  BY <1>1, <1>2, OwnCounted
<1>4. Tally(OneOf(i), TraceSet, all) = Tally(OneOf(i), TraceSet, kept) + Tally(OneOf(i), TraceSet, out)
  BY TraceWeights DEF TalliedLess
<1>5. IsCount(OneOf(i), TraceSet, out) /\ IsCount(OneOf(i), TraceSet, kept) /\ IsCount(w, TraceSet, out)
  BY <1>1, TraceWeights, TallyCounts
<1>6. Tally(OneOf(i), TraceSet, out) = 0
  BY <1>3, <1>4, <1>5 DEF IsCount
<1>7. ASSUME NEW k \in 1 .. Len(out) PROVE ~(w[out[k]] > 0)
  <2>1. out[k] \in TraceSet
    BY <1>1
  <2>2. ~(OneOf(i)[out[k]] > 0)
    BY <1>5, <1>6 DEF IsCount
  <2>3. out[k].call # i
    BY <2>1, <2>2 DEF OneOf
  <2> QED
    BY <2>1, <2>3 DEF Concerns
<1>8. Tally(w, TraceSet, out) = 0
  BY <1>5, <1>7 DEF IsCount
<1>9. w \in [TraceSet -> Int]
  OBVIOUS
<1>10. Tally(w, TraceSet, all) = Tally(w, TraceSet, kept) + Tally(w, TraceSet, out)
  BY <1>9 DEF TalliedLess
<1>11. Tally(w, TraceSet, kept) \in Int
  BY <1>1, <1>9, TallyFacts DEF AddsUp
<1> QED
  BY <1>8, <1>10, <1>11

\* Nothing is left out of a list that is kept as it is.
LEMMA KeptWhole ==
  ASSUME NEW s \in Seq(TraceSet)
  PROVE  TalliedLess(s, s, <<>>)
<1>1. \A w \in [TraceSet -> Int] :
        Tally(w, TraceSet, <<>>) = 0 /\ Tally(w, TraceSet, s) \in Int
  BY TallyFacts DEF AddsUp
<1>2. <<>> \in Seq(TraceSet)
  OBVIOUS
<1> QED
  BY <1>1, <1>2 DEF TalliedLess

\* The newest traces of a list.
LEMMA NewestTells ==
  ASSUME NEW s \in Seq(TraceSet)
  PROVE  TellsOf(s, NewestKept(s), Dropped(s, NewestKept(s)))
<1> DEFINE m == Len(s) - MaxRetained
           kept == SubSeq(s, m + 1, Len(s))
           out == SubSeq(s, 1, m)
<1>1. MaxRetained \in Nat \ {0} /\ Len(s) \in Nat
  BY TracesAssumption
<1>2. CASE ~(Len(s) > MaxRetained)
  <2>1. NewestKept(s) = s
    BY <1>2 DEF NewestKept
  <2> QED
    BY <2>1, KeptWhole, DropsNothing
<1>3. CASE Len(s) > MaxRetained
  <2>1. NewestKept(s) = kept
    BY <1>3 DEF NewestKept
  <2>2. m \in 1 .. Len(s) /\ m + 1 \in 1 .. Len(s)
    BY <1>1, <1>3
  <2>3. /\ kept \in Seq(TraceSet) /\ Len(kept) = Len(s) - m
        /\ \A k \in 1 .. Len(kept) : kept[k] = s[m + k]
    BY <2>2
  <2>4. /\ out \in Seq(TraceSet) /\ Len(out) = m
        /\ \A k \in 1 .. Len(out) : out[k] = s[k]
    BY <2>2
  <2> HIDE DEF kept, out
  <2>5. s = out \o kept
    <3> DEFINE r == out \o kept
    <3>1. Joined(TraceSet, out, kept)
      BY <2>3, <2>4, ConcatFacts
    <3>2. r \in Seq(TraceSet) /\ Len(r) = Len(s)
      BY <1>1, <2>2, <2>3, <2>4, <3>1 DEF Joined
    <3>3. ASSUME NEW k \in 1 .. Len(s) PROVE s[k] = r[k]
      <4>1. CASE k <= m
        <5>1. k \in 1 .. Len(out)
          BY <2>4, <4>1
        <5> QED
          BY <2>4, <3>1, <5>1 DEF Joined
      <4>2. CASE k > m
        <5>1. k - m \in 1 .. Len(kept) /\ m + (k - m) = k
          BY <1>1, <2>2, <2>3, <4>2
        <5>2. r[Len(out) + (k - m)] = kept[k - m]
          BY <3>1, <5>1 DEF Joined
        <5> QED
          BY <2>3, <2>4, <5>1, <5>2
      <4>3. k <= m \/ k > m
        BY <1>1
      <4> QED
        BY <4>1, <4>2, <4>3
    <3> HIDE DEF r
    <3>4. s = r
      BY <3>2, <3>3, SequencesEqual
    <3> QED
      BY <3>4 DEF r
  <2>6. \A w \in [TraceSet -> Int] :
          Tally(w, TraceSet, s) = Tally(w, TraceSet, kept) + Tally(w, TraceSet, out)
    <3> TAKE w \in [TraceSet -> Int]
    <3>1. AddsUp(w, TraceSet)
      BY TallyFacts
    <3>2. Tally(w, TraceSet, out \o kept) = Tally(w, TraceSet, out) + Tally(w, TraceSet, kept)
      BY <2>3, <2>4, <3>1 DEF AddsUp
    <3>3. Tally(w, TraceSet, out) \in Int /\ Tally(w, TraceSet, kept) \in Int
      BY <2>3, <2>4, <3>1 DEF AddsUp
    <3> QED
      BY <2>5, <3>2, <3>3
  <2>7. ASSUME NEW k \in 1 .. Len(kept) PROVE \E n \in 1 .. Len(s) : s[n] = kept[k]
    <3>1. m + k \in 1 .. Len(s)
      BY <1>1, <2>2, <2>3
    <3> QED
      BY <2>3, <3>1
  <2>8. TalliedLess(s, kept, out)
    BY <2>3, <2>4, <2>6, <2>7 DEF TalliedLess
  <2> QED
    BY <2>1, <2>8, DropsNothing
<1> QED
  BY <1>2, <1>3

LatestOnly(s, cutoff) == TracesThat(s, LAMBDA t : t.ts >= cutoff)

\* The traces of an age.
LEMMA PrunedTells ==
  ASSUME NEW s \in Seq(TraceSet), NEW cutoff
  PROVE  TellsOf(s, LatestOnly(s, cutoff), Dropped(s, LatestOnly(s, cutoff)))
<1> DEFINE Q == MadeSince(cutoff)
           P == TraceSet \ Q
           kept == Chosen(Q, TraceSet, s)
           out == Chosen(P, TraceSet, s)
<1>1. Chooses(Q, TraceSet, s) /\ Chooses(P, TraceSet, s) /\ ChosenMembers(Q, TraceSet, s)
  BY ChosenFacts, ChosenFrom
<1> HIDE DEF Q
<1>2. ASSUME NEW w \in [TraceSet -> Int]
      PROVE  Tally(w, TraceSet, s) = Tally(w, TraceSet, kept) + Tally(w, TraceSet, out)
  <2> DEFINE a == Among(w, Q, TraceSet)  b == Among(w, P, TraceSet)
             Good == {r \in Seq(TraceSet) :
                        Tally(w, TraceSet, r) = Tally(a, TraceSet, r) + Tally(b, TraceSet, r)}
  <2>1. a \in [TraceSet -> Int] /\ b \in [TraceSet -> Int] /\ \A t \in TraceSet : w[t] = a[t] + b[t]
    BY DEF Among
  <2> HIDE DEF a, b
  <2>2. AddsUp(a, TraceSet) /\ AddsUp(b, TraceSet) /\ AddsUp(w, TraceSet)
    BY <2>1, TallyFacts
  <2>3. <<>> \in Good
    BY <2>2 DEF AddsUp
  <2>4. ASSUME NEW r \in Good, NEW t \in TraceSet PROVE Append(r, t) \in Good
    <3>1. r \in Seq(TraceSet) /\ Append(r, t) \in Seq(TraceSet)
      OBVIOUS
    <3>2. /\ Tally(w, TraceSet, Append(r, t)) = Tally(w, TraceSet, r) + w[t]
          /\ Tally(a, TraceSet, Append(r, t)) = Tally(a, TraceSet, r) + a[t]
          /\ Tally(b, TraceSet, Append(r, t)) = Tally(b, TraceSet, r) + b[t]
          /\ Tally(w, TraceSet, r) \in Int /\ Tally(a, TraceSet, r) \in Int
          /\ Tally(b, TraceSet, r) \in Int
      BY <2>2, <3>1 DEF AddsUp
    <3>3. Tally(w, TraceSet, r) = Tally(a, TraceSet, r) + Tally(b, TraceSet, r)
      OBVIOUS
    <3>4. w[t] = a[t] + b[t] /\ a[t] \in Int /\ b[t] \in Int
      BY <2>1
    <3>5. Tally(w, TraceSet, Append(r, t)) = Tally(a, TraceSet, Append(r, t)) + Tally(b, TraceSet, Append(r, t))
      BY <3>2, <3>3, <3>4
    <3> QED
      BY <3>1, <3>5
  <2>5. Good \in SUBSET Seq(TraceSet)
    OBVIOUS
  <2>6. Good = Seq(TraceSet)
    <3> HIDE DEF Good
    <3> QED
      BY <2>3, <2>4, <2>5, SequenceInduction DEF GrowsByOne
  <2>7. Tally(w, TraceSet, kept) = Tally(a, TraceSet, s) /\ Tally(w, TraceSet, out) = Tally(b, TraceSet, s)
    BY <1>1 DEF Chooses, a, b
  <2> QED
    BY <2>6, <2>7
<1>3. TalliedLess(s, kept, out)
  BY <1>1, <1>2 DEF TalliedLess, Chooses, ChosenMembers
<1>4. TellsOf(s, kept, Dropped(s, kept))
  BY <1>3, DropsNothing
<1>5. LatestOnly(s, cutoff) = kept
  BY SinceChosen DEF Q, LatestOnly
<1> QED
  BY <1>4, <1>5

-----------------------------------------------------------------------------
\* What a list of traces tells of the charges u and of the attempts, but for the calls in l.
ListStands(s, u, l) ==
  /\ \A k \in 1 .. Len(s) : s[k].credits > 0 =>
       [call |-> s[k].call, at |-> s[k].ts, credits |-> s[k].credits] \in Range(u)
  /\ \A n \in 1 .. Len(u) : u[n].call \notin l =>
       /\ Tally(ChargedTo(u[n].call), TraceSet, s) = u[n].credits
       /\ Tally(Showing(u[n]), TraceSet, s) > 0
  /\ \A i \in Calls \ l : Tally(TriedBy(i), TraceSet, s) <= AttemptBudget

ChargeSet == [call : Calls, at : Int, credits : Nat]

\* Each weight concerns one call.
LEMMA WeightsConcern ==
  /\ \A i : Concerns(TriedBy(i), i) /\ Concerns(ChargedTo(i), i)
  /\ \A e : Concerns(Showing(e), e.call)
BY TraceWeights DEF Concerns, TriedBy, ChargedTo, Showing, ShowsEntry

\* It stands when a list is cut.
LEMMA CutStands ==
  ASSUME NEW s \in Seq(TraceSet), NEW u \in Seq(ChargeSet), NEW l, NEW kept, NEW D,
         ListStands(s, u, l), TellsOf(s, kept, D)
  PROVE  ListStands(kept, u, l \cup D)
<1>1. ASSUME NEW k \in 1 .. Len(kept), kept[k].credits > 0
      PROVE  [call |-> kept[k].call, at |-> kept[k].ts, credits |-> kept[k].credits] \in Range(u)
  <2>1. PICK n \in 1 .. Len(s) : s[n] = kept[k]
    BY DEF TellsOf
  <2> QED
    BY <1>1, <2>1 DEF ListStands
<1>2. ASSUME NEW n \in 1 .. Len(u), u[n].call \notin l \cup D
      PROVE  /\ Tally(ChargedTo(u[n].call), TraceSet, kept) = u[n].credits
             /\ Tally(Showing(u[n]), TraceSet, kept) > 0
  <2> DEFINE i == u[n].call
  <2>0. u[n] \in ChargeSet
    OBVIOUS
  <2>1. i \in Calls \ D
    BY <1>2, <2>0 DEF ChargeSet
  <2>2. /\ Tally(ChargedTo(i), TraceSet, kept) = Tally(ChargedTo(i), TraceSet, s)
        /\ Tally(Showing(u[n]), TraceSet, kept) = Tally(Showing(u[n]), TraceSet, s)
    BY <2>1, WeightsConcern, TraceWeights DEF TellsOf
  <2> QED
    BY <1>2, <2>2 DEF ListStands
<1>3. ASSUME NEW i \in Calls \ (l \cup D) PROVE Tally(TriedBy(i), TraceSet, kept) <= AttemptBudget
  <2>1. Tally(TriedBy(i), TraceSet, kept) = Tally(TriedBy(i), TraceSet, s)
    BY WeightsConcern, TraceWeights DEF TellsOf
  <2> QED
    BY <2>1 DEF ListStands
<1> QED
  BY <1>1, <1>2, <1>3 DEF ListStands

\* It stands when more is known to be lost.
LEMMA LossStands ==
  ASSUME NEW s, NEW u, NEW l, NEW m, ListStands(s, u, l), l \subseteq m
  PROVE  ListStands(s, u, m)
BY DEF ListStands

\* It stands with one more trace that charges nothing.
LEMMA AppendStands ==
  ASSUME NEW s \in Seq(TraceSet), NEW u \in Seq(ChargeSet), NEW l, NEW t \in TraceSet,
         ListStands(s, u, l), t.credits = 0,
         t.call \in l \/ Tally(TriedBy(t.call), TraceSet, s) + Len(t.chain) <= AttemptBudget
  PROVE  ListStands(Append(s, t), u, l)
<1> DEFINE r == Append(s, t)
<1>1. /\ r \in Seq(TraceSet) /\ Len(r) = Len(s) + 1 /\ Len(s) \in Nat
      /\ r[Len(s) + 1] = t /\ \A k \in 1 .. Len(s) : r[k] = s[k]
  OBVIOUS
<1>2. \A w \in [TraceSet -> Int] :
        Tally(w, TraceSet, r) = Tally(w, TraceSet, s) + w[t] /\ Tally(w, TraceSet, s) \in Int
  BY TallyFacts DEF AddsUp
<1> HIDE DEF r
<1>3. ASSUME NEW k \in 1 .. Len(r), r[k].credits > 0
      PROVE  [call |-> r[k].call, at |-> r[k].ts, credits |-> r[k].credits] \in Range(u)
  <2>1. k \in 1 .. Len(s)
    BY <1>1, <1>3
  <2> QED
    BY <1>1, <1>3, <2>1 DEF ListStands
<1>4. ASSUME NEW n \in 1 .. Len(u), u[n].call \notin l
      PROVE  /\ Tally(ChargedTo(u[n].call), TraceSet, r) = u[n].credits
             /\ Tally(Showing(u[n]), TraceSet, r) > 0
  <2>1. ChargedTo(u[n].call)[t] = 0
    BY DEF ChargedTo
  <2>2. Showing(u[n])[t] \in {0, 1}
    BY DEF Showing
  <2>3. /\ Tally(ChargedTo(u[n].call), TraceSet, s) = u[n].credits
        /\ Tally(Showing(u[n]), TraceSet, s) > 0
    BY <1>4 DEF ListStands
  <2>4. /\ Tally(ChargedTo(u[n].call), TraceSet, r) = Tally(ChargedTo(u[n].call), TraceSet, s) + 0
        /\ Tally(Showing(u[n]), TraceSet, r) = Tally(Showing(u[n]), TraceSet, s) + Showing(u[n])[t]
        /\ Tally(ChargedTo(u[n].call), TraceSet, s) \in Int
        /\ Tally(Showing(u[n]), TraceSet, s) \in Int
    BY <1>2, <2>1, TraceWeights
  <2> QED
    BY <2>2, <2>3, <2>4
<1>5. ASSUME NEW i \in Calls \ l PROVE Tally(TriedBy(i), TraceSet, r) <= AttemptBudget
  <2>1. /\ Tally(TriedBy(i), TraceSet, r) = Tally(TriedBy(i), TraceSet, s) + TriedBy(i)[t]
        /\ Tally(TriedBy(i), TraceSet, s) \in Int
    BY <1>2, TraceWeights
  <2>2. TriedBy(i)[t] = IF t.call = i THEN Len(t.chain) ELSE 0
    BY DEF TriedBy
  <2>3. Tally(TriedBy(i), TraceSet, s) <= AttemptBudget
    BY DEF ListStands
  <2>4. CASE t.call = i
    BY <2>1, <2>2, <2>4
  <2>5. CASE t.call # i
    BY <2>1, <2>2, <2>3, <2>5
  <2> QED
    BY <2>4, <2>5
<1> QED
  BY <1>3, <1>4, <1>5 DEF ListStands, r

\* Traces that are touched stay what the properties look at.
Touches(s, r) ==
  /\ r \in Seq(TraceSet) /\ Len(r) = Len(s)
  /\ \A k \in 1 .. Len(s) :
       /\ r[k].call = s[k].call /\ r[k].chain = s[k].chain /\ r[k].credits = s[k].credits
       /\ r[k].ts = s[k].ts /\ (Finished(s[k]) => Finished(r[k]))

\* The same attempts stay counted.
LEMMA TouchCounts ==
  ASSUME NEW s \in Seq(TraceSet), NEW r, Touches(s, r)
  PROVE  /\ \A i : Tally(TriedBy(i), TraceSet, r) = Tally(TriedBy(i), TraceSet, s)
         /\ \A i : Tally(ChargedTo(i), TraceSet, r) = Tally(ChargedTo(i), TraceSet, s)
         /\ \A e : Tally(Showing(e), TraceSet, s) <= Tally(Showing(e), TraceSet, r)
<1>1. r \in Seq(TraceSet) /\ Len(r) = Len(s)
  BY DEF Touches
<1>2. \A k \in 1 .. Len(s) : s[k] \in TraceSet /\ r[k] \in TraceSet
  BY <1>1
<1>3. \A i : WeighsSame(TriedBy(i), s, r) /\ WeighsSame(ChargedTo(i), s, r)
  BY <1>2 DEF Touches, WeighsSame, TriedBy, ChargedTo
<1>4. \A e : WeighsMore(Showing(e), s, r)
  <2> TAKE e
  <2>1. ASSUME NEW k \in 1 .. Len(s) PROVE Showing(e)[s[k]] <= Showing(e)[r[k]]
    <3>1. ShowsEntry(s[k], e) => ShowsEntry(r[k], e)
      BY DEF Touches, ShowsEntry
    <3>2. /\ Showing(e)[s[k]] = IF ShowsEntry(s[k], e) THEN 1 ELSE 0
          /\ Showing(e)[r[k]] = IF ShowsEntry(r[k], e) THEN 1 ELSE 0
      BY <1>2 DEF Showing
    <3> QED
      BY <3>1, <3>2
  <2> QED
    BY <1>1, <2>1 DEF WeighsMore
<1> QED
  BY <1>1, <1>3, <1>4, TraceWeights, TallySame, TallyGrows

\* It stands when traces are touched.
LEMMA TouchStands ==
  ASSUME NEW s \in Seq(TraceSet), NEW u \in Seq(ChargeSet), NEW l, NEW r,
         ListStands(s, u, l), Touches(s, r)
  PROVE  ListStands(r, u, l)
<1>1. Len(r) = Len(s) /\ r \in Seq(TraceSet)
  BY DEF Touches
<1>2. ASSUME NEW k \in 1 .. Len(r), r[k].credits > 0
      PROVE  [call |-> r[k].call, at |-> r[k].ts, credits |-> r[k].credits] \in Range(u)
  <2>1. k \in 1 .. Len(s) /\ r[k].call = s[k].call /\ r[k].credits = s[k].credits /\ r[k].ts = s[k].ts
    BY <1>1 DEF Touches
  <2> QED
    BY <1>2, <2>1 DEF ListStands
<1>3. ASSUME NEW n \in 1 .. Len(u), u[n].call \notin l
      PROVE  /\ Tally(ChargedTo(u[n].call), TraceSet, r) = u[n].credits
             /\ Tally(Showing(u[n]), TraceSet, r) > 0
  <2>1. /\ Tally(ChargedTo(u[n].call), TraceSet, s) = u[n].credits
        /\ Tally(Showing(u[n]), TraceSet, s) > 0
    BY <1>3 DEF ListStands
  <2>2. /\ Tally(ChargedTo(u[n].call), TraceSet, r) = Tally(ChargedTo(u[n].call), TraceSet, s)
        /\ Tally(Showing(u[n]), TraceSet, s) <= Tally(Showing(u[n]), TraceSet, r)
    BY TouchCounts
  <2>3. Tally(Showing(u[n]), TraceSet, s) \in Int /\ Tally(Showing(u[n]), TraceSet, r) \in Int
    BY <1>1, TraceWeights, TallyFacts DEF AddsUp
  <2> QED
    BY <2>1, <2>2, <2>3
<1>4. \A i \in Calls \ l : Tally(TriedBy(i), TraceSet, r) <= AttemptBudget
  BY TouchCounts DEF ListStands
<1> QED
  BY <1>2, <1>3, <1>4 DEF ListStands

OthersOf(s, i) == TracesThat(s, LAMBDA t : t.call # i)

\* The traces of all other calls tell of them what all do, and nothing of the call.
LEMMA OthersTell ==
  ASSUME NEW s \in Seq(TraceSet), NEW i
  PROVE  /\ OthersOf(s, i) \in Seq(TraceSet)
         /\ \A k \in 1 .. Len(OthersOf(s, i)) :
              OthersOf(s, i)[k].call # i /\ \E n \in 1 .. Len(s) : s[n] = OthersOf(s, i)[k]
         /\ \A j, w : Concerns(w, j) /\ j # i => Tally(w, TraceSet, OthersOf(s, i)) = Tally(w, TraceSet, s)
         /\ \A w : Concerns(w, i) => Tally(w, TraceSet, OthersOf(s, i)) = 0
<1> DEFINE Q == MadeByOthers(i)  c == Chosen(Q, TraceSet, s)
<1>1. OthersOf(s, i) = c
  BY OthersChosen DEF OthersOf
<1>2. Chooses(Q, TraceSet, s) /\ ChosenMembers(Q, TraceSet, s)
  BY ChosenFacts, ChosenFrom
<1>3. c \in Seq(TraceSet)
  BY <1>2 DEF Chooses
<1>4. ASSUME NEW j, NEW w, Concerns(w, j), j # i
      PROVE  Tally(w, TraceSet, c) = Tally(w, TraceSet, s)
  <2>1. w \in [TraceSet -> Nat] /\ w \in [TraceSet -> Int] /\ \A t \in TraceSet : t.call # j => w[t] = 0
    BY <1>4 DEF Concerns
  <2>2. ASSUME NEW t \in TraceSet PROVE (IF t \in Q THEN w[t] ELSE 0) = w[t]
    BY <1>4, <2>1 DEF MadeByOthers
  <2>3. w = [t \in TraceSet |-> w[t]]
    BY <2>1
  <2>4. Among(w, Q, TraceSet) = w
    <3> HIDE DEF Q
    <3> QED
      BY <2>2, <2>3 DEF Among
  <2>5. Tally(w, TraceSet, c) = Tally(Among(w, Q, TraceSet), TraceSet, s)
    BY <1>2, <2>1 DEF Chooses
  <2> QED
    BY <2>4, <2>5
<1>5. ASSUME NEW k \in 1 .. Len(c) PROVE c[k].call # i /\ \E n \in 1 .. Len(s) : s[n] = c[k]
  <2>1. c[k] \in Q /\ \E n \in 1 .. Len(s) : s[n] = c[k]
    BY <1>2 DEF ChosenMembers
  <2> HIDE DEF c
  <2> QED
    BY <2>1 DEF MadeByOthers
<1>6. ASSUME NEW w, Concerns(w, i) PROVE Tally(w, TraceSet, c) = 0
  <2>1. w \in [TraceSet -> Nat] /\ \A t \in TraceSet : t.call # i => w[t] = 0
    BY <1>6 DEF Concerns
  <2>2. IsCount(w, TraceSet, c)
    BY <1>3, <2>1, TallyCounts
  <2>3. \A k \in 1 .. Len(c) : c[k] \in TraceSet /\ c[k].call # i
    BY <1>3, <1>5
  <2> HIDE DEF c
  <2> QED
    BY <2>1, <2>2, <2>3 DEF IsCount
<1> HIDE DEF c
<1> QED
  BY <1>1, <1>3, <1>4, <1>5, <1>6

\* All chains, one after another, as a fold.
Chaining == [p \in Seq(UpstreamAttempts) \X TraceSet |-> p[1] \o p[2].chain]

ChainsOf(s) == Folded(Chaining, <<>>, s)

\* Such a fold's steps.
LEMMA ChainingFacts ==
  /\ <<>> \in Seq(UpstreamAttempts)
  /\ Chaining \in [Seq(UpstreamAttempts) \X TraceSet -> Seq(UpstreamAttempts)]
  /\ \A a \in Seq(UpstreamAttempts), t \in TraceSet :
       /\ Chaining[<<a, t>>] = a \o t.chain
       /\ Len(a \o t.chain) = Len(a) + Len(t.chain)
<1>1. \A t \in TraceSet : t.chain \in Seq(UpstreamAttempts)
  BY DEF TraceSet
<1>2. ASSUME NEW a \in Seq(UpstreamAttempts), NEW t \in TraceSet
      PROVE  a \o t.chain \in Seq(UpstreamAttempts) /\ Len(a \o t.chain) = Len(a) + Len(t.chain)
  <2>1. t.chain \in Seq(UpstreamAttempts)
    BY <1>1
  <2> QED
    BY <2>1
<1>3. \A p \in Seq(UpstreamAttempts) \X TraceSet : p[1] \o p[2].chain \in Seq(UpstreamAttempts)
  BY <1>2
<1>4. Chaining \in [Seq(UpstreamAttempts) \X TraceSet -> Seq(UpstreamAttempts)]
  BY <1>3 DEF Chaining
<1>5. \A a \in Seq(UpstreamAttempts), t \in TraceSet : Chaining[<<a, t>>] = a \o t.chain
  BY DEF Chaining
<1>6. <<>> \in Seq(UpstreamAttempts)
  OBVIOUS
<1> QED
  BY <1>2, <1>4, <1>5, <1>6

Lengths == [t \in TraceSet |-> Len(t.chain)]

\* All chains have as many attempts as the traces count.
LEMMA ChainsCounted ==
  ASSUME NEW s \in Seq(TraceSet)
  PROVE  ChainsOf(s) \in Seq(UpstreamAttempts) /\ Len(ChainsOf(s)) = Tally(Lengths, TraceSet, s)
<1> DEFINE Good == {r \in Seq(TraceSet) : Len(ChainsOf(r)) = Tally(Lengths, TraceSet, r)}
<1>1. Lengths \in [TraceSet -> Int]
  <2>1. \A t \in TraceSet : Len(t.chain) \in Int
    BY DEF TraceSet
  <2> QED
    BY <2>1 DEF Lengths
<1>2. AddsUp(Lengths, TraceSet)
  BY <1>1, TallyFacts
<1>3. FoldsStep(Chaining, <<>>, Seq(UpstreamAttempts), TraceSet)
  BY ChainingFacts, FoldedFacts
<1>4. /\ \A r \in Seq(TraceSet) : ChainsOf(r) \in Seq(UpstreamAttempts)
      /\ ChainsOf(<<>>) = <<>>
      /\ \A r \in Seq(TraceSet), t \in TraceSet : ChainsOf(Append(r, t)) = Chaining[<<ChainsOf(r), t>>]
  BY <1>3 DEF FoldsStep, ChainsOf
<1>5. <<>> \in Good
  BY <1>2, <1>4 DEF AddsUp
<1>6. ASSUME NEW r \in Good, NEW t \in TraceSet PROVE Append(r, t) \in Good
  <2>1. r \in Seq(TraceSet) /\ Append(r, t) \in Seq(TraceSet) /\ ChainsOf(r) \in Seq(UpstreamAttempts)
    BY <1>4
  <2>2. Len(ChainsOf(Append(r, t))) = Len(ChainsOf(r)) + Len(t.chain)
    <3>1. ChainsOf(Append(r, t)) = Chaining[<<ChainsOf(r), t>>]
      BY <1>4, <2>1
    <3>2. Chaining[<<ChainsOf(r), t>>] = ChainsOf(r) \o t.chain
          /\ Len(ChainsOf(r) \o t.chain) = Len(ChainsOf(r)) + Len(t.chain)
      BY <2>1, ChainingFacts
    <3> QED
      BY <3>1, <3>2
  <2>3. Tally(Lengths, TraceSet, Append(r, t)) = Tally(Lengths, TraceSet, r) + Lengths[t]
    BY <1>2, <2>1 DEF AddsUp
  <2>4. Lengths[t] = Len(t.chain)
    BY DEF Lengths
  <2>5. Len(ChainsOf(r)) = Tally(Lengths, TraceSet, r)
    OBVIOUS
  <2>6. Len(ChainsOf(Append(r, t))) = Tally(Lengths, TraceSet, Append(r, t))
    BY <2>2, <2>3, <2>4, <2>5
  <2> QED
    BY <2>1, <2>6
<1>7. Good \in SUBSET Seq(TraceSet)
  OBVIOUS
<1> HIDE DEF Good
<1>8. Good = Seq(TraceSet)
  BY <1>5, <1>6, <1>7, SequenceInduction DEF GrowsByOne
<1> QED
  BY <1>4, <1>8 DEF Good

ChainPeels(g, s) ==
  g = [t \in SUBSET DOMAIN s |-> IF t = {} THEN <<>> ELSE g[t \ {Max(t)}] \o s[Max(t)].chain]

\* The model's chains are this fold.
LEMMA AllChainsFold ==
  ASSUME NEW s \in Seq(TraceSet)
  PROVE  AllChains(s) = ChainsOf(s)
<1> DEFINE h == CHOOSE g : ChainPeels(g, s)
<1>1. AllChains(s) = h[DOMAIN s]
  BY DEF AllChains, FoldLeft, MapThenFoldSet, ChainPeels
<1>2. DOMAIN s = 1 .. Len(s) /\ Len(s) \in Nat /\ \A i \in 1 .. Len(s) : s[i] \in TraceSet
  OBVIOUS
<1>3. \E g : ChainPeels(g, s)
  <2>1. PICK g \in [SUBSET (1 .. Len(s)) -> Seq(UpstreamAttempts)] : PeelsLast(g, Chaining, <<>>, s)
    BY ChainingFacts, PeelingExists
  <2>2. ASSUME NEW t \in SUBSET (1 .. Len(s))
        PROVE  g[t] = IF t = {} THEN <<>> ELSE g[t \ {Max(t)}] \o s[Max(t)].chain
    <3>1. CASE t = {}
      BY <2>1, <3>1 DEF PeelsLast
    <3>2. CASE t # {}
      <4>1. Max(t) \in 1 .. Len(s)
        BY <1>2, <3>2, LastOfSet
      <4>2. g[t] = Chaining[<<g[t \ {Max(t)}], s[Max(t)]>>]
        BY <2>1, <3>2 DEF PeelsLast
      <4>3. g[t \ {Max(t)}] \in Seq(UpstreamAttempts) /\ s[Max(t)] \in TraceSet
        BY <1>2, <4>1
      <4> QED
        BY <3>2, <4>2, <4>3, ChainingFacts
    <3> QED
      BY <3>1, <3>2
  <2> QED
    BY <1>2, <2>2 DEF ChainPeels
<1>4. ChainPeels(h, s)
  BY <1>3
<1> HIDE DEF h
<1>5. h[{}] = <<>>
  BY <1>2, <1>4 DEF ChainPeels
<1>6. ASSUME NEW t \in SUBSET (1 .. Len(s)), t # {}, h[t \ {Max(t)}] \in Seq(UpstreamAttempts)
      PROVE  h[t] = Chaining[<<h[t \ {Max(t)}], s[Max(t)]>>]
  <2>1. s[Max(t)] \in TraceSet
    BY <1>2, <1>6, LastOfSet
  <2>2. h[t] = h[t \ {Max(t)}] \o s[Max(t)].chain
    BY <1>2, <1>4, <1>6 DEF ChainPeels
  <2> QED
    BY <1>6, <2>1, <2>2, ChainingFacts
<1>7. PeelsWithin(h, Chaining, <<>>, s, Seq(UpstreamAttempts), TraceSet)
  BY <1>5, <1>6 DEF PeelsWithin
<1>8. EndsAs(h, Chaining, <<>>, s)
  BY <1>7, ChainingFacts, PeelingIsFold
<1> QED
  BY <1>1, <1>2, <1>8 DEF EndsAs, ChainsOf

\* A call's chains put together are its attempts.
LEMMA OwnChains ==
  ASSUME NEW s \in Seq(TraceSet), NEW i
  PROVE  /\ AllChains(TracesOf(s, i)) \in Seq(UpstreamAttempts)
         /\ Len(AllChains(TracesOf(s, i))) = Tally(TriedBy(i), TraceSet, s)
<1> DEFINE Q == MadeBy(i)  c == Chosen(Q, TraceSet, s)
<1>1. TracesOf(s, i) = c
  BY OwnChosen
<1>2. Chooses(Q, TraceSet, s)
  BY ChosenFacts
<1>3. Lengths \in [TraceSet -> Int]
  <2>1. \A t \in TraceSet : Len(t.chain) \in Int
    BY DEF TraceSet
  <2> QED
    BY <2>1 DEF Lengths
<1>4. c \in Seq(TraceSet) /\ Tally(Lengths, TraceSet, c) = Tally(Among(Lengths, Q, TraceSet), TraceSet, s)
  BY <1>2, <1>3 DEF Chooses
<1>5. Among(Lengths, Q, TraceSet) = TriedBy(i)
  BY DEF Among, Lengths, MadeBy, TriedBy
<1> HIDE DEF c
<1> QED
  BY <1>1, <1>4, <1>5, AllChainsFold, ChainsCounted

SettledFrom(s, i, e) ==
  Append(OthersOf(s, i), Trace(i, "success", NoTrace, AllChains(TracesOf(s, i)), e.credits, ModelOf[i], e.at))

\* A charge leaves one trace of the call, which has all its attempts.
LEMMA SettledStands ==
  ASSUME NEW s \in Seq(TraceSet), NEW u \in Seq(ChargeSet), NEW l, NEW i \in Calls, NEW e \in ChargeSet,
         e.call = i, ListStands(s, u, l), \A n \in 1 .. Len(u) : u[n].call # i
  PROVE  /\ SettledFrom(s, i, e) \in Seq(TraceSet)
         /\ ListStands(SettledFrom(s, i, e), Append(u, e), l)
         /\ \A j : Tally(TriedBy(j), TraceSet, SettledFrom(s, i, e)) = Tally(TriedBy(j), TraceSet, s)
<1> DEFINE o == OthersOf(s, i)
           chain == AllChains(TracesOf(s, i))
           t == Trace(i, "success", NoTrace, chain, e.credits, ModelOf[i], e.at)
           r == Append(o, t)
           v == Append(u, e)
<1>1. /\ o \in Seq(TraceSet)
      /\ \A k \in 1 .. Len(o) : o[k].call # i /\ \E n \in 1 .. Len(s) : s[n] = o[k]
      /\ \A j, w : Concerns(w, j) /\ j # i => Tally(w, TraceSet, o) = Tally(w, TraceSet, s)
      /\ \A w : Concerns(w, i) => Tally(w, TraceSet, o) = 0
  BY OthersTell, SMTT(20)
<1>2. chain \in Seq(UpstreamAttempts) /\ Len(chain) = Tally(TriedBy(i), TraceSet, s)
  BY OwnChains
<1> HIDE DEF o, chain
<1>3. t \in TraceSet
  <2>1. ModelOf[i] \in Range(ModelOf)
    BY TracesAssumption DEF Range
  <2>2. e.credits \in Nat /\ e.at \in Int
    BY DEF ChargeSet
  <2> QED
    BY <1>2, <2>1, <2>2 DEF TraceSet, Trace, TraceStatuses, TraceClasses
<1>4. /\ t.call = i /\ t.chain = chain /\ t.credits = e.credits /\ t.ts = e.at /\ Finished(t)
  BY DEF Trace, Finished
<1> HIDE DEF t
<1>5. /\ r \in Seq(TraceSet) /\ Len(r) = Len(o) + 1 /\ Len(o) \in Nat /\ r[Len(o) + 1] = t
      /\ \A k \in 1 .. Len(o) : r[k] = o[k]
  BY <1>1, <1>3
<1>6. \A w \in [TraceSet -> Int] :
        Tally(w, TraceSet, r) = Tally(w, TraceSet, o) + w[t] /\ Tally(w, TraceSet, o) \in Int
  BY <1>1, <1>3, TallyFacts DEF AddsUp
<1> HIDE DEF r
<1>7. /\ v \in Seq(ChargeSet) /\ Len(v) = Len(u) + 1 /\ Len(u) \in Nat /\ v[Len(u) + 1] = e
      /\ \A n \in 1 .. Len(u) : v[n] = u[n]
  OBVIOUS
<1> HIDE DEF v
<1>8. Range(v) = Range(u) \cup {e}
  <2>1. DOMAIN v = 1 .. Len(u) + 1 /\ DOMAIN u = 1 .. Len(u)
    BY <1>7
  <2>2. ASSUME NEW x \in Range(v) PROVE x \in Range(u) \cup {e}
    <3>1. PICK n \in 1 .. Len(u) + 1 : x = v[n]
      BY <2>1 DEF Range
    <3> QED
      BY <1>7, <2>1, <3>1 DEF Range
  <2>3. ASSUME NEW x \in Range(u) \cup {e} PROVE x \in Range(v)
    <3>1. CASE x = e
      BY <1>7, <2>1, <3>1 DEF Range
    <3>2. CASE x \in Range(u)
      <4>1. PICK n \in 1 .. Len(u) : x = u[n]
        BY <2>1, <3>2 DEF Range
      <4>2. n \in 1 .. Len(u) + 1
        BY <1>7
      <4> QED
        BY <1>7, <2>1, <4>1, <4>2 DEF Range
    <3> QED
      BY <3>1, <3>2
  <2> QED
    BY <2>2, <2>3
<1>9. ASSUME NEW j PROVE Tally(TriedBy(j), TraceSet, r) = Tally(TriedBy(j), TraceSet, s)
  <2>1. /\ Tally(TriedBy(j), TraceSet, r) = Tally(TriedBy(j), TraceSet, o) + TriedBy(j)[t]
        /\ Tally(TriedBy(j), TraceSet, o) \in Int
    BY <1>6, TraceWeights
  <2>2. TriedBy(j)[t] = IF i = j THEN Len(chain) ELSE 0
    BY <1>3, <1>4 DEF TriedBy
  <2>3. Concerns(TriedBy(j), j)
    BY WeightsConcern
  <2>4. Tally(TriedBy(j), TraceSet, s) \in Int
    BY TraceWeights, TallyFacts DEF AddsUp
  <2>5. CASE j = i
    <3>1. Tally(TriedBy(j), TraceSet, o) = 0
      BY <1>1, <2>3, <2>5
    <3> QED
      BY <1>2, <2>1, <2>2, <2>4, <2>5, <3>1
  <2>6. CASE j # i
    <3>1. Tally(TriedBy(j), TraceSet, o) = Tally(TriedBy(j), TraceSet, s)
      BY <1>1, <2>3, <2>6
    <3> QED
      BY <2>1, <2>2, <2>6, <3>1
  <2> QED
    BY <2>5, <2>6
<1>10. ASSUME NEW k \in 1 .. Len(r), r[k].credits > 0
       PROVE  [call |-> r[k].call, at |-> r[k].ts, credits |-> r[k].credits] \in Range(v)
  <2>1. CASE k = Len(o) + 1
    <3>1. e = [call |-> i, at |-> e.at, credits |-> e.credits]
      BY DEF ChargeSet
    <3> QED
      BY <1>4, <1>5, <1>8, <2>1, <3>1
  <2>2. CASE k # Len(o) + 1
    <3>1. k \in 1 .. Len(o) /\ r[k] = o[k]
      BY <1>5, <2>2
    <3>2. PICK n \in 1 .. Len(s) : s[n] = r[k]
      BY <1>1, <3>1
    <3> QED
      BY <1>8, <1>10, <3>2 DEF ListStands
  <2> QED
    BY <2>1, <2>2
<1>11. ASSUME NEW n \in 1 .. Len(v), v[n].call \notin l
       PROVE  /\ Tally(ChargedTo(v[n].call), TraceSet, r) = v[n].credits
              /\ Tally(Showing(v[n]), TraceSet, r) > 0
  <2> DEFINE x == v[n]
  <2>1. /\ Tally(ChargedTo(x.call), TraceSet, r) = Tally(ChargedTo(x.call), TraceSet, o) + ChargedTo(x.call)[t]
        /\ Tally(Showing(x), TraceSet, r) = Tally(Showing(x), TraceSet, o) + Showing(x)[t]
    BY <1>6, TraceWeights
  <2>2. /\ ChargedTo(x.call)[t] = IF i = x.call THEN e.credits ELSE 0
        /\ Showing(x)[t] = IF ShowsEntry(t, x) THEN 1 ELSE 0
    BY <1>3, <1>4 DEF ChargedTo, Showing
  <2>3. Concerns(ChargedTo(x.call), x.call) /\ Concerns(Showing(x), x.call)
    BY WeightsConcern
  <2>4. CASE n = Len(u) + 1
    <3>1. x = e
      BY <1>7, <2>4
    <3> HIDE DEF x
    <3>2. ShowsEntry(t, x)
      BY <1>4, <3>1 DEF ShowsEntry
    <3>3. Tally(ChargedTo(x.call), TraceSet, o) = 0 /\ Tally(Showing(x), TraceSet, o) = 0
      BY <1>1, <2>3, <3>1
    <3>4. e.credits \in Nat
      BY DEF ChargeSet
    <3>5. Tally(ChargedTo(x.call), TraceSet, r) = x.credits /\ Tally(Showing(x), TraceSet, r) > 0
      BY <2>1, <2>2, <3>1, <3>2, <3>3, <3>4
    <3> QED
      BY <3>5 DEF x
  <2>5. CASE n # Len(u) + 1
    <3>1. n \in 1 .. Len(u) /\ x = u[n]
      BY <1>7, <2>5
    <3> HIDE DEF x
    <3>2. x.call # i
      BY <3>1
    <3>3. /\ Tally(ChargedTo(x.call), TraceSet, o) = Tally(ChargedTo(x.call), TraceSet, s)
          /\ Tally(Showing(x), TraceSet, o) = Tally(Showing(x), TraceSet, s)
      BY <1>1, <2>3, <3>2
    <3>4. /\ Tally(ChargedTo(x.call), TraceSet, s) = x.credits
          /\ Tally(Showing(x), TraceSet, s) > 0
      BY <1>11, <3>1 DEF ListStands, x
    <3>5. ~ShowsEntry(t, x)
      BY <1>4, <3>2 DEF ShowsEntry
    <3>6. Tally(ChargedTo(x.call), TraceSet, o) \in Int /\ Tally(Showing(x), TraceSet, o) \in Int
      BY <1>6, TraceWeights
    <3>7. Tally(ChargedTo(x.call), TraceSet, r) = x.credits /\ Tally(Showing(x), TraceSet, r) > 0
      BY <2>1, <2>2, <3>2, <3>3, <3>4, <3>5, <3>6
    <3> QED
      BY <3>7 DEF x
  <2> QED
    BY <2>4, <2>5
<1>12. \A j \in Calls \ l : Tally(TriedBy(j), TraceSet, r) <= AttemptBudget
  BY <1>9 DEF ListStands
<1>13. ListStands(r, v, l)
  BY <1>10, <1>11, <1>12 DEF ListStands
<1>14. SettledFrom(s, i, e) = r
  BY DEF SettledFrom, r, t, o, chain
<1> QED
  BY <1>5, <1>9, <1>13, <1>14 DEF v

-----------------------------------------------------------------------------
\* The invariant.

FlightOK(f) ==
  \/ f = Idle \/ f = [at |-> "streaming"] \/ f = [at |-> "failed"]
  \/ f \in [at : {"routing"}, left : Nat]
  \/ f \in [at : {"finishing"}, status : TraceStatuses \ {"in_progress"}, class : TraceClasses,
            billed : BOOLEAN]

TracesTyped ==
  /\ traces \in Seq(TraceSet) /\ saved \in Seq(TraceSet) /\ usage \in Seq(ChargeSet)
  /\ owed \in [DOMAIN owed -> ChargeSet] /\ DOMAIN owed \subseteq Calls
  /\ DOMAIN flight = Calls /\ \A i \in Calls : FlightOK(flight[i])
  /\ ended \subseteq Calls /\ lost \subseteq Calls /\ second \in Int
  /\ made \in [Calls -> Nat] /\ unseen \in [Calls -> Int]
  /\ savedOwed = [c \in DOMAIN savedOwed |-> savedOwed[c]] /\ DOMAIN savedOwed \subseteq DOMAIN owed
  /\ \A c \in DOMAIN savedOwed : savedOwed[c] = owed[c]

\* No call is charged again: a call that may yet be charged has no charge, booked or owed.
ChargesDiffer ==
  /\ \A m, n \in 1 .. Len(usage) : usage[m].call = usage[n].call => m = n
  /\ \A c \in DOMAIN owed : owed[c].call = c /\ \A n \in 1 .. Len(usage) : usage[n].call # c
  /\ \A i \in Calls : flight[i].at \in {"routing", "streaming", "failed"} =>
       i \notin DOMAIN owed /\ \A n \in 1 .. Len(usage) : usage[n].call # i

\* The traces count what was made but for what was not seen, and a route under way was given
\* no more than they leave.
AttemptsStand ==
  \A i \in Calls \ lost :
    /\ made[i] = Tally(TriedBy(i), TraceSet, traces) + unseen[i]
    /\ flight[i].at = "routing" =>
         Tally(TriedBy(i), TraceSet, traces) + flight[i].left <= AttemptBudget

TracesInv ==
  /\ TracesTyped /\ ChargesDiffer /\ AttemptsStand
  /\ ListStands(traces, usage, lost) /\ ListStands(saved, usage, lost)

\* A repeat is only counted.
LEMMA RepeatTyped ==
  ASSUME NEW x \in TraceSet, NEW n \in Int
  PROVE  LET y == [x EXCEPT !.repeats = @ + 1, !.lastSeen = n]
         IN  /\ y \in TraceSet /\ y.call = x.call /\ y.chain = x.chain /\ y.credits = x.credits
             /\ y.ts = x.ts /\ y.status = x.status
<1>1. x.repeats + 1 \in Nat
  BY DEF TraceSet
<1> QED
  BY <1>1 DEF TraceSet

\* A new trace is one more, or counted by one it repeats, which has no attempts.
LEMMA RecordedCases ==
  ASSUME traces \in Seq(TraceSet), NEW t \in TraceSet
  PROVE  \/ Touches(traces, Recorded(t)) /\ t.chain = <<>>
         \/ Recorded(t) = Append(traces, t)
<1> DEFINE recent == {n \in DOMAIN traces :
                   \A k \in n..Len(traces) : traces[k].ts + RepeatWindow > t.ts}
           repeated == {n \in recent : IsRepeatedBy(traces[n], t)}
           m == Max(repeated)
           r == [traces EXCEPT ![m].repeats = @ + 1, ![m].lastSeen = t.ts]
<1>1. Recorded(t) = IF repeated # {} THEN r ELSE Append(traces, t)
  BY DEF Recorded
<1>2. CASE repeated = {}
  BY <1>1, <1>2
<1>3. CASE repeated # {}
  <2>1. Len(traces) \in Nat /\ DOMAIN traces = 1 .. Len(traces)
        /\ \A k \in 1 .. Len(traces) : traces[k] \in TraceSet
    OBVIOUS
  <2>2. repeated \in SUBSET (1 .. Len(traces))
    BY <2>1
  <2>3. m \in repeated
    <3> HIDE DEF repeated
    <3> QED
      BY <1>3, <2>1, <2>2, LastOfSet
  <2>4. m \in 1 .. Len(traces) /\ IsRepeatedBy(traces[m], t)
    BY <2>1, <2>3
  <2> HIDE DEF repeated, m
  <2>5. t.chain = <<>>
    BY <2>4 DEF IsRepeatedBy, Unrouted
  <2> DEFINE x == traces[m]
             y == [x EXCEPT !.repeats = @ + 1, !.lastSeen = t.ts]
  <2>6. x \in TraceSet /\ t.ts \in Int
    BY <2>1, <2>4 DEF TraceSet
  <2>7. /\ y \in TraceSet /\ y.call = x.call /\ y.chain = x.chain /\ y.credits = x.credits
        /\ y.ts = x.ts /\ y.status = x.status
    <3> HIDE DEF x
    <3> QED
      BY <2>6, RepeatTyped
  <2>8. /\ y.call = x.call /\ y.chain = x.chain /\ y.credits = x.credits /\ y.ts = x.ts
        /\ y.status = x.status
    BY <2>7
  <2>9. r = [traces EXCEPT ![m] = y]
    BY <2>1, <2>4, Zenon
  <2> HIDE DEF x, y, r
  <2>10. r \in Seq(TraceSet) /\ Len(r) = Len(traces)
    BY <2>4, <2>7, <2>9
  <2>11. \A k \in 1 .. Len(traces) : r[k] = IF k = m THEN y ELSE traces[k]
    BY <2>1, <2>9
  <2>12. Touches(traces, r)
    BY <2>8, <2>10, <2>11 DEF Touches, Finished, x
  <2> QED
    BY <1>1, <1>3, <2>5, <2>12 DEF repeated
<1> QED
  BY <1>2, <1>3

\* Recording a trace that charges nothing keeps what the traces tell.
LEMMA RecordKeeps ==
  ASSUME TracesTyped, ListStands(traces, usage, lost), NEW t \in TraceSet, t.credits = 0,
         t.call \in lost \/ Tally(TriedBy(t.call), TraceSet, traces) + Len(t.chain) <= AttemptBudget,
         RecordTrace(t)
  PROVE  /\ traces' \in Seq(TraceSet) /\ lost' \subseteq Calls /\ lost \subseteq lost'
         /\ ListStands(traces', usage, lost')
         /\ \A i \in Calls \ lost' :
              Tally(TriedBy(i), TraceSet, traces')
                = Tally(TriedBy(i), TraceSet, traces) + (IF t.call = i THEN Len(t.chain) ELSE 0)
<1> DEFINE r == Recorded(t)
<1>1. traces \in Seq(TraceSet) /\ usage \in Seq(ChargeSet) /\ lost \subseteq Calls
  BY DEF TracesTyped
<1>2. traces' = NewestKept(r) /\ lost' = lost \cup Dropped(r, traces')
  BY DEF RecordTrace
<1>3. /\ r \in Seq(TraceSet) /\ ListStands(r, usage, lost)
      /\ \A i : Tally(TriedBy(i), TraceSet, r)
                  = Tally(TriedBy(i), TraceSet, traces) + (IF t.call = i THEN Len(t.chain) ELSE 0)
  <2>1. CASE Touches(traces, r) /\ t.chain = <<>>
    <3>1. r \in Seq(TraceSet) /\ ListStands(r, usage, lost)
      BY <1>1, <2>1, TouchStands DEF Touches
    <3>2. ASSUME NEW i
          PROVE  Tally(TriedBy(i), TraceSet, r)
                  = Tally(TriedBy(i), TraceSet, traces) + (IF t.call = i THEN Len(t.chain) ELSE 0)
      <4>1. Tally(TriedBy(i), TraceSet, r) = Tally(TriedBy(i), TraceSet, traces)
        BY <1>1, <2>1, TouchCounts
      <4>2. Tally(TriedBy(i), TraceSet, traces) \in Int /\ Len(t.chain) = 0
        BY <1>1, <2>1, TraceWeights, TallyFacts DEF AddsUp
      <4> QED
        BY <4>1, <4>2
    <3> QED
      BY <3>1, <3>2
  <2>2. CASE r = Append(traces, t)
    <3>1. r \in Seq(TraceSet)
      BY <1>1, <2>2
    <3>2. ListStands(r, usage, lost)
      BY <1>1, <2>2, AppendStands
    <3>3. ASSUME NEW i
          PROVE  Tally(TriedBy(i), TraceSet, r)
                  = Tally(TriedBy(i), TraceSet, traces) + (IF t.call = i THEN Len(t.chain) ELSE 0)
      <4>0. AddsUp(TriedBy(i), TraceSet)
        BY TraceWeights, TallyFacts
      <4>1. Tally(TriedBy(i), TraceSet, Append(traces, t)) = Tally(TriedBy(i), TraceSet, traces) + TriedBy(i)[t]
        BY <1>1, <4>0 DEF AddsUp
      <4> QED
        BY <2>2, <4>1 DEF TriedBy
    <3> QED
      BY <3>1, <3>2, <3>3
  <2> QED
    BY <1>1, <2>1, <2>2, RecordedCases
<1> HIDE DEF r
<1>4. TellsOf(r, traces', Dropped(r, traces'))
  BY <1>2, <1>3, NewestTells
<1>5. ListStands(traces', usage, lost')
  BY <1>1, <1>2, <1>3, <1>4, CutStands
<1>6. ASSUME NEW i \in Calls \ lost'
      PROVE  Tally(TriedBy(i), TraceSet, traces') = Tally(TriedBy(i), TraceSet, r)
  <2>1. i \in Calls \ Dropped(r, traces')
    BY <1>2
  <2> QED
    BY <1>4, <2>1, WeightsConcern, TraceWeights DEF TellsOf
<1>7. lost' \subseteq Calls /\ lost \subseteq lost'
  BY <1>1, <1>2 DEF Dropped
<1> QED
  BY <1>3, <1>4, <1>5, <1>6, <1>7 DEF TellsOf

\* Booking a charge keeps what the traces tell.
LEMMA BookKeeps ==
  ASSUME TracesTyped, ListStands(traces, usage, lost), NEW i \in Calls, NEW e \in ChargeSet, e.call = i,
         \A n \in 1 .. Len(usage) : usage[n].call # i,
         traces' = NewestKept(Settled(i, e)),
         lost' = lost \cup Dropped(Settled(i, e), traces')
  PROVE  /\ traces' \in Seq(TraceSet) /\ lost' \subseteq Calls /\ lost \subseteq lost'
         /\ ListStands(traces', Append(usage, e), lost')
         /\ \A j \in Calls \ lost' :
              Tally(TriedBy(j), TraceSet, traces') = Tally(TriedBy(j), TraceSet, traces)
<1> DEFINE r == SettledFrom(traces, i, e)  v == Append(usage, e)
<1>1. traces \in Seq(TraceSet) /\ usage \in Seq(ChargeSet) /\ lost \subseteq Calls /\ v \in Seq(ChargeSet)
  BY DEF TracesTyped
<1>2. traces' = NewestKept(r) /\ lost' = lost \cup Dropped(r, traces')
  BY DEF Settled, SettledFrom, OthersOf
<1>3. /\ r \in Seq(TraceSet) /\ ListStands(r, v, lost)
      /\ \A j : Tally(TriedBy(j), TraceSet, r) = Tally(TriedBy(j), TraceSet, traces)
  BY <1>1, SettledStands
<1> HIDE DEF r, v
<1>4. TellsOf(r, traces', Dropped(r, traces'))
  BY <1>2, <1>3, NewestTells
<1>5. ListStands(traces', v, lost')
  BY <1>1, <1>2, <1>3, <1>4, CutStands
<1>6. ASSUME NEW j \in Calls \ lost'
      PROVE  Tally(TriedBy(j), TraceSet, traces') = Tally(TriedBy(j), TraceSet, r)
  <2>1. j \in Calls \ Dropped(r, traces')
    BY <1>2
  <2> QED
    BY <1>4, <2>1, WeightsConcern, TraceWeights DEF TellsOf
<1>7. lost' \subseteq Calls /\ lost \subseteq lost'
  BY <1>1, <1>2 DEF Dropped
<1> QED
  BY <1>3, <1>4, <1>5, <1>6, <1>7 DEF TellsOf, v

\* Nothing has been charged.
LEMMA TracesStart ==
  ASSUME TracesInit
  PROVE  TracesInv
<1>1. traces = <<>> /\ saved = <<>> /\ usage = <<>> /\ lost = {} /\ ended = {}
      /\ DOMAIN owed = {} /\ owed \in [DOMAIN owed -> ChargeSet] /\ second \in Int
      /\ flight = [i \in Calls |-> Idle] /\ made = [i \in Calls |-> 0]
      /\ unseen = made /\ savedOwed = owed /\ owed = [c \in DOMAIN owed |-> owed[c]]
  BY TracesAssumption DEF TracesInit
<1>2. TracesTyped
  BY <1>1 DEF TracesTyped, FlightOK
<1>3. ChargesDiffer
  BY <1>1 DEF ChargesDiffer, Idle
<1>4. ASSUME NEW i PROVE Tally(TriedBy(i), TraceSet, <<>>) = 0
  BY TraceWeights, TallyFacts DEF AddsUp
<1>5. AttemptsStand
  BY <1>1, <1>4 DEF AttemptsStand, Idle
<1>6. ListStands(<<>>, <<>>, {})
  BY <1>4, TracesAssumption DEF ListStands
<1> QED
  BY <1>1, <1>2, <1>3, <1>5, <1>6 DEF TracesInv

\* Refusing a call.
LEMMA RefuseKeeps ==
  ASSUME TracesInv, NEW i \in Calls, NEW r \in Refusals, Refuse(i, r)
  PROVE  TracesInv'
<1> DEFINE t == Trace(i, "error", r.class, <<>>, 0, IF r.named THEN ModelOf[i] ELSE Unknown, second)
<1>1. TracesTyped /\ ListStands(traces, usage, lost) /\ ListStands(saved, usage, lost)
  BY DEF TracesInv
<1>2. /\ RecordTrace(t)
      /\ UNCHANGED <<saved, usage, flight, ended, owed, savedOwed, second, made, unseen>>
  BY DEF Refuse
<1>3. t \in TraceSet /\ t.credits = 0 /\ t.call = i /\ t.chain = <<>>
  <2>1. ModelOf[i] \in Range(ModelOf)
    BY TracesAssumption DEF Range
  <2>2. (IF r.named THEN ModelOf[i] ELSE Unknown) \in Range(ModelOf) \cup {Unknown}
    BY <2>1
  <2>3. r.class \in TraceClasses /\ "error" \in TraceStatuses /\ second \in Int
    BY <1>1 DEF TraceClasses, TraceStatuses, TracesTyped
  <2>4. <<>> \in Seq(UpstreamAttempts)
    OBVIOUS
  <2> QED
    BY <2>2, <2>3, <2>4 DEF TraceSet, Trace
<1> HIDE DEF t
<1>4. i \in lost \/ Tally(TriedBy(i), TraceSet, traces) + 0 <= AttemptBudget
  <2>1. Tally(TriedBy(i), TraceSet, traces) \in Int
    BY <1>1, TraceWeights, TallyFacts DEF AddsUp, TracesTyped
  <2> QED
    BY <1>1, <2>1 DEF ListStands
<1>5. Len(t.chain) = 0
  BY <1>3
<1>6. /\ traces' \in Seq(TraceSet) /\ lost' \subseteq Calls /\ lost \subseteq lost'
      /\ ListStands(traces', usage, lost')
      /\ \A j \in Calls \ lost' :
           Tally(TriedBy(j), TraceSet, traces')
             = Tally(TriedBy(j), TraceSet, traces) + (IF t.call = j THEN Len(t.chain) ELSE 0)
  BY <1>1, <1>2, <1>3, <1>4, <1>5, RecordKeeps
<1>7. ListStands(saved, usage, lost')
  BY <1>1, <1>6, LossStands
<1>8. AttemptsStand'
  <2>1. ASSUME NEW j \in Calls \ lost'
        PROVE  Tally(TriedBy(j), TraceSet, traces') = Tally(TriedBy(j), TraceSet, traces)
               /\ j \in Calls \ lost
    <3>1. Tally(TriedBy(j), TraceSet, traces) \in Int
      BY <1>1, TraceWeights, TallyFacts DEF AddsUp, TracesTyped
    <3>2. Tally(TriedBy(j), TraceSet, traces')
             = Tally(TriedBy(j), TraceSet, traces) + (IF t.call = j THEN Len(t.chain) ELSE 0)
      BY <1>6
    <3> QED
      BY <1>5, <1>6, <3>1, <3>2
  <2>2. AttemptsStand
    BY DEF TracesInv
  <2> QED
    BY <1>2, <2>1, <2>2 DEF AttemptsStand
<1>9. TracesTyped'
  BY <1>1, <1>2, <1>6 DEF TracesTyped
<1>10. ChargesDiffer'
  BY <1>2 DEF TracesInv, ChargesDiffer
<1> QED
  BY <1>2, <1>6, <1>7, <1>8, <1>9, <1>10 DEF TracesInv

\* A route begins.
LEMMA StartRouteKeeps ==
  ASSUME TracesInv, NEW i \in Calls, StartRoute(i)
  PROVE  TracesInv'
<1> DEFINE left == AttemptBudget - InvocationAttempts(traces, i)
           f == [at |-> "routing", left |-> left]
<1>1. TracesTyped /\ AttemptsStand /\ ChargesDiffer
  BY DEF TracesInv
<1>2. /\ ~ChargedBefore(i) /\ left > 0 /\ flight' = [flight EXCEPT ![i] = f]
      /\ UNCHANGED <<traces, saved, usage, ended, owed, savedOwed, second, made, unseen, lost>>
  BY DEF StartRoute
<1>3. /\ InvocationAttempts(traces, i) = Tally(TriedBy(i), TraceSet, traces)
      /\ Tally(TriedBy(i), TraceSet, traces) \in Int
  BY <1>1, AttemptsTally, TraceWeights, TallyFacts DEF AddsUp, TracesTyped
<1>4. left \in Nat /\ Tally(TriedBy(i), TraceSet, traces) + left = AttemptBudget
  BY <1>2, <1>3, TracesAssumption
<1>5. FlightOK(f) /\ f.at = "routing" /\ f.left = left
  BY <1>4 DEF FlightOK
<1> HIDE DEF f, left
<1>6. DOMAIN flight' = Calls /\ flight'[i] = f /\ \A j \in Calls : j # i => flight'[j] = flight[j]
  BY <1>1, <1>2 DEF TracesTyped
<1>7. TracesTyped'
  BY <1>1, <1>2, <1>5, <1>6 DEF TracesTyped
<1>8. AttemptBudget \in Int
  BY TracesAssumption
<1>9. AttemptsStand'
  <2>1. ASSUME NEW j \in Calls \ lost, flight'[j].at = "routing"
        PROVE  Tally(TriedBy(j), TraceSet, traces) + flight'[j].left <= AttemptBudget
    <3>1. CASE j = i
      BY <1>4, <1>5, <1>6, <1>8, <3>1
    <3>2. CASE j # i
      BY <1>1, <1>6, <2>1, <3>2 DEF AttemptsStand
    <3> QED
      BY <3>1, <3>2
  <2> QED
    BY <1>1, <1>2, <2>1 DEF AttemptsStand
<1>10. i \notin DOMAIN owed /\ \A n \in 1 .. Len(usage) : usage[n].call # i
  <2>1. DOMAIN usage = 1 .. Len(usage)
    BY <1>1 DEF TracesTyped
  <2> QED
    BY <1>2, <2>1 DEF ChargedBefore
<1>11. ChargesDiffer'
  BY <1>1, <1>2, <1>6, <1>10 DEF ChargesDiffer
<1> QED
  BY <1>2, <1>7, <1>9, <1>11 DEF TracesInv

\* A route ends.
LEMMA RouteDoneKeeps ==
  ASSUME TracesInv, NEW i \in Calls, NEW chain \in Chains, RouteDone(i, chain)
  PROVE  TracesInv'
<1>1. TracesTyped /\ ListStands(traces, usage, lost) /\ ListStands(saved, usage, lost)
  BY DEF TracesInv
<1>2. /\ flight[i].at = "routing" /\ Len(chain) <= flight[i].left
      /\ made' = [made EXCEPT ![i] = @ + Len(chain)]
      /\ UNCHANGED <<saved, usage, ended, owed, savedOwed, second, unseen, counts>>
  BY DEF RouteDone, At
<1>3. chain \in Seq(UpstreamAttempts)
  <2>1. chain \in Seq(Range(chain)) /\ Range(chain) \subseteq UpstreamAttempts
    BY TracesAssumption DEF UpstreamAttempts
  <2> QED
    BY <2>1
<1>4. PICK t \in TraceSet :
        /\ RecordTrace(t) /\ t.credits = 0 /\ t.call = i /\ t.chain = chain
  <2>1. ModelOf[i] \in Range(ModelOf) \cup {Unknown} /\ second \in Int
    BY <1>1, TracesAssumption DEF Range, TracesTyped
  <2>2. CASE Serves(chain)
    <3>1. RecordTrace(Trace(i, "in_progress", NoTrace, chain, 0, ModelOf[i], second))
      BY <2>2 DEF RouteDone
    <3>2. Trace(i, "in_progress", NoTrace, chain, 0, ModelOf[i], second) \in TraceSet
      BY <1>3, <2>1 DEF TraceSet, Trace, TraceStatuses, TraceClasses
    <3> QED
      BY <3>1, <3>2 DEF Trace
  <2>3. CASE ~Serves(chain)
    <3>1. PICK class \in RouteFailureClass(chain) :
            RecordTrace(Trace(i, "error", class, chain, 0, ModelOf[i], second))
      BY <2>3 DEF RouteDone
    <3>2. class \in TraceClasses /\ "error" \in TraceStatuses
      BY DEF RouteFailureClass, TraceClasses, TraceStatuses
    <3>3. Trace(i, "error", class, chain, 0, ModelOf[i], second) \in TraceSet
      BY <1>3, <2>1, <3>2 DEF TraceSet, Trace
    <3> QED
      BY <3>1, <3>3 DEF Trace
  <2> QED
    BY <2>2, <2>3
<1>5. i \in lost \/ Tally(TriedBy(i), TraceSet, traces) + Len(chain) <= AttemptBudget
  <2>1. CASE i \notin lost
    <3>1. Tally(TriedBy(i), TraceSet, traces) + flight[i].left <= AttemptBudget
      BY <1>2, <2>1 DEF TracesInv, AttemptsStand
    <3>2. Tally(TriedBy(i), TraceSet, traces) \in Int
      BY <1>1, TraceWeights, TallyFacts DEF AddsUp, TracesTyped
    <3>3. flight[i].left \in Nat
      <4>1. PICK f : f = flight[i]
        OBVIOUS
      <4>2. FlightOK(f) /\ f.at = "routing"
        BY <1>1, <1>2, <4>1 DEF TracesTyped
      <4>3. f \in [at : {"routing"}, left : Nat]
        BY <4>2 DEF FlightOK, Idle
      <4> QED
        BY <4>1, <4>3
    <3>4. AttemptBudget \in Int /\ Len(chain) \in Int
      BY <1>3, TracesAssumption
    <3> QED
      BY <1>2, <3>1, <3>2, <3>3, <3>4
  <2> QED
    BY <2>1
<1>6. /\ traces' \in Seq(TraceSet) /\ lost' \subseteq Calls /\ lost \subseteq lost'
      /\ ListStands(traces', usage, lost')
      /\ \A j \in Calls \ lost' :
           Tally(TriedBy(j), TraceSet, traces')
             = Tally(TriedBy(j), TraceSet, traces) + (IF t.call = j THEN Len(t.chain) ELSE 0)
  BY <1>1, <1>4, <1>5, RecordKeeps
<1>7. ListStands(saved, usage, lost')
  BY <1>1, <1>6, LossStands
<1>8. made \in [Calls -> Nat] /\ Len(chain) \in Nat
  BY <1>1, <1>3 DEF TracesTyped
<1>10. /\ flight' = [flight EXCEPT ![i] = flight'[i]] /\ FlightOK(flight'[i]) /\ flight'[i].at # "routing"
       /\ i \notin DOMAIN owed /\ \A n \in 1 .. Len(usage) : usage[n].call # i
  <2>1. DOMAIN flight = Calls
    BY <1>1 DEF TracesTyped
  <2>2. \/ flight' = [flight EXCEPT ![i] = [at |-> "streaming"]]
        \/ flight' = [flight EXCEPT ![i] = [at |-> IF chain = <<>> THEN "idle" ELSE "failed"]]
    BY DEF RouteDone
  <2>3. \E f : FlightOK(f) /\ f.at # "routing" /\ flight' = [flight EXCEPT ![i] = f]
    <3>1. /\ FlightOK([at |-> "streaming"]) /\ [at |-> "streaming"].at # "routing"
          /\ FlightOK([at |-> IF chain = <<>> THEN "idle" ELSE "failed"])
          /\ [at |-> IF chain = <<>> THEN "idle" ELSE "failed"].at # "routing"
      BY DEF FlightOK, Idle
    <3> QED
      BY <2>2, <3>1
  <2>4. i \notin DOMAIN owed /\ \A n \in 1 .. Len(usage) : usage[n].call # i
    BY <1>2 DEF TracesInv, ChargesDiffer
  <2> QED
    BY <2>1, <2>3, <2>4
<1>11. made' \in [Calls -> Nat]
  BY <1>2, <1>8
<1>12. TracesTyped'
  <2>1. DOMAIN flight = Calls /\ \A j \in Calls : FlightOK(flight[j])
    BY <1>1 DEF TracesTyped
  <2>2. DOMAIN flight' = Calls
    BY <1>10, <2>1
  <2>3. \A j \in Calls : FlightOK(flight'[j])
    <3>1. \A j \in Calls : j # i => flight'[j] = flight[j]
      BY <1>10, <2>1
    <3> QED
      BY <1>10, <2>1, <3>1
  <2> QED
    BY <1>1, <1>2, <1>6, <1>11, <2>2, <2>3 DEF TracesTyped
<1>13. ChargesDiffer'
  <2>1. DOMAIN flight = Calls
    BY <1>1 DEF TracesTyped
  <2>2. \A j \in Calls : j # i => flight'[j] = flight[j]
    BY <1>10, <2>1
  <2> QED
    BY <1>2, <1>10, <2>2 DEF TracesInv, ChargesDiffer
<1>14. AttemptsStand'
  <2>1. ASSUME NEW j \in Calls \ lost'
        PROVE  /\ made'[j] = Tally(TriedBy(j), TraceSet, traces') + unseen[j]
               /\ flight'[j].at = "routing" =>
                    Tally(TriedBy(j), TraceSet, traces') + flight'[j].left <= AttemptBudget
    <3>1. /\ made[j] = Tally(TriedBy(j), TraceSet, traces) + unseen[j]
          /\ flight[j].at = "routing" =>
               Tally(TriedBy(j), TraceSet, traces) + flight[j].left <= AttemptBudget
          /\ made[j] \in Nat /\ unseen[j] \in Int
      BY <1>6 DEF TracesInv, TracesTyped, AttemptsStand
    <3>2. made'[j] = made[j] + (IF i = j THEN Len(chain) ELSE 0)
      BY <1>2, <1>8
    <3>3. Tally(TriedBy(j), TraceSet, traces')
             = Tally(TriedBy(j), TraceSet, traces) + (IF t.call = j THEN Len(t.chain) ELSE 0)
      BY <1>6
    <3>4. Tally(TriedBy(j), TraceSet, traces) \in Int
      BY <1>1, TraceWeights, TallyFacts DEF AddsUp, TracesTyped
    <3>5. made'[j] = Tally(TriedBy(j), TraceSet, traces') + unseen[j]
      BY <1>4, <1>8, <3>1, <3>2, <3>3, <3>4
    <3>6. ASSUME flight'[j].at = "routing"
          PROVE  Tally(TriedBy(j), TraceSet, traces') + flight'[j].left <= AttemptBudget
      <4>1. j # i /\ flight'[j] = flight[j]
        BY <1>1, <1>10, <3>6 DEF TracesTyped
      <4>2. Tally(TriedBy(j), TraceSet, traces') = Tally(TriedBy(j), TraceSet, traces)
        BY <1>4, <3>3, <3>4, <4>1
      <4> QED
        BY <3>1, <3>6, <4>1, <4>2
    <3> QED
      BY <3>5, <3>6
  <2> QED
    BY <1>2, <2>1 DEF AttemptsStand
<1> QED
  BY <1>2, <1>6, <1>7, <1>12, <1>13, <1>14 DEF TracesInv

\* The charge of a call is booked and traced, however it came to be so.
LEMMA ChargeKeeps ==
  ASSUME TracesInv, NEW i \in Calls, NEW e \in ChargeSet, e.call = i,
         \A n \in 1 .. Len(usage) : usage[n].call # i,
         usage' = Append(usage, e),
         traces' = NewestKept(Settled(i, e)), saved' = traces',
         lost' = lost \cup Dropped(Settled(i, e), traces'), made' = made, unseen' = unseen,
         \A j \in Calls : flight'[j].at = "routing" => flight'[j] = flight[j]
  PROVE  /\ traces' \in Seq(TraceSet) /\ saved' \in Seq(TraceSet) /\ usage' \in Seq(ChargeSet)
         /\ lost' \subseteq Calls /\ AttemptsStand'
         /\ ListStands(traces', usage', lost') /\ ListStands(saved', usage', lost')
         /\ \A n \in 1 .. Len(usage') : usage'[n].call = i \/ \E m \in 1 .. Len(usage) : usage'[n] = usage[m]
         /\ \A m, n \in 1 .. Len(usage') : usage'[m].call = usage'[n].call => m = n
<1>1. TracesTyped /\ ListStands(traces, usage, lost) /\ usage \in Seq(ChargeSet)
  BY DEF TracesInv, TracesTyped
<1>2. /\ traces' \in Seq(TraceSet) /\ lost' \subseteq Calls /\ lost \subseteq lost'
      /\ ListStands(traces', Append(usage, e), lost')
      /\ \A j \in Calls \ lost' :
           Tally(TriedBy(j), TraceSet, traces') = Tally(TriedBy(j), TraceSet, traces)
  BY <1>1, BookKeeps
<1>3. AttemptsStand'
  BY <1>2 DEF AttemptsStand, TracesInv
<1>4. /\ usage' \in Seq(ChargeSet) /\ Len(usage') = Len(usage) + 1 /\ Len(usage) \in Nat
      /\ usage'[Len(usage) + 1] = e /\ \A n \in 1 .. Len(usage) : usage'[n] = usage[n]
  BY <1>1
<1>5. ASSUME NEW n \in 1 .. Len(usage') PROVE n \in 1 .. Len(usage) \/ n = Len(usage) + 1
  BY <1>4
<1>6. \A n \in 1 .. Len(usage') : usage'[n].call = i \/ \E m \in 1 .. Len(usage) : usage'[n] = usage[m]
  BY <1>4, <1>5
<1>7. ASSUME NEW m \in 1 .. Len(usage'), NEW n \in 1 .. Len(usage'), usage'[m].call = usage'[n].call
      PROVE  m = n
  <2>1. \A k \in 1 .. Len(usage) : usage'[k].call # i
    BY <1>4
  <2>2. usage'[Len(usage) + 1].call = i
    BY <1>4
  <2>3. CASE m \in 1 .. Len(usage) /\ n \in 1 .. Len(usage)
    BY <1>4, <1>7, <2>3 DEF TracesInv, ChargesDiffer
  <2>4. CASE m = Len(usage) + 1
    BY <1>5, <1>7, <2>1, <2>2, <2>4
  <2>5. CASE n = Len(usage) + 1
    BY <1>5, <1>7, <2>1, <2>2, <2>5
  <2> QED
    BY <1>5, <2>3, <2>4, <2>5
<1> QED
  BY <1>2, <1>3, <1>4, <1>6, <1>7

\* Booking what a call is charged, or owing it.
LEMMA BookStep ==
  ASSUME TracesInv, NEW i \in Calls, flight[i].at \in {"routing", "streaming", "failed"},
         NEW credits \in Prices, NEW status \in TraceStatuses \ {"in_progress"}, NEW class \in TraceClasses,
         Book(i, credits, status, class), UNCHANGED <<ended, second, made, unseen, counts>>
  PROVE  TracesInv'
<1> DEFINE e == [call |-> i, at |-> second, credits |-> credits]
<1>1. TracesTyped
  BY DEF TracesInv
<1>2. e \in ChargeSet /\ e.call = i
  BY <1>1, TracesAssumption DEF ChargeSet, TracesTyped
<1>3. i \notin DOMAIN owed /\ \A n \in 1 .. Len(usage) : usage[n].call # i
  BY DEF TracesInv, ChargesDiffer
<1> ChargesDiffer
  BY DEF TracesInv
<1>4. FlightOK(Finishing(status, class, TRUE)) /\ FlightOK(Finishing("error", "settlement_failed", TRUE))
      /\ \A s, c, b : Finishing(s, c, b).at \notin {"routing", "streaming", "failed"}
  BY DEF FlightOK, Finishing, TraceStatuses, TraceClasses
<1>5. DOMAIN flight = Calls /\ \A j \in Calls : FlightOK(flight[j])
  BY <1>1 DEF TracesTyped
<1>6. CASE /\ usage' = Append(usage, e)
           /\ traces' = NewestKept(Settled(i, e)) /\ saved' = traces'
           /\ lost' = lost \cup Dropped(Settled(i, e), traces')
           /\ flight' = [flight EXCEPT ![i] = Finishing(status, class, TRUE)]
           /\ UNCHANGED owed /\ savedOwed' = owed
  <2> HIDE DEF e
  <2>0. \A j \in Calls : flight'[j].at = "routing" => flight'[j] = flight[j]
    BY <1>4, <1>5, <1>6
  <2>1. /\ traces' \in Seq(TraceSet) /\ saved' \in Seq(TraceSet) /\ usage' \in Seq(ChargeSet)
        /\ lost' \subseteq Calls /\ AttemptsStand'
        /\ ListStands(traces', usage', lost') /\ ListStands(saved', usage', lost')
        /\ \A n \in 1 .. Len(usage') : usage'[n].call = i \/ \E m \in 1 .. Len(usage) : usage'[n] = usage[m]
        /\ \A m, n \in 1 .. Len(usage') : usage'[m].call = usage'[n].call => m = n
    BY <1>2, <1>3, <1>6, <2>0, ChargeKeeps
  <2>2. TracesTyped'
    BY <1>1, <1>4, <1>5, <1>6, <2>1 DEF TracesTyped
  <2>3. ChargesDiffer'
    <3>1. \A j \in Calls : j # i => flight'[j] = flight[j]
      BY <1>5, <1>6
    <3>2. flight'[i].at \notin {"routing", "streaming", "failed"}
      BY <1>4, <1>5, <1>6
    <3>3. \A c \in DOMAIN owed : owed[c].call = c /\ \A n \in 1 .. Len(usage') : usage'[n].call # c
      <4> TAKE c \in DOMAIN owed
      <4>1. c # i /\ owed[c].call = c /\ \A n \in 1 .. Len(usage) : usage[n].call # c
        BY <1>3 DEF ChargesDiffer
      <4> QED
        BY <2>1, <4>1
    <3>4. \A j \in Calls : flight'[j].at \in {"routing", "streaming", "failed"} =>
            j \notin DOMAIN owed /\ \A n \in 1 .. Len(usage') : usage'[n].call # j
      <4> SUFFICES ASSUME NEW j \in Calls, flight'[j].at \in {"routing", "streaming", "failed"}
                   PROVE  j \notin DOMAIN owed /\ \A n \in 1 .. Len(usage') : usage'[n].call # j
        OBVIOUS
      <4>1. j # i /\ flight[j].at \in {"routing", "streaming", "failed"}
        BY <3>1, <3>2
      <4>2. j \notin DOMAIN owed /\ \A n \in 1 .. Len(usage) : usage[n].call # j
        BY <4>1 DEF ChargesDiffer
      <4> QED
        BY <2>1, <4>1, <4>2
    <3> QED
      BY <1>6, <2>1, <3>3, <3>4 DEF ChargesDiffer
  <2> QED
    BY <2>1, <2>2, <2>3 DEF TracesInv
<1>7. CASE /\ owed' = [c \in DOMAIN owed \cup {i} |-> IF c = i THEN e ELSE owed[c]]
           /\ flight' = [flight EXCEPT ![i] = Finishing("error", "settlement_failed", TRUE)]
           /\ UNCHANGED <<usage, traces, saved, savedOwed, lost>>
  <2> HIDE DEF e
  <2>1. /\ DOMAIN owed' = DOMAIN owed \cup {i} /\ owed' \in [DOMAIN owed' -> ChargeSet]
        /\ owed'[i] = e /\ \A c \in DOMAIN owed : c # i => owed'[c] = owed[c]
    BY <1>1, <1>2, <1>7 DEF TracesTyped
  <2>2. TracesTyped'
    <3>1. DOMAIN flight' = Calls
      BY <1>5, <1>7
    <3>2. \A j \in Calls : FlightOK(flight'[j])
      BY <1>4, <1>5, <1>7
    <3>3. DOMAIN savedOwed \subseteq DOMAIN owed' /\ \A c \in DOMAIN savedOwed : savedOwed[c] = owed'[c]
      BY <1>1, <1>3, <2>1 DEF TracesTyped
    <3>4. owed' \in [DOMAIN owed' -> ChargeSet] /\ DOMAIN owed' \subseteq Calls
      BY <1>1, <2>1 DEF TracesTyped
    <3>5. traces' \in Seq(TraceSet) /\ saved' \in Seq(TraceSet) /\ usage' \in Seq(ChargeSet)
      BY <1>1, <1>7 DEF TracesTyped
    <3>6. ended' \subseteq Calls /\ lost' \subseteq Calls /\ second' \in Int
      BY <1>1, <1>7 DEF TracesTyped
    <3>7. made' \in [Calls -> Nat] /\ unseen' \in [Calls -> Int]
      BY <1>1 DEF TracesTyped
    <3>8. savedOwed' = [c \in DOMAIN savedOwed' |-> savedOwed'[c]]
      BY <1>1, <1>7 DEF TracesTyped
    <3>9. DOMAIN savedOwed' \subseteq DOMAIN owed' /\ \A c \in DOMAIN savedOwed' : savedOwed'[c] = owed'[c]
      BY <1>7, <3>3
    <3> QED
      BY <3>1, <3>2, <3>4, <3>5, <3>6, <3>7, <3>8, <3>9, Zenon DEF TracesTyped
  <2>3. ChargesDiffer'
    <3>1. \A j \in Calls : j # i => flight'[j] = flight[j]
      BY <1>5, <1>7
    <3>2. flight'[i].at \notin {"routing", "streaming", "failed"}
      BY <1>4, <1>5, <1>7
    <3>3. \A c \in DOMAIN owed' : owed'[c].call = c /\ \A n \in 1 .. Len(usage) : usage[n].call # c
      BY <1>2, <1>3, <2>1 DEF ChargesDiffer
    <3>4. \A j \in Calls : flight'[j].at \in {"routing", "streaming", "failed"} =>
            j \notin DOMAIN owed' /\ \A n \in 1 .. Len(usage) : usage[n].call # j
      BY <2>1, <3>1, <3>2 DEF ChargesDiffer
    <3> QED
      BY <1>7, <3>3, <3>4 DEF ChargesDiffer
  <2> QED
    <3>1. \A j \in Calls : flight'[j].at = "routing" => flight'[j] = flight[j]
      BY <1>4, <1>5, <1>7
    <3>2. AttemptsStand'
      BY <1>7, <3>1 DEF TracesInv, AttemptsStand
    <3> QED
      BY <1>7, <2>2, <2>3, <3>2 DEF TracesInv
<1> QED
  BY <1>6, <1>7 DEF Book

\* What changes nothing but how far the call has come.
LEMMA CallMovesOn ==
  ASSUME TracesInv, NEW i \in Calls, NEW f, FlightOK(f), f.at \notin {"routing", "streaming", "failed"},
         flight' = [flight EXCEPT ![i] = f],
         UNCHANGED <<traces, saved, usage, ended, owed, savedOwed, second, lost>>,
         made' \in [Calls -> Nat], unseen' \in [Calls -> Int],
         \A j \in Calls : made'[j] - unseen'[j] = made[j] - unseen[j]
  PROVE  TracesInv'
<1>1. DOMAIN flight = Calls /\ \A j \in Calls : FlightOK(flight[j])
  BY DEF TracesInv, TracesTyped
<1>2. DOMAIN flight' = Calls /\ flight'[i] = f /\ \A j \in Calls : j # i => flight'[j] = flight[j]
  BY <1>1
<1>3. TracesTyped'
  BY <1>1, <1>2 DEF TracesInv, TracesTyped
<1>4. ChargesDiffer'
  BY <1>2 DEF TracesInv, ChargesDiffer
<1>5. AttemptsStand'
  <2>1. ASSUME NEW j \in Calls \ lost
        PROVE  /\ made'[j] = Tally(TriedBy(j), TraceSet, traces) + unseen'[j]
               /\ flight'[j].at = "routing" => flight'[j] = flight[j]
    <3>1. made[j] = Tally(TriedBy(j), TraceSet, traces) + unseen[j]
          /\ made[j] \in Nat /\ unseen[j] \in Int /\ made'[j] \in Nat /\ unseen'[j] \in Int
      BY DEF TracesInv, TracesTyped, AttemptsStand
    <3>2. Tally(TriedBy(j), TraceSet, traces) \in Int
      BY TraceWeights, TallyFacts DEF AddsUp, TracesInv, TracesTyped
    <3> QED
      BY <1>2, <3>1, <3>2
  <2>2. AttemptsStand
    BY DEF TracesInv
  <2> QED
    BY <2>1, <2>2 DEF AttemptsStand
<1> QED
  BY <1>3, <1>4, <1>5 DEF TracesInv

\* What a call has made and what was not seen of it stay as they are.
LEMMA NothingMade ==
  ASSUME TracesInv, UNCHANGED <<made, unseen>>
  PROVE  /\ made' \in [Calls -> Nat] /\ unseen' \in [Calls -> Int]
         /\ \A j \in Calls : made'[j] - unseen'[j] = made[j] - unseen[j]
BY DEF TracesInv, TracesTyped

\* Kiro leaves a route under way.
LEMMA KiroLeavesKeeps ==
  ASSUME TracesInv, NEW i \in Calls, NEW tried \in 0 .. AttemptBudget, KiroLeaves(i, tried)
  PROVE  TracesInv'
<1>1. /\ made' = [made EXCEPT ![i] = @ + tried] /\ unseen' = [unseen EXCEPT ![i] = @ + tried]
      /\ UNCHANGED <<traces, saved, usage, ended, owed, savedOwed, second, lost>>
  BY DEF KiroLeaves
<1>2. tried \in Nat
  OBVIOUS
<1>3. made \in [Calls -> Nat] /\ unseen \in [Calls -> Int]
  BY DEF TracesInv, TracesTyped
<1>4. /\ made' \in [Calls -> Nat] /\ unseen' \in [Calls -> Int]
      /\ \A j \in Calls : made'[j] - unseen'[j] = made[j] - unseen[j]
  BY <1>1, <1>2, <1>3
<1>5. PICK f \in {Idle, Finishing("aborted", "stream_incomplete", FALSE)} :
        flight' = [flight EXCEPT ![i] = f]
  BY DEF KiroLeaves
<1>6. FlightOK(f) /\ f.at \notin {"routing", "streaming", "failed"}
  <2>1. FlightOK(Idle) /\ Idle.at \notin {"routing", "streaming", "failed"}
    BY DEF FlightOK, Idle
  <2>2. /\ FlightOK(Finishing("aborted", "stream_incomplete", FALSE))
        /\ Finishing("aborted", "stream_incomplete", FALSE).at \notin {"routing", "streaming", "failed"}
    BY DEF FlightOK, Finishing, TraceStatuses, TraceClasses
  <2> QED
    BY <1>5, <2>1, <2>2, Zenon
<1> QED
  BY <1>1, <1>4, <1>5, <1>6, CallMovesOn

\* A stream ends.
LEMMA StreamEndsKeeps ==
  ASSUME TracesInv, NEW i \in Calls, StreamEnds(i)
  PROVE  TracesInv'
<1>1. PICK end \in Ends : \/ \E credits \in Prices : Book(i, credits, end[1], end[2])
                          \/ end[1] # "success" /\ NotBilled(i, end[1], end[2])
  BY DEF StreamEnds
<1>2. flight[i].at = "streaming" /\ UNCHANGED <<ended, second, made, unseen, counts>>
  BY DEF StreamEnds, At
<1>3. end[1] \in TraceStatuses \ {"in_progress"} /\ end[2] \in TraceClasses
  BY DEF Ends, TraceStatuses, TraceClasses
<1>4. CASE \E credits \in Prices : Book(i, credits, end[1], end[2])
  BY <1>2, <1>3, <1>4, BookStep
<1>5. CASE NotBilled(i, end[1], end[2])
  <2> DEFINE f == Finishing(end[1], end[2], FALSE)
  <2>1. FlightOK(f) /\ f.at \notin {"routing", "streaming", "failed"}
    BY <1>3 DEF FlightOK, Finishing
  <2>2. flight' = [flight EXCEPT ![i] = f] /\ UNCHANGED <<usage, traces, saved, lost, owed, savedOwed>>
    BY <1>5 DEF NotBilled
  <2> HIDE DEF f
  <2> QED
    BY <1>2, <2>1, <2>2, CallMovesOn, NothingMade
<1> QED
  BY <1>1, <1>4, <1>5

\* A route that no provider served ends.
LEMMA RouteEndsKeeps ==
  ASSUME TracesInv, NEW i \in Calls, RouteEnds(i)
  PROVE  TracesInv'
<1>1. flight[i].at = "failed" /\ UNCHANGED <<ended, second, made, unseen, counts>>
  BY DEF RouteEnds, At
<1>2. "error" \in TraceStatuses \ {"in_progress"} /\ "empty_completion" \in TraceClasses
  BY DEF TraceStatuses, TraceClasses
<1>3. CASE \E credits \in Prices : Book(i, credits, "error", "empty_completion")
  BY <1>1, <1>2, <1>3, BookStep
<1>4. CASE flight' = [flight EXCEPT ![i] = Idle] /\ UNCHANGED <<usage, traces, saved, lost, owed, savedOwed>>
  <2>1. FlightOK(Idle) /\ Idle.at \notin {"routing", "streaming", "failed"}
    BY DEF FlightOK, Idle
  <2> QED
    BY <1>1, <1>4, <2>1, CallMovesOn, NothingMade
<1>5. CASE \E status \in {"error", "aborted"} : NotBilled(i, status, "stream_incomplete")
  <2>1. PICK status \in {"error", "aborted"} : NotBilled(i, status, "stream_incomplete")
    BY <1>5
  <2> DEFINE f == Finishing(status, "stream_incomplete", FALSE)
  <2>2. FlightOK(f) /\ f.at \notin {"routing", "streaming", "failed"}
    BY DEF FlightOK, Finishing, TraceStatuses, TraceClasses
  <2>3. flight' = [flight EXCEPT ![i] = f] /\ UNCHANGED <<usage, traces, saved, lost, owed, savedOwed>>
    BY <2>1 DEF NotBilled
  <2> HIDE DEF f
  <2> QED
    BY <1>1, <2>2, <2>3, CallMovesOn, NothingMade
<1> QED
  BY <1>3, <1>4, <1>5 DEF RouteEnds

\* y is the trace x, of the outcome s.
IsEnded(x, y, s) ==
  /\ y \in TraceSet /\ y.call = x.call /\ y.chain = x.chain /\ y.credits = x.credits
  /\ y.ts = x.ts /\ y.status = s

\* A trace's outcome is noted.
LEMMA StatusTyped ==
  ASSUME NEW x \in TraceSet, NEW s \in TraceStatuses, NEW c \in TraceClasses
  PROVE  IsEnded(x, [x EXCEPT !.status = s, !.class = c], s)
BY DEF TraceSet, IsEnded

\* The guard of a call goes, and its outcome is noted.
LEMMA FinishKeeps ==
  ASSUME TracesInv, NEW i \in Calls, Finish(i)
  PROVE  TracesInv'
<1> DEFINE st == flight[i].status  cl == flight[i].class
           r == [n \in DOMAIN traces |->
                   IF n \in LatestOf(i) THEN [traces[n] EXCEPT !.status = st, !.class = cl]
                   ELSE traces[n]]
<1>1. /\ traces \in Seq(TraceSet) /\ saved \in Seq(TraceSet) /\ usage \in Seq(ChargeSet)
      /\ DOMAIN flight = Calls /\ \A j \in Calls : FlightOK(flight[j])
  BY DEF TracesInv, TracesTyped
<1>2. flight[i].at = "finishing"
  BY DEF Finish, At
<1>3. st \in TraceStatuses /\ st # "in_progress" /\ cl \in TraceClasses
  BY <1>1, <1>2 DEF FlightOK, Idle
<1>4. /\ traces' = r /\ flight' = [flight EXCEPT ![i] = Idle]
      /\ ended' \in {ended, ended \cup {i}}
      /\ UNCHANGED <<saved, usage, owed, savedOwed, second, made, unseen, lost, counts>>
  BY DEF Finish, FinishTrace
<1> HIDE DEF st, cl
<1>5. Touches(traces, r)
  <2>1. DOMAIN traces = 1 .. Len(traces) /\ Len(traces) \in Nat
        /\ \A k \in 1 .. Len(traces) : traces[k] \in TraceSet
    BY <1>1
  <2>2. ASSUME NEW k \in 1 .. Len(traces)
        PROVE  /\ r[k] \in TraceSet /\ r[k].call = traces[k].call /\ r[k].chain = traces[k].chain
               /\ r[k].credits = traces[k].credits /\ r[k].ts = traces[k].ts
               /\ (Finished(traces[k]) => Finished(r[k]))
    <3>1. r[k] = IF k \in LatestOf(i) THEN [traces[k] EXCEPT !.status = st, !.class = cl] ELSE traces[k]
      BY <2>1
    <3>2. CASE k \in LatestOf(i)
      <4> DEFINE x == traces[k]
      <4>1. x \in TraceSet
        BY <2>1
      <4>2. r[k] = [x EXCEPT !.status = st, !.class = cl]
        BY <3>1, <3>2
      <4> HIDE DEF x, r
      <4>3. IsEnded(x, [x EXCEPT !.status = st, !.class = cl], st)
        BY <1>3, <4>1, StatusTyped
      <4>4. IsEnded(x, r[k], st)
        BY <4>2, <4>3
      <4> QED
        BY <1>3, <4>4 DEF IsEnded, Finished, x
    <3>3. CASE k \notin LatestOf(i)
      BY <2>1, <3>1, <3>3
    <3> QED
      BY <3>2, <3>3
  <2>3. DOMAIN r = 1 .. Len(traces)
    BY <2>1
  <2>4. r = [k \in 1 .. Len(traces) |-> r[k]]
    BY <2>3
  <2> HIDE DEF r
  <2>5. r \in [1 .. Len(traces) -> TraceSet]
    BY <2>2, <2>4
  <2>6. r \in Seq(TraceSet) /\ Len(r) = Len(traces)
    BY <2>1, <2>3, <2>5
  <2> QED
    BY <2>2, <2>6 DEF Touches
<1> HIDE DEF r
<1>6. traces' \in Seq(TraceSet) /\ ListStands(traces', usage, lost)
  BY <1>1, <1>4, <1>5, TouchStands DEF TracesInv, Touches
<1>7. \A j : Tally(TriedBy(j), TraceSet, traces') = Tally(TriedBy(j), TraceSet, traces)
  BY <1>1, <1>4, <1>5, TouchCounts
<1>8. DOMAIN flight' = Calls /\ flight'[i] = Idle /\ \A j \in Calls : j # i => flight'[j] = flight[j]
  BY <1>1, <1>4
<1>9. TracesTyped'
  <2>1. \A j \in Calls : FlightOK(flight'[j])
    BY <1>1, <1>8 DEF FlightOK
  <2>2. ended' \subseteq Calls
    BY <1>4 DEF TracesInv, TracesTyped
  <2> QED
    BY <1>4, <1>6, <1>8, <2>1, <2>2 DEF TracesInv, TracesTyped
<1>10. ChargesDiffer'
  BY <1>4, <1>8 DEF TracesInv, ChargesDiffer, Idle
<1>11. AttemptsStand'
  BY <1>4, <1>7, <1>8 DEF TracesInv, AttemptsStand, Idle
<1> QED
  BY <1>4, <1>6, <1>9, <1>10, <1>11 DEF TracesInv

\* What was owed is booked.
LEMMA RecoverKeeps ==
  ASSUME TracesInv, NEW i \in Calls, Recover(i)
  PROVE  TracesInv'
<1> DEFINE e == owed[i]
<1>1. TracesTyped
  BY DEF TracesInv
<1>2. /\ i \in DOMAIN owed /\ usage' = Append(usage, e)
      /\ traces' = NewestKept(Settled(i, e)) /\ saved' = traces'
      /\ lost' = lost \cup Dropped(Settled(i, e), traces')
      /\ owed' = [c \in DOMAIN owed \ {i} |-> owed[c]] /\ savedOwed' = owed'
      /\ UNCHANGED <<flight, ended, second, made, unseen, counts>>
  BY DEF Recover
<1>3. e \in ChargeSet /\ e.call = i /\ \A n \in 1 .. Len(usage) : usage[n].call # i
  BY <1>1, <1>2 DEF TracesInv, TracesTyped, ChargesDiffer
<1>4. \A j \in Calls : flight[j].at \in {"routing", "streaming", "failed"} => j # i
  BY <1>2 DEF TracesInv, ChargesDiffer
<1> HIDE DEF e
<1>5. /\ traces' \in Seq(TraceSet) /\ saved' \in Seq(TraceSet) /\ usage' \in Seq(ChargeSet)
      /\ lost' \subseteq Calls /\ AttemptsStand'
      /\ ListStands(traces', usage', lost') /\ ListStands(saved', usage', lost')
      /\ \A n \in 1 .. Len(usage') : usage'[n].call = i \/ \E m \in 1 .. Len(usage) : usage'[n] = usage[m]
      /\ \A m, n \in 1 .. Len(usage') : usage'[m].call = usage'[n].call => m = n
  BY <1>2, <1>3, ChargeKeeps
<1>6. /\ DOMAIN owed' = DOMAIN owed \ {i} /\ owed' \in [DOMAIN owed' -> ChargeSet]
      /\ \A c \in DOMAIN owed' : owed'[c] = owed[c]
      /\ savedOwed' = [c \in DOMAIN savedOwed' |-> savedOwed'[c]]
  BY <1>1, <1>2 DEF TracesTyped
<1>7. TracesTyped'
  BY <1>1, <1>2, <1>5, <1>6 DEF TracesTyped
<1>8. ChargesDiffer'
  <2>1. \A c \in DOMAIN owed' : owed'[c].call = c /\ \A n \in 1 .. Len(usage') : usage'[n].call # c
    BY <1>5, <1>6 DEF TracesInv, ChargesDiffer
  <2>2. \A j \in Calls : flight[j].at \in {"routing", "streaming", "failed"} =>
          j \notin DOMAIN owed' /\ \A n \in 1 .. Len(usage') : usage'[n].call # j
    BY <1>4, <1>5, <1>6 DEF TracesInv, ChargesDiffer
  <2> QED
    BY <1>2, <1>5, <2>1, <2>2 DEF ChargesDiffer
<1> QED
  BY <1>5, <1>7, <1>8 DEF TracesInv

\* Old traces go.
LEMMA PruneKeeps ==
  ASSUME TracesInv, NEW cutoff, PruneTraces(cutoff)
  PROVE  TracesInv'
<1> DEFINE kept == LatestOnly(traces, cutoff)
<1>1. traces \in Seq(TraceSet) /\ usage \in Seq(ChargeSet) /\ lost \subseteq Calls
  BY DEF TracesInv, TracesTyped
<1>2. TellsOf(traces, kept, Dropped(traces, kept))
  BY <1>1, PrunedTells
<1>3. /\ traces' = kept /\ saved' = kept /\ lost' = lost \cup Dropped(traces, kept)
      /\ savedOwed' = owed
      /\ UNCHANGED <<usage, flight, ended, owed, second, made, unseen, counts>>
  BY DEF PruneTraces, LatestOnly
<1> HIDE DEF kept
<1>4. ListStands(kept, usage, lost')
  BY <1>1, <1>2, <1>3, CutStands DEF TracesInv
<1>5. kept \in Seq(TraceSet) /\ lost' \subseteq Calls
  BY <1>1, <1>2, <1>3 DEF TellsOf, Dropped
<1>6. AttemptsStand'
  <2>1. ASSUME NEW i \in Calls \ lost'
        PROVE  i \notin lost /\ Tally(TriedBy(i), TraceSet, kept) = Tally(TriedBy(i), TraceSet, traces)
    <3>1. i \in Calls \ Dropped(traces, kept) /\ i \in Calls \ lost
      BY <1>3
    <3>2. Tally(TriedBy(i), TraceSet, kept) = Tally(TriedBy(i), TraceSet, traces)
      BY <1>2, <3>1, WeightsConcern, TraceWeights DEF TellsOf
    <3> QED
      BY <3>1, <3>2
  <2>2. AttemptsStand
    BY DEF TracesInv
  <2> QED
    BY <1>3, <2>1, <2>2 DEF AttemptsStand
<1>7. TracesTyped'
  BY <1>3, <1>5 DEF TracesInv, TracesTyped
<1>8. ChargesDiffer'
  BY <1>3 DEF TracesInv, ChargesDiffer
<1> QED
  BY <1>3, <1>4, <1>6, <1>7, <1>8 DEF TracesInv

\* The process dies: the saved traces are the traces, and the debts saved are owed.
LEMMA TracesRestartKeeps ==
  ASSUME TracesInv, TracesRestart
  PROVE  TracesInv'
<1>1. PICK cut \in [Calls -> 0 .. AttemptBudget] :
        /\ made' = [i \in Calls |-> made[i] + cut[i]]
        /\ unseen' = [i \in Calls |-> unseen[i] + cut[i]
                        + (InvocationAttempts(traces, i) - InvocationAttempts(saved, i))]
  BY DEF TracesRestart
<1>2. /\ traces' = saved /\ owed' = savedOwed /\ flight' = [i \in Calls |-> Idle] /\ ended' = {}
      /\ UNCHANGED <<saved, savedOwed, usage, second, lost>>
  BY DEF TracesRestart
<1>3. TracesTyped /\ AttemptsStand /\ ChargesDiffer
  BY DEF TracesInv
<1>4. ASSUME NEW i \in Calls
      PROVE  /\ InvocationAttempts(traces, i) = Tally(TriedBy(i), TraceSet, traces)
             /\ InvocationAttempts(saved, i) = Tally(TriedBy(i), TraceSet, saved)
             /\ Tally(TriedBy(i), TraceSet, traces) \in Int /\ Tally(TriedBy(i), TraceSet, saved) \in Int
             /\ cut[i] \in Nat /\ made[i] \in Nat /\ unseen[i] \in Int
  <2>1. traces \in Seq(TraceSet) /\ saved \in Seq(TraceSet)
    BY <1>3 DEF TracesTyped
  <2>2. TriedBy(i) \in [TraceSet -> Int]
    BY TraceWeights
  <2>3. /\ InvocationAttempts(traces, i) = Tally(TriedBy(i), TraceSet, traces)
        /\ InvocationAttempts(saved, i) = Tally(TriedBy(i), TraceSet, saved)
    BY <2>1, AttemptsTally
  <2>4. Tally(TriedBy(i), TraceSet, traces) \in Int /\ Tally(TriedBy(i), TraceSet, saved) \in Int
    BY <2>1, <2>2, TallyFacts DEF AddsUp
  <2>5. cut[i] \in Nat
    BY TracesAssumption
  <2> QED
    BY <1>3, <2>3, <2>4, <2>5 DEF TracesTyped
<1>5. made' \in [Calls -> Nat] /\ unseen' \in [Calls -> Int]
  <2>1. \A i \in Calls : made[i] + cut[i] \in Nat
    BY <1>4
  <2>2. \A i \in Calls : unseen[i] + cut[i]
                        + (InvocationAttempts(traces, i) - InvocationAttempts(saved, i)) \in Int
    BY <1>4
  <2> QED
    BY <1>1, <2>1, <2>2
<1>6. DOMAIN flight' = Calls /\ \A i \in Calls : FlightOK(flight'[i]) /\ flight'[i].at = "idle"
  BY <1>2 DEF FlightOK, Idle
<1>7. owed' \in [DOMAIN owed' -> ChargeSet] /\ DOMAIN owed' \subseteq DOMAIN owed
      /\ \A c \in DOMAIN owed' : owed'[c] = owed[c]
  BY <1>2, <1>3 DEF TracesTyped
<1>8. TracesTyped'
  BY <1>2, <1>3, <1>5, <1>6, <1>7 DEF TracesTyped
<1>9. ChargesDiffer'
  BY <1>2, <1>3, <1>6, <1>7 DEF ChargesDiffer
<1>10. AttemptsStand'
  <2>1. ASSUME NEW i \in Calls \ lost
        PROVE  made'[i] = Tally(TriedBy(i), TraceSet, saved) + unseen'[i]
    <3>1. made[i] = Tally(TriedBy(i), TraceSet, traces) + unseen[i]
      BY <1>3 DEF AttemptsStand
    <3>2. made'[i] = made[i] + cut[i]
          /\ unseen'[i] = unseen[i] + cut[i]
               + (InvocationAttempts(traces, i) - InvocationAttempts(saved, i))
      BY <1>1
    <3> QED
      BY <1>4, <3>1, <3>2
  <2> QED
    BY <1>2, <1>6, <2>1 DEF AttemptsStand
<1> QED
  BY <1>2, <1>8, <1>9, <1>10 DEF TracesInv

\* Every step keeps the invariant.
LEMMA TracesStep ==
  ASSUME TracesInv, [TracesNext]_traceVars
  PROVE  TracesInv'
<1>1. CASE UNCHANGED traceVars
  BY <1>1 DEF traceVars, TracesInv, TracesTyped, ChargesDiffer, AttemptsStand
<1>2. CASE Save
  BY <1>2 DEF Save, TracesInv, TracesTyped, ChargesDiffer, AttemptsStand
<1>3. CASE Pass
  <2>1. second' \in Int
    BY <1>3 DEF Pass, TracesInv, TracesTyped
  <2> QED
    BY <1>3, <2>1 DEF Pass, TracesInv, TracesTyped, ChargesDiffer, AttemptsStand
<1> QED
  BY <1>1, <1>2, <1>3, RefuseKeeps, StartRouteKeeps, RouteDoneKeeps, KiroLeavesKeeps, StreamEndsKeeps, RouteEndsKeeps, FinishKeeps,
     RecoverKeeps, PruneKeeps, TracesRestartKeeps DEF TracesNext

\* What the operator is shown stands, whatever is refused, retried, recovered late, pruned or
\* lost in a crash.
THEOREM TracesInvariance == TracesSpec => []TracesInv
<1>1. TracesInit => TracesInv
  BY TracesStart
<1>2. TracesInv /\ [TracesNext]_traceVars => TracesInv'
  BY TracesStep
<1> QED
  BY <1>1, <1>2, PTL DEF TracesSpec

\* However often a call is sent again, only what no trace counts, of routes that were left, cut
\* short by a crash, or traced but not saved before one, adds to its budget of attempts.
THEOREM AttemptsAlwaysWithinBudget == TracesSpec => []AttemptsWithinBudget
<1>1. TracesInv => AttemptsWithinBudget
  <2> SUFFICES ASSUME TracesInv, NEW i \in Calls \ lost
               PROVE  /\ made[i] = InvocationAttempts(traces, i) + unseen[i]
                      /\ InvocationAttempts(traces, i) + Left(i) <= AttemptBudget
    BY DEF AttemptsWithinBudget
  <2>1. /\ InvocationAttempts(traces, i) = Tally(TriedBy(i), TraceSet, traces)
        /\ Tally(TriedBy(i), TraceSet, traces) \in Int
    BY AttemptsTally, TraceWeights, TallyFacts DEF AddsUp, TracesInv, TracesTyped
  <2>2. /\ made[i] = Tally(TriedBy(i), TraceSet, traces) + unseen[i]
        /\ flight[i].at = "routing" =>
             Tally(TriedBy(i), TraceSet, traces) + flight[i].left <= AttemptBudget
    BY DEF TracesInv, AttemptsStand
  <2>3. Tally(TriedBy(i), TraceSet, traces) <= AttemptBudget
    BY DEF TracesInv, ListStands
  <2> QED
    BY <2>1, <2>2, <2>3 DEF Left, At
<1> QED
  BY <1>1, TracesInvariance, PTL

\* What the traces show as charged is what the ledger charged, and the other way round.
THEOREM ChargesAlwaysTraced == TracesSpec => []ChargesAreTraced
<1>1. TracesInv => ChargesAreTraced
  <2> SUFFICES ASSUME TracesInv PROVE ChargesAreTraced
    OBVIOUS
  <2>1. /\ traces \in Seq(TraceSet) /\ usage \in Seq(ChargeSet) /\ ListStands(traces, usage, lost)
        /\ DOMAIN traces = 1 .. Len(traces) /\ DOMAIN usage = 1 .. Len(usage)
    BY DEF TracesInv, TracesTyped
  <2>2. ASSUME NEW n \in DOMAIN usage, usage[n].call \notin lost
        PROVE  /\ Summed(traces, LAMBDA t : IF t.call = usage[n].call THEN t.credits ELSE 0) = usage[n].credits
               /\ \E k \in DOMAIN traces :
                    /\ Finished(traces[k]) /\ traces[k].call = usage[n].call
                    /\ traces[k].ts = usage[n].at /\ traces[k].credits = usage[n].credits
    <3>1. /\ Tally(ChargedTo(usage[n].call), TraceSet, traces) = usage[n].credits
          /\ Tally(Showing(usage[n]), TraceSet, traces) > 0
      BY <2>1, <2>2 DEF ListStands
    <3>2. ChargedIn(traces, usage[n].call) = usage[n].credits
      BY <2>1, <3>1, ChargedTally
    <3>3. IsCount(Showing(usage[n]), TraceSet, traces)
      BY <2>1, TraceWeights, TallyCounts
    <3>4. PICK k \in 1 .. Len(traces) : Showing(usage[n])[traces[k]] > 0
      BY <3>1, <3>3 DEF IsCount
    <3>5. traces[k] \in TraceSet
      BY <2>1
    <3>6. ShowsEntry(traces[k], usage[n])
      BY <3>4, <3>5 DEF Showing
    <3> QED
      BY <2>1, <3>2, <3>6 DEF ChargedIn, ShowsEntry
  <2>3. \A n \in DOMAIN traces : traces[n].credits > 0 =>
          [call |-> traces[n].call, at |-> traces[n].ts, credits |-> traces[n].credits] \in Range(usage)
    BY <2>1 DEF ListStands
  <2> QED
    BY <2>2, <2>3 DEF ChargesAreTraced
<1> QED
  BY <1>1, TracesInvariance, PTL

=============================================================================
