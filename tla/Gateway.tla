------------------------------- MODULE Gateway --------------------------------
(***************************************************************************)
(* A conversation request's way through the gateway: the idempotency guard *)
(* of its invocation, the handler that holds credit for it, the stream     *)
(* that bills it, and the return of everything it took.  An attempt is one *)
(* delivery of an invocation; clients send an invocation again when they   *)
(* hear nothing or hear of a failure.  Attempts call the operations of     *)
(* Billing, each under the engine's lock; whatever happens between two of  *)
(* these calls may interleave.                                             *)
(***************************************************************************)
EXTENDS Billing

CONSTANTS
  Attempts,         \* bound: the requests in the gateway at once
  MaxInflight       \* CapacityGuardrail::max_concurrency

ASSUME GatewayAssumption == MaxInflight \in Nat /\ IsFiniteSet(Attempts)

VARIABLES
  attempt,                        \* the live attempts
  inProgress, completed, failed,  \* IdempotencyStore
  inflight,                       \* CapacityGuardrail::current_concurrency
  stopping                        \* the stop signal has come

guard == <<inProgress, completed, failed>>
gateway == <<attempt, inProgress, completed, failed, inflight, stopping>>

Phases == {"admitted", "reserving", "routing", "streaming", "leaving"}
Drops == {"hold", "lease", "guard"}

\* `todo` is what a leaving attempt still drops, in order; `outcome` is how it
\* ends its guard; `output` says that the stream has carried some output.
Attempt == [inv : Invocations, phase : Phases, todo : Seq(Drops),
            outcome : {"abort", "complete", "fail"},
            output : BOOLEAN, connected : BOOLEAN]

GatewayTypeOK ==
  /\ TypeOK
  /\ attempt \in [DOMAIN attempt -> Attempt] /\ DOMAIN attempt \subseteq Attempts
  /\ \A a \in DOMAIN attempt : attempt[a].phase = "leaving" => attempt[a].todo # <<>>
  /\ inProgress \subseteq Invocations
  /\ completed \subseteq Invocations /\ failed \subseteq Invocations
  /\ inflight \in Int
  /\ stopping \in BOOLEAN

-----------------------------------------------------------------------------
\* The idempotency guard.

Acquire(i) ==
  /\ i \notin inProgress \cup completed \cup failed
  /\ inProgress' = inProgress \cup {i}
  /\ UNCHANGED <<completed, failed>>

\* IdempotencyGuard: commit, fail, or drop.
EndGuard(i, outcome) ==
  /\ inProgress' = inProgress \ {i}
  /\ completed' = IF outcome = "complete" THEN completed \cup {i} ELSE completed
  /\ failed' = IF outcome = "fail" THEN failed \cup {i} ELSE failed

\* A finished invocation is remembered for ten minutes, or until the bound on
\* those remembered makes room.
Forget(i) ==
  /\ up /\ i \in completed \cup failed
  /\ completed' = completed \ {i} /\ failed' = failed \ {i}
  /\ UNCHANGED <<attempt, inProgress, inflight, stopping>> /\ UNCHANGED vars

-----------------------------------------------------------------------------
\* Attempts.

In(a, phase) == a \in DOMAIN attempt /\ attempt[a].phase = phase

\* All of this is memory: it ends with the process.
Lost ==
  /\ attempt' = NoRecords /\ inflight' = 0
  /\ inProgress' = {} /\ completed' = {} /\ failed' = {}
  /\ stopping' = FALSE

\* An attempt's step whose engine call saves: the process may die of it.
UnlessDead(step) == IF up' THEN step ELSE Lost

Becomes(a, record) == attempt' = Put(attempt, a, record)

\* What an attempt drops on its way out of each phase: locals in the reverse of
\* their order of declaration, so the guard is last.  The capacity permit goes
\* with the lease it is dropped next to.
GuardOnly == <<"guard">>
Unprotected == <<"lease", "guard">>

\* Mutant: the guard is declared last, and so dropped first.
GuardFirst == <<"guard", "hold", "lease">>

HoldToGuard == <<"hold", "lease", "guard">>

\* Refusals release the hold themselves, and HoldRelease does so again.
ReleasedTwice == <<"hold", "hold", "lease", "guard">>

\* Mutant: the lease and its permit are not given back.
FailedWithoutLease == <<"guard", "hold">>

\* The handler fails the guard itself before its locals are dropped.
FailedFirst == <<"guard", "hold", "lease">>

Leaving(a, todo, outcome) ==
  Becomes(a, [attempt[a] EXCEPT !.phase = "leaving", !.todo = todo,
                                !.outcome = outcome, !.output = FALSE])

Arrive(a, i) ==
  /\ up /\ ~stopping /\ a \notin DOMAIN attempt
  /\ Acquire(i)
  /\ Becomes(a, [inv |-> i, phase |-> "admitted", todo |-> <<>>,
                 outcome |-> "abort", output |-> FALSE, connected |-> TRUE])
  /\ UNCHANGED <<inflight, stopping>> /\ UNCHANGED vars

\* The local intent classifier answers.
AnswerLocally(a) ==
  /\ In(a, "admitted")
  /\ Leaving(a, GuardOnly, "complete")
  /\ UNCHANGED <<inflight, stopping>> /\ UNCHANGED guard /\ UNCHANGED vars

\* A permit is taken, then the lease that keeps the janitor from the hold.
BeginReserving(a) ==
  /\ In(a, "admitted")
  /\ inflight < MaxInflight /\ inflight' = inflight + 1
  /\ ProtectReservation(attempt[a].inv)
  /\ Becomes(a, [attempt[a] EXCEPT !.phase = "reserving"])
  /\ UNCHANGED stopping /\ UNCHANGED guard

\* reserve_waiting: until it succeeds the attempt looks again, or leaves.
ReserveWaiting(a) ==
  /\ In(a, "reserving")
  /\ \E amount \in HoldAmounts : Reserve(attempt[a].inv, amount)
  /\ Becomes(a, [attempt[a] EXCEPT !.phase = "routing"])
  /\ UNCHANGED <<inflight, stopping>> /\ UNCHANGED guard

\* The request is refused, or its handler dropped: the client left, or the
\* server's timeout passed.
Leave(a) ==
  /\ \/ In(a, "admitted") /\ Leaving(a, GuardOnly, "abort")
     \/ In(a, "reserving") /\ Leaving(a, Unprotected, "abort")
     \/ /\ In(a, "routing")
        /\ Leaving(a, ReleasedTwice, "abort") \/ Leaving(a, HoldToGuard, "abort")
  /\ UNCHANGED <<inflight, stopping>> /\ UNCHANGED guard /\ UNCHANGED vars

-----------------------------------------------------------------------------
\* Billing an attempt.

HoldStands(i) ==
  i \in DOMAIN mem.reservations /\ mem.reservations[i].state = "held"

\* Without a hold settle is an error, and nothing changes.
SettleBill(i, charge) ==
  IF HoldStands(i) THEN Settle(i, charge) ELSE UNCHANGED vars

SettledIn(s, i) ==
  i \in DOMAIN s.reservations /\ s.reservations[i].state = "settled"

\* bill_empty_attempt: every attempt upstream ended empty, and the last one
\* reported the input it had read.
BillEmptyAttempt(a) ==
  /\ In(a, "routing")
  /\ \E charge \in Charges : SettleBill(attempt[a].inv, charge)
  /\ UnlessDead(/\ Leaving(a, FailedFirst, "fail")
                /\ UNCHANGED <<inflight, stopping>> /\ UNCHANGED guard)

\* The stream takes the hold, the lease, the permit and the guard over, once
\* the upstream has begun to answer or Kiro can be kept waiting no longer.
BeginStream(a) ==
  /\ In(a, "routing")
  /\ Becomes(a, [attempt[a] EXCEPT !.phase = "streaming"])
  /\ UNCHANGED <<inflight, stopping>> /\ UNCHANGED guard /\ UNCHANGED vars

Output(a) ==
  /\ In(a, "streaming") /\ ~attempt[a].output
  /\ Becomes(a, [attempt[a] EXCEPT !.output = TRUE])
  /\ UNCHANGED <<inflight, stopping>> /\ UNCHANGED guard /\ UNCHANGED vars

ClientLeaves(a) ==
  /\ In(a, "streaming") /\ attempt[a].connected
  /\ Becomes(a, [attempt[a] EXCEPT !.connected = FALSE])
  /\ UNCHANGED <<inflight, stopping>> /\ UNCHANGED guard /\ UNCHANGED vars

\* What the upstream reported before the stream ended: `input` and `counted`
\* say that it counted input and output, `final` is a stop reason that makes an
\* empty answer final.  The stream is `done`, or else it failed, was cut, ran
\* out of time or lost its client.
Reports ==
  {r \in [frame : BOOLEAN, input : BOOLEAN, counted : BOOLEAN,
          stop : {"none", "plain", "final"}, done : BOOLEAN] :
     r.input \/ r.counted => r.frame}

Completes(output, r) == r.done /\ (output \/ (r.frame /\ r.stop = "final"))

\* Mutant: only what completes is billed.
BillableIfComplete(output, r) ==
  Completes(output, r) /\ (output \/ r.input \/ r.counted)

\* What delivered nothing is not billed, whatever the upstream reported, unless
\* it is an answer that ended empty with a stop reason.
Billable(output, r) ==
  /\ output \/ r.input \/ r.counted
  /\ \/ output \/ Completes(output, r)
     \/ r.done /\ r.stop # "none" /\ r.input

Verdicts(output) ==
  {[bills |-> Billable(output, r), completes |-> Completes(output, r)] : r \in Reports}

\* The guard's end: complete if the stop frame was sent, which a client that
\* stopped reading prevents.
Delivered(a, otherwise) ==
  IF attempt[a].connected THEN {"complete", otherwise} ELSE {otherwise}

\* Mutant: a stream that failed is remembered as billed.
FailedUnbilled(a, completes) == {"fail"}

UnbilledOutcomes(a, completes) ==
  IF completes THEN Delivered(a, "abort") ELSE {"abort"}

BilledOutcomes(a, completes) ==
  IF completes /\ SettledIn(mem', attempt[a].inv) THEN Delivered(a, "fail") ELSE {"fail"}

\* The end of every stream.  A settlement once attempted leaves the hold to
\* the engine; otherwise the settler's drop releases it.
FinishBilled(a, completes) ==
  /\ \E charge \in Charges : SettleBill(attempt[a].inv, charge)
  /\ UnlessDead(\E outcome \in BilledOutcomes(a, completes) :
                  /\ Leaving(a, Unprotected, outcome)
                  /\ UNCHANGED <<inflight, stopping>> /\ UNCHANGED guard)

FinishUnbilled(a, completes) ==
  /\ \E outcome \in UnbilledOutcomes(a, completes) : Leaving(a, HoldToGuard, outcome)
  /\ UNCHANGED <<inflight, stopping>> /\ UNCHANGED guard /\ UNCHANGED vars

FinishStream(a) ==
  /\ In(a, "streaming")
  /\ \E verdict \in Verdicts(attempt[a].output) :
       \/ verdict.bills /\ FinishBilled(a, verdict.completes)
       \/ ~verdict.bills /\ FinishUnbilled(a, verdict.completes)

-----------------------------------------------------------------------------
\* Leaving.

\* Mutant: an attempt with nothing left to drop stays.
DropNextAndStay(a) == attempt' = [attempt EXCEPT ![a].todo = Tail(@)]

DropNext(a) ==
  attempt' = IF Len(attempt[a].todo) = 1 THEN Without(attempt, {a})
             ELSE [attempt EXCEPT ![a].todo = Tail(@)]

NextDrop(a, thing) ==
  In(a, "leaving") /\ Head(attempt[a].todo) = thing /\ DropNext(a)

Releasable(i) == HoldStands(i) /\ i \notin DOMAIN mem.pending

\* HoldRelease and BillingSettler drop.  Without a hold to return, or with its
\* bill outstanding, release changes nothing.
DropHold(a) ==
  /\ NextDrop(a, "hold")
  /\ IF Releasable(attempt[a].inv) THEN Release(attempt[a].inv) ELSE UNCHANGED vars
  /\ UNCHANGED <<inflight, stopping>> /\ UNCHANGED guard

DropProtection(a) ==
  /\ NextDrop(a, "lease")
  /\ inflight' = inflight - 1
  /\ DropLease(attempt[a].inv)
  /\ UNCHANGED stopping /\ UNCHANGED guard

DropGuard(a) ==
  /\ NextDrop(a, "guard")
  /\ EndGuard(attempt[a].inv, attempt[a].outcome)
  /\ UNCHANGED <<inflight, stopping>> /\ UNCHANGED vars

-----------------------------------------------------------------------------
\* The engine and the process around the attempts.

BeginStop ==
  /\ up /\ ~stopping /\ stopping' = TRUE
  /\ UNCHANGED <<attempt, inflight>> /\ UNCHANGED guard /\ UNCHANGED vars

\* The server waits for its connections; a handler ends with its connection,
\* but a stream's task is not waited for once its client has left.
OrderlyStop ==
  /\ stopping /\ \A a \in DOMAIN attempt : ~attempt[a].connected
  /\ Shutdown /\ Lost

Engine ==
  /\ Background \/ Operator
  /\ UnlessDead(UNCHANGED gateway)

GatewayCrash == Crash /\ Lost

Idles == (Restart \/ Tick) /\ UNCHANGED gateway

GatewayInit ==
  /\ Init
  /\ attempt = NoRecords /\ inflight = 0
  /\ inProgress = {} /\ completed = {} /\ failed = {}
  /\ stopping = FALSE

\* What ends an attempt; none of it depends on its client.
Proceeds(a) ==
  \/ Leave(a) \/ FinishStream(a)
  \/ DropHold(a) \/ DropProtection(a) \/ DropGuard(a)

Serve(a) ==
  \/ \E i \in Invocations : Arrive(a, i)
  \/ AnswerLocally(a)
  \/ BeginReserving(a)
  \/ ReserveWaiting(a)
  \/ BillEmptyAttempt(a)
  \/ BeginStream(a)
  \/ Output(a)
  \/ ClientLeaves(a)
  \/ Proceeds(a)

GatewayNext ==
  \/ \E a \in Attempts : Serve(a)
  \/ \E i \in Invocations : Forget(i)
  \/ Engine
  \/ BeginStop
  \/ OrderlyStop
  \/ GatewayCrash
  \/ Idles

allVars == <<gateway, vars>>

GatewaySpec == GatewayInit /\ [][GatewayNext]_allVars

\* The server's timeout drops a handler, a stream has a deadline, and drops
\* run on.  Storage works again sooner or later and the background task keeps
\* running, so a probe, a retry or a janitor run possible again and again is
\* saved at last; a stopped process is started again, and time passes.
GatewayFairSpec ==
  /\ GatewaySpec
  /\ \A a \in Attempts : WF_allVars(Proceeds(a))
  /\ SF_allVars(Lasting(ProbePersistence) /\ UNCHANGED gateway)
  /\ \A i \in Invocations :
       SF_allVars(Lasting(RetryPendingSettlement(i)) /\ UNCHANGED gateway)
  /\ SF_allVars(Lasting(RunJanitor) /\ UNCHANGED gateway)
  /\ WF_allVars(Tick /\ UNCHANGED gateway)
  /\ WF_allVars(Restart /\ UNCHANGED gateway)

-----------------------------------------------------------------------------
\* Safety.

Upstream(a) == In(a, "routing") \/ In(a, "streaming")

\* An attempt's own hold stands, under a lease and unbilled, for as long as it
\* is upstream: no earlier attempt's late drop, no refusal's second release, and
\* no janitor takes it away, so its bill finds it.
KeepsItsHold ==
  \A a \in DOMAIN attempt : Upstream(a) =>
    LET i == attempt[a].inv IN
    HoldStands(i) /\ i \notin DOMAIN mem.pending /\ leases[i] > 0

Owns(a, thing) ==
  \/ thing \in Range(attempt[a].todo)
  \/ thing = "guard" /\ attempt[a].phase # "leaving"
  \/ thing = "lease" /\ attempt[a].phase \in {"reserving", "routing", "streaming"}
  \/ thing = "hold" /\ Upstream(a)

Owners(i, thing) ==
  {a \in DOMAIN attempt : attempt[a].inv = i /\ Owns(a, thing)}

\* Whatever path an attempt takes out of the gateway, what it took goes back
\* with it: a guard, a lease, a permit or an unbilled hold always belongs to
\* one live attempt, and that attempt still has the guard while the hold
\* stands, so a retry let in never finds the hold of an earlier attempt.
EverythingOwned ==
  /\ inflight = Cardinality({a \in DOMAIN attempt : Owns(a, "lease")})
  /\ inflight <= MaxInflight
  /\ \A i \in Invocations :
       /\ leases[i] = Cardinality(Owners(i, "lease"))
       /\ Cardinality(Owners(i, "guard")) = IF i \in inProgress THEN 1 ELSE 0
       /\ up /\ Releasable(i) => Owners(i, "hold") \cap Owners(i, "guard") # {}

BilledIn(s) == {i \in Invocations : UsageOf(s, i) # {}} \cup DOMAIN s.pending

\* A retry told that its request failed and was billed for the part done
\* (AlreadyFailed) was: its charge is in the ledger or on its way there.
RefusedAsBilledIsBilled == failed \subseteq BilledIn(mem)

-----------------------------------------------------------------------------
\* What a step may never do.

\* Output delivered is billed: a stream that carried any ends only by a bill,
\* or with the process.
DeliveredIsBilled ==
  [][\A a \in DOMAIN attempt :
       attempt[a].output /\ up' /\ ~(In(a, "streaming") /\ attempt[a].output)'
         => attempt[a].inv \in BilledIn(mem')]_allVars

\* An orderly stop bills every stream first: "each settles what it streamed
\* before the final save" (main.rs).
StopBillsStreams ==
  [][OrderlyStop => \A a \in DOMAIN attempt : ~attempt[a].output]_allVars

\* The gateway implements ServedOnce: one attempt upstream at a time, and what
\* was billed is not run again.
Served ==
  INSTANCE ServedOnce WITH
    Runners <- Attempts, Work <- Invocations,
    running <- [a \in {b \in DOMAIN attempt : Upstream(b)} |-> attempt[a].inv],
    billed <- BilledIn(mem), durable <- BilledIn(disk)

ImplementsServedOnce == Served!ServedOnceSpec

-----------------------------------------------------------------------------
\* Liveness.

HoldsEnd ==
  \A i \in Invocations : up /\ HoldStands(i) ~> ~up \/ ~HoldStands(i)

\* Nothing stays open: every hold ends, billed, returned or lost with the process, and
\* every intent to charge is charged, unless the process dies before anything saved it.
NothingStaysOpen == HoldsEnd /\ IntentsAreCharged
=============================================================================
