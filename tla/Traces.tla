------------------------------- MODULE Traces -------------------------------
(***************************************************************************)
(* What the operator is shown of requests: a trace of every refusal, every *)
(* route and every charge (record_trace, apply_pending_settlement,         *)
(* finish_trace), and the panels counted from them (activity,              *)
(* attempt_activity). A call is an invocation; the idempotency guard lets  *)
(* one attempt of it in at a time. The traces also count its upstream      *)
(* attempts, which a retry of it is given the rest of; but a route that    *)
(* Kiro leaves, or that dies with the process, is never traced.            *)
(*                                                                         *)
(* Traces are saved with whatever is saved next. A charge whose save       *)
(* failed is owed: the recovery task books it later, at its own time, and  *)
(* what is saved in between saves that it is owed.                         *)
(***************************************************************************)
EXTENDS Integers, SequencesExt

CONSTANTS
  Calls, CardOfCall,       \* invocations, each of a card
  ModelOf,                 \* the model a call asks for
  Chains,                  \* the upstream attempts a route makes: [provider, ok]
  Refusals,                \* [class, named]: why requests are refused; some before a model is known
  CardRefusals,            \* CARD_REFUSALS
  Prices,
  AttemptBudget,           \* 3
  RepeatWindow,            \* a minute
  Day, Week,
  MaxRetained,             \* MAX_RETAINED_TRACES
  FirstSecond, LastSecond, MaxAsked, MaxTraceRestarts  \* bounds

ASSUME TracesAssumption ==
  /\ CardOfCall \in [Calls -> Range(CardOfCall)] /\ ModelOf \in [Calls -> Range(ModelOf)]
  /\ \A chain \in Chains : chain \in Seq(Range(chain))
  /\ Prices \subseteq Nat
  /\ AttemptBudget \in Nat /\ RepeatWindow \in Nat /\ MaxRetained \in Nat \ {0}
  /\ Day \in Nat /\ Week \in Nat /\ FirstSecond \in Nat /\ Day <= Week /\ Week < FirstSecond

VARIABLES
  traces,    \* oldest made first
  saved,     \* the traces as last saved
  usage,     \* the ledger's usage entries: [call, at, credits]
  flight,    \* what the attempt a call's guard belongs to has come to
  ended,     \* the idempotency memory: calls answered or billed
  owed,      \* settlements that could not be saved: call -> entry
  savedOwed, \* those of them that were saved as owed, with something else
  second,
  made,      \* ghost: upstream attempts made for each call, ever
  unseen,    \* ghost: of these, the ones no trace ever counted, or that a crash took
  lost,      \* ghost: calls a trace of which was dropped for its age or their number
  counts     \* bounds: requests, restarts

traceVars ==
  <<traces, saved, usage, flight, ended, owed, savedOwed, second, made, unseen, lost, counts>>

NoTrace == "none"
Unknown == ""

Idle == [at |-> "idle"]

----------------------------------------------------------------------------
(* Traces.                                                                 *)

Trace(i, status, class, chain, credits, model, ts) ==
  [call |-> i, status |-> status, class |-> class, chain |-> chain, credits |-> credits,
   model |-> model, ts |-> ts, repeats |-> 0, lastSeen |-> ts]

Occurrences(t) == t.repeats + 1

\* Charged without being completed: the client gone or the stream cut short.
InterruptedCharged(t) ==
  /\ t.credits > 0
  /\ t.status = "aborted" \/ (t.status = "error" /\ t.class = "stream_incomplete")

RefusedForCard(t) == t.status = "error" /\ t.class \in CardRefusals

Unrouted(t) == t.status = "error" /\ t.class # NoTrace /\ t.chain = <<>> /\ t.credits = 0

\* The same refusal of the same card again, within a minute.
IsRepeatedBy(t, later) ==
  /\ Unrouted(t) /\ Unrouted(later)
  /\ CardOfCall[t.call] = CardOfCall[later.call] /\ t.class = later.class
  /\ later.ts >= t.ts /\ later.ts < t.ts + RepeatWindow

NewestKept(s) ==
  IF Len(s) > MaxRetained THEN SubSeq(s, Len(s) - MaxRetained + 1, Len(s)) ELSE s

\* The traces to be kept, and what all count, from the oldest on.
TracesThat(s, Keep(_)) ==
  FoldLeft(LAMBDA kept, t : IF Keep(t) THEN Append(kept, t) ELSE kept, <<>>, s)

Summed(s, Counts(_)) == FoldLeft(LAMBDA sum, t : sum + Counts(t), 0, s)

TracesOf(s, i) == TracesThat(s, LAMBDA t : t.call = i)

\* Whose traces a list no longer has all of.
Dropped(all, kept) == {i \in Calls : Len(TracesOf(all, i)) > Len(TracesOf(kept, i))}

\* The traces with one more: counted by a refusal it repeats, if one is among the latest
\* ones made within a minute of it, or of its own.
Recorded(t) ==
  LET recent == {n \in DOMAIN traces :
                   \A k \in n..Len(traces) : traces[k].ts + RepeatWindow > t.ts}
      repeated == {n \in recent : IsRepeatedBy(traces[n], t)}
  IN IF repeated # {}
     THEN [traces EXCEPT ![Max(repeated)].repeats = @ + 1, ![Max(repeated)].lastSeen = t.ts]
     ELSE Append(traces, t)

RecordTrace(t) ==
  /\ traces' = NewestKept(Recorded(t))
  /\ lost' = lost \cup Dropped(Recorded(t), traces')

\* Upstream attempts a call's traces count.
InvocationAttempts(s, i) ==
  Summed(s, LAMBDA t : IF t.call = i THEN Len(t.chain) ELSE 0)

\* Mutant: a settlement keeps its route's attempts only.
LastChain(own) == IF own = <<>> THEN <<>> ELSE Last(own).chain

AllChains(own) == FoldLeft(LAMBDA chain, t : chain \o t.chain, <<>>, own)

\* Mutant: a charge booked late is traced at the time it is booked.
SettledNow(i, entry) ==
  Append(TracesThat(traces, LAMBDA t : t.call # i),
         Trace(i, "success", NoTrace, AllChains(TracesOf(traces, i)), entry.credits, ModelOf[i], second))

\* A charge: the call's traces become one, of all its attempts.
Settled(i, entry) ==
  LET own == TracesOf(traces, i)
      others == TracesThat(traces, LAMBDA t : t.call # i)
  IN Append(others, Trace(i, "success", NoTrace, AllChains(own), entry.credits, ModelOf[i], entry.at))

LatestOf(i) ==
  {n \in DOMAIN traces : traces[n].call = i /\ \A k \in n + 1..Len(traces) : traces[k].call # i}

FinishTrace(i, status, class) ==
  traces' = [n \in DOMAIN traces |->
               IF n \in LatestOf(i) THEN [traces[n] EXCEPT !.status = status, !.class = class]
               ELSE traces[n]]

----------------------------------------------------------------------------
(* Requests.                                                               *)

At(i, phase) == flight[i].at = phase

Enters(i) ==
  /\ At(i, "idle") /\ i \notin ended
  /\ counts.asked < MaxAsked /\ counts' = [counts EXCEPT !.asked = @ + 1]

ChargedBefore(i) == (\E n \in DOMAIN usage : usage[n].call = i) \/ i \in DOMAIN owed

\* Refused before it is routed.
Refuse(i, r) ==
  /\ Enters(i)
  /\ RecordTrace(Trace(i, "error", r.class, <<>>, 0, IF r.named THEN ModelOf[i] ELSE Unknown, second))
  /\ UNCHANGED <<saved, usage, flight, ended, owed, savedOwed, second, made, unseen>>

Serves(chain) == chain # <<>> /\ Last(chain).ok

RouteFailureClass(chain) ==
  IF chain = <<>> THEN {"no_route"} ELSE {"upstream_start_failed", "input_too_long"}

\* A route begins with the attempts a call has left; the hold of one charged before is
\* refused.
StartRoute(i) ==
  LET left == AttemptBudget - InvocationAttempts(traces, i) IN
  /\ Enters(i) /\ ~ChargedBefore(i)
  /\ left > 0
  /\ flight' = [flight EXCEPT ![i] = [at |-> "routing", left |-> left]]
  /\ UNCHANGED <<traces, saved, usage, ended, owed, savedOwed, second, made, unseen, lost>>

\* It ends, and only now are its attempts traced.
RouteDone(i, chain) ==
  /\ At(i, "routing") /\ Len(chain) <= flight[i].left
  /\ made' = [made EXCEPT ![i] = @ + Len(chain)]
  /\ \/ /\ Serves(chain)
        /\ RecordTrace(Trace(i, "in_progress", NoTrace, chain, 0, ModelOf[i], second))
        /\ flight' = [flight EXCEPT ![i] = [at |-> "streaming"]]
     \/ /\ ~Serves(chain)
        /\ \E class \in RouteFailureClass(chain) :
             RecordTrace(Trace(i, "error", class, chain, 0, ModelOf[i], second))
        /\ flight' = [flight EXCEPT ![i] =
             [at |-> IF chain = <<>> THEN "idle" ELSE "failed"]]
  /\ UNCHANGED <<saved, usage, ended, owed, savedOwed, second, unseen, counts>>

Finishing(status, class, billed) ==
  [at |-> "finishing", status |-> status, class |-> class, billed |-> billed]

\* Kiro leaves a route under way: it is dropped where it is, and its attempts with it. If
\* the answer had begun, its end is still noted, on whatever trace the call has.
KiroLeaves(i, tried) ==
  /\ At(i, "routing") /\ tried <= flight[i].left
  /\ made' = [made EXCEPT ![i] = @ + tried]
  /\ unseen' = [unseen EXCEPT ![i] = @ + tried]
  /\ \E f \in {Idle, Finishing("aborted", "stream_incomplete", FALSE)} :
       flight' = [flight EXCEPT ![i] = f]
  /\ UNCHANGED <<traces, saved, usage, ended, owed, savedOwed, second, lost, counts>>

\* The settlement is saved and its trace made, or it is owed.
Book(i, credits, status, class) ==
  LET entry == [call |-> i, at |-> second, credits |-> credits] IN
  \/ /\ usage' = Append(usage, entry)
     /\ traces' = NewestKept(Settled(i, entry)) /\ saved' = traces'
     /\ lost' = lost \cup Dropped(Settled(i, entry), traces')
     /\ flight' = [flight EXCEPT ![i] = Finishing(status, class, TRUE)]
     /\ UNCHANGED owed /\ savedOwed' = owed
  \/ /\ owed' = [c \in DOMAIN owed \cup {i} |-> IF c = i THEN entry ELSE owed[c]]
     /\ flight' = [flight EXCEPT ![i] = Finishing("error", "settlement_failed", TRUE)]
     /\ UNCHANGED <<usage, traces, saved, savedOwed, lost>>

NotBilled(i, status, class) ==
  /\ flight' = [flight EXCEPT ![i] = Finishing(status, class, FALSE)]
  /\ UNCHANGED <<usage, traces, saved, lost, owed, savedOwed>>

\* Ends of a stream: completed, the client gone (whatever the answer came to), cut short,
\* empty.
Ends == {<<"success", NoTrace>>, <<"aborted", "stream_incomplete">>,
         <<"error", "stream_incomplete">>, <<"error", "empty_completion">>}

StreamEnds(i) ==
  /\ At(i, "streaming")
  /\ \E end \in Ends :
       \/ \E credits \in Prices : Book(i, credits, end[1], end[2])
       \/ end[1] # "success" /\ NotBilled(i, end[1], end[2])
  /\ UNCHANGED <<ended, second, made, unseen, counts>>

\* Every attempt of a route ended empty, and the input one reported is billed; or it was
\* not, and the call may be sent again, once a begun answer has ended.
RouteEnds(i) ==
  /\ At(i, "failed")
  /\ \/ \E credits \in Prices : Book(i, credits, "error", "empty_completion")
     \/ /\ flight' = [flight EXCEPT ![i] = Idle]
        /\ UNCHANGED <<usage, traces, saved, lost, owed, savedOwed>>
     \/ \E status \in {"error", "aborted"} : NotBilled(i, status, "stream_incomplete")
  /\ UNCHANGED <<ended, second, made, unseen, counts>>

\* Its outcome is noted; billed or answered, the call is never run again.
Finish(i) ==
  /\ At(i, "finishing")
  /\ FinishTrace(i, flight[i].status, flight[i].class)
  /\ flight' = [flight EXCEPT ![i] = Idle]
  /\ ended' = IF flight[i].billed THEN ended \cup {i} ELSE ended
  /\ UNCHANGED <<saved, usage, owed, savedOwed, second, made, unseen, lost, counts>>

\* The recovery task books what is owed.
Recover(i) ==
  /\ i \in DOMAIN owed
  /\ usage' = Append(usage, owed[i])
  /\ traces' = NewestKept(Settled(i, owed[i])) /\ saved' = traces'
  /\ lost' = lost \cup Dropped(Settled(i, owed[i]), traces')
  /\ owed' = [c \in DOMAIN owed \ {i} |-> owed[c]] /\ savedOwed' = owed'
  /\ UNCHANGED <<flight, ended, second, made, unseen, counts>>

\* Something else is saved.
Save ==
  /\ saved' = traces /\ savedOwed' = owed
  /\ UNCHANGED <<traces, usage, flight, ended, owed, second, made, unseen, lost, counts>>

\* An operator has the traces before a time removed.
PruneTraces(cutoff) ==
  /\ traces' = TracesThat(traces, LAMBDA t : t.ts >= cutoff) /\ traces' # traces
  /\ saved' = traces' /\ savedOwed' = owed
  /\ lost' = lost \cup Dropped(traces, traces')
  /\ UNCHANGED <<usage, flight, ended, owed, second, made, unseen, counts>>

Pass ==
  /\ second < LastSecond /\ second' = second + 1
  /\ UNCHANGED <<traces, saved, usage, flight, ended, owed, savedOwed, made, unseen, lost, counts>>

Left(i) == IF At(i, "routing") THEN flight[i].left ELSE 0

\* The process dies, with the attempts of the routes under way, the idempotency memory, and
\* the traces and debts not saved.
TracesRestart ==
  /\ counts.restarts < MaxTraceRestarts /\ counts' = [counts EXCEPT !.restarts = @ + 1]
  /\ traces' = saved /\ owed' = savedOwed
  /\ flight' = [i \in Calls |-> Idle] /\ ended' = {}
  /\ \E cut \in [Calls -> 0..AttemptBudget] :
       /\ \A i \in Calls : cut[i] <= Left(i)
       /\ made' = [i \in Calls |-> made[i] + cut[i]]
       /\ unseen' = [i \in Calls |-> unseen[i] + cut[i]
                       + (InvocationAttempts(traces, i) - InvocationAttempts(saved, i))]
  /\ UNCHANGED <<saved, savedOwed, usage, second, lost>>

TracesInit ==
  /\ traces = <<>> /\ saved = <<>> /\ usage = <<>> /\ ended = {} /\ lost = {}
  /\ flight = [i \in Calls |-> Idle] /\ owed = [i \in {} |-> 0] /\ savedOwed = owed
  /\ second = FirstSecond /\ made = [i \in Calls |-> 0] /\ unseen = made
  /\ counts = [asked |-> 0, restarts |-> 0]

TracesNext ==
  \/ \E i \in Calls : \/ \E r \in Refusals : Refuse(i, r)
                      \/ StartRoute(i)
                      \/ \E chain \in Chains : RouteDone(i, chain)
                      \/ \E tried \in 0..AttemptBudget : KiroLeaves(i, tried)
                      \/ StreamEnds(i) \/ RouteEnds(i) \/ Finish(i) \/ Recover(i)
  \/ \E cutoff \in FirstSecond..second : PruneTraces(cutoff)
  \/ Save \/ Pass \/ TracesRestart

TracesSpec == TracesInit /\ [][TracesNext]_traceVars

----------------------------------------------------------------------------
(* The panels, at any moment, over the traces of a period.                 *)

Since(start) == {n \in DOMAIN traces : traces[n].ts > start /\ traces[n].ts <= second}

Times(T, Is(_)) ==
  Cardinality(UNION {{n} \X (1..Occurrences(traces[n])) : n \in {k \in T : Is(traces[k])}})

Finished(t) == t.status # "in_progress"

\* A window of the activity: one cut short and charged is interrupted, not failed.
Activity(T) ==
  LET Asked(t) == Finished(t) /\ ~RefusedForCard(t) IN
  [requests |-> Times(T, Asked),
   succeeded |-> Times(T, LAMBDA t : Asked(t) /\ t.status = "success"),
   failed |-> Times(T, LAMBDA t : Asked(t) /\ t.status = "error" /\ ~InterruptedCharged(t)),
   aborted |-> Times(T, LAMBDA t : Asked(t) /\ t.status = "aborted"),
   refused |-> Times(T, RefusedForCard),
   interrupted |-> Times(T, InterruptedCharged)]

\* Mutant: a charged interruption counts among a model's failures.
EndedInError(t) == t.status = "error"

\* A failure of its model.
Failure(t) == t.status = "error" /\ ~InterruptedCharged(t)

\* One model's health; refusals are only listed beside its requests.
ModelHealth(T, model) ==
  LET Asked(t) == Finished(t) /\ ~RefusedForCard(t) /\ t.model = model
      listed == \E n \in T : Asked(traces[n])
  IN [requests |-> Times(T, Asked),
      failures |-> Times(T, LAMBDA t : Asked(t) /\ Failure(t)),
      refused |-> IF listed THEN Times(T, LAMBDA t : RefusedForCard(t) /\ t.model = model) ELSE 0,
      interrupted |-> Times(T, LAMBDA t : Asked(t) /\ InterruptedCharged(t))]

Providers == UNION {{chain[n].provider : n \in DOMAIN chain} : chain \in Chains}

\* One provider's attempts: the last one of a request refused for itself did right, and one
\* after which another provider answered was taken over.
ProviderAttempts(T, provider) ==
  LET Attempts == UNION {{<<n, k>> : k \in {j \in DOMAIN traces[n].chain :
                                           traces[n].chain[j].provider = provider}} : n \in T}
      Ok(a) == traces[a[1]].chain[a[2]].ok
      Right(a) == /\ RefusedForCard(traces[a[1]]) /\ a[2] = Len(traces[a[1]].chain) /\ ~Ok(a)
      TakenOver(a) == \E k \in a[2] + 1..Len(traces[a[1]].chain) :
        traces[a[1]].chain[k].ok /\ traces[a[1]].chain[k].provider # provider
      Number(Is(_)) == Cardinality({a \in Attempts : Is(a)})
  IN [attempts |-> Number(LAMBDA a : ~Right(a)),
      failures |-> Number(LAMBDA a : ~Right(a) /\ ~Ok(a)),
      takenOver |-> Number(LAMBDA a : ~Right(a) /\ ~Ok(a) /\ TakenOver(a)),
      refused |-> Number(Right)]

----------------------------------------------------------------------------
(* Properties.                                                             *)

\* However often a call is sent again, its upstream attempts stay within its budget, but for
\* those of routes that Kiro left or a crash cut short, and those whose traces a crash took
\* before they were saved: the traces count every other attempt, refused, failed or charged,
\* merged or not, as long as none of the call's traces was dropped; and they leave room for
\* what a route under way may still make, whatever has been traced since it began.
AttemptsWithinBudget ==
  \A i \in Calls \ lost :
    /\ made[i] = InvocationAttempts(traces, i) + unseen[i]
    /\ InvocationAttempts(traces, i) + Left(i) <= AttemptBudget

\* What the operator is shown a request was charged is what the ledger charged it, at the
\* same time, and the other way round, whatever was refused, retried, recovered late or lost
\* in a crash; only a trace that was dropped is missing.
ChargesAreTraced ==
  /\ \A n \in DOMAIN traces : traces[n].credits > 0 =>
       [call |-> traces[n].call, at |-> traces[n].ts, credits |-> traces[n].credits] \in Range(usage)
  /\ \A n \in DOMAIN usage : usage[n].call \notin lost =>
       /\ Summed(traces, LAMBDA t : IF t.call = usage[n].call THEN t.credits ELSE 0) = usage[n].credits
       /\ \E k \in DOMAIN traces :
            /\ Finished(traces[k]) /\ traces[k].call = usage[n].call
            /\ traces[k].ts = usage[n].at /\ traces[k].credits = usage[n].credits

\* The panels tell one story: the activity of a period is that of its models and of the
\* requests that named none, every request is counted under one outcome, and every attempt
\* of its providers once.
PanelsAgree ==
  \A T \in {Since(second - period) : period \in {Day, Week}} :
    LET all == Activity(T)
        nameless == Activity({n \in T : traces[n].model = Unknown})
        health == [m \in Range(ModelOf) |-> ModelHealth(T, m)]
        upstream == [p \in Providers |-> ProviderAttempts(T, p)]
        Named(f(_)) == MapThenSumSet(LAMBDA m : f(health[m]), Range(ModelOf))
        Upstream(f(_)) == MapThenSumSet(LAMBDA p : f(upstream[p]), Providers)
    IN /\ all.requests = Named(LAMBDA m : m.requests) + nameless.requests
       /\ all.failed = Named(LAMBDA m : m.failures) + nameless.failed
       /\ all.interrupted = Named(LAMBDA m : m.interrupted) + nameless.interrupted
       /\ all.refused >= Named(LAMBDA m : m.refused)
       /\ all.requests >= all.succeeded + all.failed + all.aborted
       /\ all.requests <= all.succeeded + all.failed + all.aborted + all.interrupted
       /\ Upstream(LAMBDA p : p.attempts + p.refused)
            = MapThenSumSet(LAMBDA n : Len(traces[n].chain), T)
       /\ Upstream(LAMBDA p : p.refused) <= all.refused
=============================================================================
