------------------------------- MODULE Providers -------------------------------
(* The way of a request to an upstream model: which key of which provider it   *)
(* tries, how often, what each answer does to the key, and what the request is *)
(* told when no key served it; beside the operator who edits the saved keys,   *)
(* from which the running pools are synced.                                    *)
(*                                                                             *)
(* governance.rs keeps one pool of keys per provider behind a mutex: choosing  *)
(* a key, asking whether one is left and recording an outcome are each atomic, *)
(* and everything between them interleaves. One request is followed through its*)
(* attempts; of all others only what they do to the keys is kept: which keys   *)
(* they have an attempt on, and the outcomes they record. Time only matters as *)
(* the rest a cooling key still has, so the clock is what wears these rests    *)
(* down. Upstream errors are grouped by what the code does with them.          *)
EXTENDS Integers, Sequences, TLC, Functions, FiniteSetsExt

CONSTANTS
  Keys, Providers, PoolOf,  \* keys, providers, and the provider of each key
  Weights,                  \* the routing weights the saved keys have at first
  Routes,                   \* routes of requests: sequences of providers, first choice first
  MaxAttempts,              \* upstream requests a request may spend (3)
  FreeFailures,             \* failures in a row before cooldowns double (4)
  Cooldown, MaxBackoff,     \* the first rest of a failed key, and the longest
  MaxDoublings,             \* how often a rest may double (10)
  Answers,                  \* the upstream outcomes an instance considers
  EditedKeys, Saves,        \* the keys the operator changes, and the changes of a
                            \* saved key considered: on or off, with a new secret or
                            \* not, and the weight
  MaxEdits,                 \* bound on the operator's changes
  MaxOthers                 \* bound on the attempts of other requests at a time

ASSUME BudgetAssumption == MaxAttempts \in Nat

ASSUME RoutesExist ==
  /\ PoolOf \in [Keys -> Providers]
  /\ Weights \in [Keys -> Nat \ {0}]
  /\ \A save \in Saves : save \in BOOLEAN \X BOOLEAN \X (Nat \ {0})
  /\ \A route \in Routes : route \in Seq(Providers) /\ Len(route) > 0

VARIABLES
  pool,      \* the running keys, by id; those not in its domain are not routed with
  serving,   \* the providers switched on in the running pools
  saved,     \* the saved keys, each on or off, its secret and weight, and providers on
  operator,  \* the console's handler, and what it is about
  edits,     \* how many changes the operator has made
  req,       \* the request's progress
  others,    \* the keys other requests have an attempt on, with the secret it uses
  barred,    \* history: keys whose secret was rejected since they were last reset
  heaviest   \* history: the greatest weight each key has been routed with

vars == <<pool, serving, saved, operator, edits, req, others, barred, heaviest>>

--------------------------------------------------------------------------------
(* What the code makes of an upstream's outcome.                               *)

\* ok: content, or a final empty answer; empty: an ordinary stop with nothing in
\* it; rejected: 401; account: 402 or 403; limited: 429; down: a server error, no
\* answer, a dropped stream; busy: a relay's passing failure or a timeout;
\* refusal: the request as it stands, or its model, refused; fatal: anything else.
Outcomes == {"ok", "empty", "rejected", "account", "limited", "down", "busy",
             "refusal", "fatal"}

IsCooldownError(o) == o \in {"rejected", "account", "limited", "down"}

WorthAnotherAttempt(o) == IsCooldownError(o) \/ o \in {"empty", "busy"}

OwnKeyProblem(o) == o \in {"rejected", "account", "limited"}

Lasting(o) == o \in {"refusal", "account", "rejected"}

\* Repeated with the same key, where the key has repetitions left.
Retryable(o) == o \in {"down", "busy", "empty"}

\* What a request's failures come to so far: none; retired keys only, which say
\* nothing to the customer; lasting ones; or one that may pass.
Worse(failures, o) ==
  IF failures = "passing" \/ ~Lasting(o) THEN "passing"
  ELSE IF failures = "lasting" \/ o # "rejected" THEN "lasting" ELSE "retired"

FinalRefusal(failures) == failures = "lasting"

--------------------------------------------------------------------------------
(* A provider's pool.                                                          *)

\* Of a key's health only whether it is unhealthy is kept: healthy and degraded ones
\* are chosen alike.
NewKey(s) == [enabled |-> s.enabled, secret |-> s.secret, weight |-> s.weight,
              unhealthy |-> FALSE, rest |-> 0, failures |-> 0, current |-> 0]

KeysOf(p) == {k \in DOMAIN pool : PoolOf[k] = p}

Selectable(k) == pool[k].enabled /\ ~pool[k].unhealthy

Eligible(p, exclude) ==
  {k \in KeysOf(p) \ exclude :
     p \in serving /\ Selectable(k) /\ pool[k].rest = 0}

HasEligibleKey(p, exclude) == Eligible(p, exclude) # {}

\* Smooth weighted round robin: each eligible key gains its weight, and the
\* chosen one, of the largest, pays all of them. (Of equals the code takes the
\* first; here any.)
Raised(k) == pool[k].current + pool[k].weight

Heaviest(eligible) == {k \in eligible : \A j \in eligible : Raised(j) <= Raised(k)}

\* MUTANT: the chosen key pays only its own weight.
WeightedByItself(eligible, chosen) ==
  [k \in DOMAIN pool |->
     [pool[k] EXCEPT !.current =
        IF k \notin eligible THEN @
        ELSE IF k = chosen THEN Raised(k) - pool[k].weight ELSE Raised(k)]]

Weighted(eligible, chosen) ==
  LET total == MapThenSumSet(LAMBDA k : pool[k].weight, eligible)
  IN [k \in DOMAIN pool |->
        [pool[k] EXCEPT !.current =
           IF k \notin eligible THEN @
           ELSE IF k = chosen THEN Raised(k) - total ELSE Raised(k)]]

Least(m, n) == IF m <= n THEN m ELSE n

Most(m, n) == IF m >= n THEN m ELSE n

\* Failures from one past the free ones on double the rest, up to a bound. They
\* are counted as far as the rest depends on them.
Backoff(failures) ==
  LET doublings == Least(Most(failures - FreeFailures, 0), MaxDoublings)
  IN Least(Cooldown * 2 ^ doublings, Most(MaxBackoff, Cooldown))

MarkKeyFailure(entry) ==
  LET failures == Least(entry.failures + 1, FreeFailures + MaxDoublings)
  IN [entry EXCEPT !.failures = failures, !.unhealthy = FALSE,
                   !.rest = Backoff(failures)]

MarkKeyUnhealthy(entry) == [entry EXCEPT !.unhealthy = TRUE, !.enabled = FALSE]

MarkKeySuccess(entry) ==
  [entry EXCEPT !.failures = 0, !.unhealthy = FALSE, !.rest = 0]

\* What the outcome of an attempt does to its key, wherever the key is by then.
Recorded(k, o) ==
  IF k \notin DOMAIN pool THEN pool
  ELSE [pool EXCEPT ![k] =
          CASE o = "ok" -> MarkKeySuccess(@)
            [] o = "rejected" -> MarkKeyUnhealthy(@)
            [] IsCooldownError(o) /\ o # "rejected" -> MarkKeyFailure(@)
            [] OTHER -> @]

--------------------------------------------------------------------------------
(* A request.                                                                  *)

\* `mixed` is a history: whether one of its upstream requests did not end empty.
Idle == [phase |-> "idle", route |-> <<>>, at |-> 1, tried |-> <<>>,
         refused |-> {}, left |-> 0, attempted |-> FALSE, key |-> "none",
         secret |-> 0, again |-> 0, failures |-> "none", emptied |-> FALSE,
         otherwise |-> FALSE, mixed |-> FALSE, told |-> "nothing"]

Chained == Len(req.route) > 1

Target == req.route[req.at]

AtLast == req.at = Len(req.route)

Init ==
  /\ saved = [keys |-> [k \in Keys |-> [enabled |-> TRUE, secret |-> 1,
                                        weight |-> Weights[k]]],
              on |-> Providers]
  /\ pool = [k \in Keys |-> NewKey(saved.keys[k])]
  /\ serving = Providers
  /\ operator = [phase |-> "idle"]
  /\ edits = 0
  /\ req = Idle
  /\ others = <<>>
  /\ barred = {}
  /\ heaviest = Weights

Arrive(route) ==
  /\ req.phase = "idle"
  /\ req' = [Idle EXCEPT !.phase = "choosing", !.route = route, !.left = MaxAttempts,
                         !.tried = [t \in DOMAIN route |-> {}]]
  /\ UNCHANGED <<pool, serving, saved, operator, edits, others, barred, heaviest>>

\* A selection, by the request or by another: under the pool's lock.
Select(eligible, k) ==
  /\ k \in Heaviest(eligible)
  /\ pool' = Weighted(eligible, k)

\* MUTANT: the attempts of a request are not counted.
OfferedForEver ==
  IF req.at \in req.refused THEN {} ELSE Eligible(Target, req.tried[req.at])

\* The keys the request may be given now. A target that refused the request is
\* not asked again, whatever its other keys.
Offered ==
  IF req.left = 0 \/ req.at \in req.refused THEN {}
  ELSE Eligible(Target, req.tried[req.at])

\* MUTANT: a lone key of a chain is repeated too.
RepetitionsInChain ==
  IF Cardinality(KeysOf(Target)) = 1 THEN MaxAttempts - 1 ELSE 0

\* Repetitions with the same key: a lone key gets those a pool would spend on its
\* other keys, but in a chain the other targets do.
Repetitions ==
  IF ~Chained /\ Cardinality(KeysOf(Target)) = 1 THEN MaxAttempts - 1 ELSE 0

Choose(k) ==
  /\ req.phase = "choosing"
  /\ Select(Offered, k)
  /\ req' = [req EXCEPT !.phase = "asking", !.key = k, !.secret = pool[k].secret,
                        !.tried[req.at] = @ \cup {k}, !.left = @ - 1,
                        !.attempted = TRUE, !.again = Repetitions]
  /\ UNCHANGED <<serving, saved, operator, edits, others, barred, heaviest>>

\* MUTANT: the passes over the chain go on while attempts are left.
NextTargetWhileLeft ==
  IF ~Chained \/ (AtLast /\ req.left = 0)
  THEN [req EXCEPT !.phase = "concluding"]
  ELSE IF AtLast THEN [req EXCEPT !.at = 1, !.attempted = FALSE]
       ELSE [req EXCEPT !.at = @ + 1]

\* No key to try at this target now: on to the next one, and from the top again
\* while a pass over the chain still tried something.
NextTarget ==
  IF ~Chained \/ (AtLast /\ (req.left = 0 \/ ~req.attempted))
  THEN [req EXCEPT !.phase = "concluding"]
  ELSE IF AtLast THEN [req EXCEPT !.at = 1, !.attempted = FALSE]
       ELSE [req EXCEPT !.at = @ + 1]

PassOver ==
  /\ req.phase = "choosing"
  /\ Offered = {}
  /\ req' = NextTarget
  /\ UNCHANGED <<pool, serving, saved, operator, edits, others, barred, heaviest>>

\* MUTANT: a failure forgets the empty attempts before it, not those after it.
NotedUntilEmpty(o) ==
  [req EXCEPT !.mixed = @ \/ o # "empty",
              !.emptied = IF o = "empty" THEN TRUE
                          ELSE IF o = "ok" THEN @ ELSE FALSE,
              !.otherwise = @ \/ o \notin {"ok", "empty"}]

\* What an upstream answer adds to the request's account of its attempts: an
\* empty one is kept to be billed, until any attempt failed otherwise.
Noted(o) ==
  [req EXCEPT !.mixed = @ \/ o # "empty",
              !.emptied = IF o = "empty" THEN ~req.otherwise
                          ELSE IF o = "ok" THEN @ ELSE FALSE,
              !.otherwise = @ \/ o \notin {"ok", "empty"}]

\* Where the request goes once its key has failed. In a chain the target's other
\* keys come first when the failure is the key's own, the next target otherwise.
AfterFailure(q, o) ==
  LET failed == [q EXCEPT !.failures = Worse(@, o), !.phase = "choosing",
                          !.key = "none", !.secret = 0, !.again = 0,
                          !.refused = IF o = "refusal" THEN @ \cup {q.at} ELSE @]
  IN IF ~Chained \/ OwnKeyProblem(o) THEN failed
     ELSE IF ~AtLast THEN [failed EXCEPT !.at = @ + 1]
     ELSE IF q.left = 0 THEN [failed EXCEPT !.phase = "concluding"]
     ELSE [failed EXCEPT !.at = 1, !.attempted = FALSE]

\* A request no key served is billed what its last empty attempt reported, if
\* the account of its attempts still holds one.
Ended(q, told) ==
  IF told # "served" /\ q.emptied THEN [Idle EXCEPT !.mixed = q.mixed, !.told = "billed"]
  ELSE [Idle EXCEPT !.told = told]

\* An outcome is recorded on the key, wherever the key is by then.
Record(k, secret, o) ==
  /\ pool' = Recorded(k, o)
  /\ barred' = IF o = "rejected" /\ k \in DOMAIN pool /\ secret = pool[k].secret
               THEN barred \cup {k} ELSE barred

\* The upstream answers, or a limit of the route answers for it; `late` says
\* whether the route's deadline, which the code compares with the clock, has
\* passed by then. A retryable failure is repeated with the same key first.
Answer(o, late) ==
  LET q == Noted(o)
      repeated == Retryable(o) /\ q.again > 0 /\ ~late
      goesOn == IF Chained THEN (WorthAnotherAttempt(o) \/ o = "refusal") /\ ~late
                ELSE WorthAnotherAttempt(o)
  IN
  /\ req.phase = "asking"
  /\ \/ /\ repeated
        /\ req' = [q EXCEPT !.again = @ - 1]
        /\ UNCHANGED <<pool, barred>>
     \/ /\ ~repeated
        /\ req' = IF o = "ok" THEN Ended(q, "served")
                  ELSE IF goesOn THEN AfterFailure(q, o) ELSE Ended(q, "refused")
        /\ Record(q.key, q.secret, o)
  /\ UNCHANGED <<serving, saved, operator, edits, others, heaviest>>

\* Every candidate failed. The refusal is final when no failure may pass and no
\* key is left that could be tried.
Conclude ==
  LET untried == \E t \in DOMAIN req.route \ req.refused :
                   HasEligibleKey(req.route[t], req.tried[t])
  IN
  /\ req.phase = "concluding"
  /\ req' = Ended(req, IF ~untried /\ FinalRefusal(req.failures) THEN "refused" ELSE "failed")
  /\ UNCHANGED <<pool, serving, saved, operator, edits, others, barred, heaviest>>

\* The request is dropped with its connection while the upstream has not
\* answered: that attempt leaves no outcome on its key.
Leave ==
  /\ req.phase = "asking"
  /\ req' = Idle
  /\ UNCHANGED <<pool, serving, saved, operator, edits, others, barred, heaviest>>

--------------------------------------------------------------------------------
(* The other requests, and the clock.                                          *)

\* Another request takes a key; it may have tried some of the pool's before.
OtherChooses(p, tried, k) ==
  /\ k \notin DOMAIN others /\ Cardinality(DOMAIN others) < MaxOthers
  /\ Select(Eligible(p, tried), k)
  /\ others' = others @@ (k :> pool[k].secret)
  /\ UNCHANGED <<serving, saved, operator, edits, req, barred, heaviest>>

\* Its attempt ends with an outcome, or without one.
OtherAnswered(k, o) ==
  /\ k \in DOMAIN others
  /\ Record(k, others[k], o)
  /\ others' = Restrict(others, DOMAIN others \ {k})
  /\ UNCHANGED <<serving, saved, operator, edits, req, heaviest>>

\* A second of the clock: cooling keys have less rest before them.
Tick ==
  /\ \E k \in DOMAIN pool : pool[k].rest > 0
  /\ pool' = [k \in DOMAIN pool |-> [pool[k] EXCEPT !.rest = Most(@ - 1, 0)]]
  /\ UNCHANGED <<serving, saved, operator, edits, req, others, barred, heaviest>>

--------------------------------------------------------------------------------
(* The operator's console, one handler at a time: a change is committed to the *)
(* saved state first, and the pools are synced from it after.                  *)

\* A key is saved on or off, with a new secret or the one it has, and a weight; a
\* new one needs its secret.
SaveKey(k, enabled, anew, weight) ==
  LET secret == IF anew THEN edits + 2 ELSE saved.keys[k].secret IN
  /\ anew \/ k \in DOMAIN saved.keys
  /\ saved' = [saved EXCEPT !.keys = (k :> [enabled |-> enabled, secret |-> secret,
                                            weight |-> weight]) @@ @]
  /\ operator' = [phase |-> "saved"]

\* An imported key, new or in the place of the one with its id, comes with its
\* provider, on and of weight 1, and is registered as it was imported, without a
\* sync.
ImportKey(k) ==
  LET entry == [enabled |-> TRUE, secret |-> edits + 2, weight |-> 1] IN
  /\ saved' = [keys |-> (k :> entry) @@ saved.keys, on |-> saved.on \cup {PoolOf[k]}]
  /\ operator' = [phase |-> "importing", key |-> k, entry |-> entry]

DeleteKey(k) ==
  /\ k \in DOMAIN saved.keys
  /\ saved' = [saved EXCEPT !.keys = Restrict(@, DOMAIN @ \ {k})]
  /\ operator' = [phase |-> "saved"]

SwitchProvider(p) ==
  /\ saved' = [saved EXCEPT !.on = IF p \in @ THEN @ \ {p} ELSE @ \cup {p}]
  /\ operator' = [phase |-> "saved"]

\* A reset first syncs the registry, so that a key retired and switched off in
\* its pool is on again if it is saved so.
AskReset(k) ==
  /\ k \in DOMAIN saved.keys
  /\ operator' = [phase |-> "saved", reset |-> k]
  /\ UNCHANGED saved

Edit ==
  /\ operator.phase = "idle"
  /\ edits < MaxEdits
  /\ edits' = edits + 1
  /\ \/ \E k \in EditedKeys :
          \/ \E save \in Saves : SaveKey(k, save[1], save[2], save[3])
          \/ ImportKey(k)
          \/ DeleteKey(k)
          \/ AskReset(k)
     \/ \E p \in Providers : SwitchProvider(p)
  /\ UNCHANGED <<pool, serving, req, others, barred, heaviest>>

\* A running key keeps its health and its rest as long as its secret is the same,
\* and its place in the round robin in any case: what it has gained or owes by its
\* old weight stays when it gets another.
AddKey(k, s) ==
  IF k \notin DOMAIN pool THEN NewKey(s)
  ELSE LET taken == [pool[k] EXCEPT !.enabled = s.enabled, !.weight = s.weight]
       IN IF pool[k].secret = s.secret THEN taken
          ELSE [taken EXCEPT !.secret = s.secret, !.unhealthy = FALSE, !.rest = 0]

\* The pools take over `keys`.
PoolsBecome(keys) ==
  /\ pool' = [k \in DOMAIN keys |-> AddKey(k, keys[k])]
  /\ barred' = {k \in barred \cap DOMAIN keys : keys[k].secret = pool[k].secret}
  /\ heaviest' = [k \in Keys |-> IF k \in DOMAIN keys THEN Most(heaviest[k], keys[k].weight)
                                  ELSE heaviest[k]]

SyncFromBilling ==
  /\ operator.phase = "saved"
  /\ PoolsBecome(saved.keys)
  /\ serving' = saved.on
  /\ operator' = IF "reset" \in DOMAIN operator
                 THEN [phase |-> "resetting", reset |-> operator.reset]
                 ELSE [phase |-> "idle"]
  /\ UNCHANGED <<saved, edits, req, others>>

Register ==
  /\ operator.phase = "importing"
  /\ PoolsBecome([k \in DOMAIN pool \cup {operator.key} |->
                    IF k = operator.key THEN operator.entry
                    ELSE [enabled |-> pool[k].enabled, secret |-> pool[k].secret,
                          weight |-> pool[k].weight]])
  /\ serving' = serving \cup {PoolOf[operator.key]}
  /\ operator' = [phase |-> "idle"]
  /\ UNCHANGED <<saved, edits, req, others>>

ResetKey ==
  /\ operator.phase = "resetting"
  /\ LET k == operator.reset IN
     /\ pool' = IF k \in DOMAIN pool THEN [pool EXCEPT ![k] = MarkKeySuccess(@)] ELSE pool
     /\ barred' = barred \ {k}
  /\ operator' = [phase |-> "idle"]
  /\ UNCHANGED <<serving, saved, edits, req, others, heaviest>>

Next ==
  \/ \E route \in Routes : Arrive(route)
  \/ \E k \in Keys : Choose(k)
  \/ PassOver
  \/ \E o \in Answers, late \in BOOLEAN : Answer(o, late)
  \/ Conclude
  \/ Leave
  \/ \E p \in Providers : \E tried \in SUBSET Keys, k \in Keys : OtherChooses(p, tried, k)
  \/ \E k \in Keys, o \in Answers : OtherAnswered(k, o)
  \/ Tick
  \/ Edit
  \/ SyncFromBilling
  \/ Register
  \/ ResetKey

\* A request's task runs, and every upstream attempt is answered or timed out.
Progress ==
  /\ req.phase # "idle"
  /\ UNCHANGED <<serving, saved, operator, edits, others, heaviest>>
  /\ \/ \E o \in Answers, late \in BOOLEAN : Answer(o, late)
     \/ \E k \in Keys : Choose(k)
     \/ PassOver
     \/ Conclude

Spec == Init /\ [][Next]_vars /\ WF_vars(Progress)

--------------------------------------------------------------------------------
(* Properties.                                                                 *)

\* The variables have the shape the code's types give them. A key in use has been
\* recorded as tried, and the running keys were all saved once.
TypeOK ==
  /\ DOMAIN pool \subseteq Keys /\ DOMAIN saved.keys \subseteq Keys
  /\ serving \subseteq Providers /\ saved.on \subseteq Providers
  /\ \A k \in DOMAIN pool :
       /\ pool[k].unhealthy \in BOOLEAN
       /\ pool[k].rest \in 0..Most(Cooldown, MaxBackoff)
       /\ pool[k].current \in Int /\ pool[k].weight \in 1..heaviest[k]
  /\ DOMAIN others \subseteq Keys
  /\ req.phase \in {"idle", "choosing", "asking", "concluding"}
  /\ req.left \in 0..MaxAttempts
  /\ req.phase = "asking" => req.key \in req.tried[req.at]

\* However the keys of a pool cool down, recover, are excluded by requests that
\* tried them and are edited, no key's claim to the next selection, nor its debt
\* for past ones, outgrows what the keys of its pool weigh, each at the greatest
\* weight it was routed with: no absence lets a key take more than a round of those
\* weights in a row, nor keeps it waiting longer. (Not of the weights they have
\* now: what was gained or owed by a weight is kept when an operator lowers it.)
SharesStayBounded ==
  \A k \in DOMAIN pool :
    LET total == MapThenSumSet(LAMBDA j : heaviest[j], {j \in Keys : PoolOf[j] = PoolOf[k]})
    IN pool[k].current \in -total..total

\* A request that no key served is billed for its input only if every one of its
\* attempts, over all keys, targets and repetitions, ended empty.
EmptyBilledOnlyIfAllEmpty == req.told = "billed" => ~req.mixed

\* A request is always answered: neither a chain nor a pool whose keys come and go
\* keeps it choosing for ever.
RequestsEnd == req.phase # "idle" ~> req.phase = "idle"

\* What the console says of a key the upstream rejected: "left out until reset or
\* its secret changes".
RejectedStaysOut ==
  \A k \in DOMAIN pool \cap barred : ~Selectable(k)
================================================================================
