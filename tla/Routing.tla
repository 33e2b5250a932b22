------------------------------- MODULE Routing -------------------------------
(***************************************************************************)
(* Complexity routing (complexity_routing.rs of billing and of the         *)
(* gateway): before a request is routed a paid classifier may be asked     *)
(* whether its task is simple, within a daily budget, and a simple task    *)
(* may go to cheaper providers. The decision is saved before the           *)
(* classifier is asked and frozen once made: a retry of the invocation,    *)
(* also after a crash, gets the decision there is and asks nothing.        *)
(*                                                                         *)
(* One model with one policy, one conversation. Chains are sets: their     *)
(* order, and which provider of the chain answers, are the failover's.     *)
(* Whether the classifier can be asked at all (its provider, its slots,    *)
(* its circuit breaker) is a free choice. A crash ends every attempt that  *)
(* is under way, as each may end by itself: all else is saved.             *)
(***************************************************************************)
EXTENDS Integers, SequencesExt

CONSTANTS
  Requests,        \* invocations, and previews of operators
  Kind,            \* [Requests -> what its input is: see Kinds]
  Previews,        \* the requests that are previews
  Candidates,      \* the providers, as sets, a request may be eligible for
  Policies,        \* policies published: mode and the two chains
  Reserve,         \* the most a classification can cost
  Costs,           \* what it may turn out to cost
  DailyCalls, DailyBudget,
  MaxDecisions,    \* decisions kept (20,000)
  Retention,       \* days a decision is kept (7)
  MaxPublications, LastDay, MaxRetries   \* bounds

Kinds == {"plain", "attached", "continuation", "long"}

ASSUME RoutingAssumption ==
  /\ Kind \in [Requests -> Kinds] /\ Costs \subseteq 0..Reserve
  /\ DailyCalls \in Nat /\ DailyBudget \in Nat /\ Reserve \in Nat \ {0} /\ Retention \in Nat

VARIABLES
  decisions,   \* saved: by invocation, the decision there is
  budget,      \* saved: the day, its calls and their cost, reserved or final
  policies,    \* saved: every policy published so far, the last one in force
  tasks,       \* each request: where its attempt is, what it has read and drafted
  today,
  retries,
  asked,       \* history: the calls made, with what each cost
  served       \* history: who served what, by which decision

routingVars == <<decisions, budget, policies, tasks, today, retries, asked, served>>

Revision == Len(policies)

\* MUTANT: a decision still pending, its call lost with its attempt, does not count.
FinalDecision(r) == r \in DOMAIN decisions /\ ~decisions[r].pending

\* There is a decision for the invocation: it stands, pending or not.
Known(r) == r \in DOMAIN decisions

Is(r, pc) == tasks[r].pc = pc

NoAttempt(pc) == [pc |-> pc, eligible |-> {}, draft |-> "none"]

Routed(r, d) == tasks' = [tasks EXCEPT ![r].pc = "routed", ![r].draft = d]

----------------------------------------------------------------------------
(* The draft: everything up to the first save.                             *)

\* MUTANT: the decision followed may be of an earlier policy.
InheritableOnce(d) == d.mode = Last(policies).mode

\* A continuation may follow a decision made under the policy in force.
Inheritable(d) == d.mode = Last(policies).mode /\ d.revision = Revision

\* The conversation's last decision, if it may be followed: the last within 24 hours,
\* which days tell apart only so far.
Previous ==
  LET found == {d \in {decisions[q] : q \in DOMAIN decisions} :
                  ~d.pending /\ ~d.preview /\ d.day \in {today - 1, today}}
  IN {d \in found : (\A e \in found : e.day <= d.day) /\ Inheritable(d)}

Draft(r, eligible) ==
  [complexity |-> "unknown", chain |-> Last(policies).complex \cap eligible,
   revision |-> Revision, mode |-> Last(policies).mode, day |-> today,
   preview |-> r \in Previews, pending |-> FALSE, cost |-> 0, served |-> "none"]

\* What is drafted without a classifier, and the draft that would ask it.
Drafts(r, eligible) ==
  LET d == Draft(r, eligible) IN
  IF d.chain = {} \/ d.mode = "off" THEN {d}
  ELSE CASE Kind[r] = "attached" -> {[d EXCEPT !.complexity = "complex"]}
         [] Kind[r] = "continuation" ->
              {d} \cup {[d EXCEPT !.complexity = p.complexity, !.chain = p.chain \cap eligible] :
                          p \in {q \in Previous : q.chain \cap eligible # {}}}
         [] Kind[r] = "long" -> {d}
         [] Kind[r] = "plain" -> {d, [d EXCEPT !.pending = TRUE]}

\* A known invocation is answered with its decision; otherwise one is drafted on the
\* policy in force.
Consult(r) ==
  /\ Is(r, "new")
  /\ \E eligible \in Candidates :
       IF Known(r)
       THEN tasks' = [tasks EXCEPT ![r] =
              [pc |-> "routed", eligible |-> eligible, draft |-> decisions[r]]]
       ELSE \E d \in Drafts(r, eligible) :
              tasks' = [tasks EXCEPT ![r] =
                [pc |-> "drafted", eligible |-> eligible, draft |-> d]]
  /\ UNCHANGED <<decisions, budget, policies, today, retries, asked, served>>

----------------------------------------------------------------------------
(* The reservation, the call, the result.                                  *)

Retained(day) ==
  [r \in {q \in DOMAIN decisions : day - decisions[q].day <= Retention} |-> decisions[r]]

BudgetOf(day) ==
  IF budget.day = day THEN budget ELSE [day |-> day, calls |-> 0, cost |-> 0]

Affordable(day) ==
  BudgetOf(day).calls < DailyCalls /\ Reserve <= DailyBudget - BudgetOf(day).cost

WithDecision(r, d) ==
  [q \in DOMAIN Retained(d.day) \cup {r} |-> IF q = r THEN d ELSE decisions[q]]

CallClassifier(r) ==
  /\ tasks' = [tasks EXCEPT ![r].pc = "asking"]
  /\ asked' = Append(asked, [of |-> r, day |-> tasks[r].draft.day, cost |-> Reserve])

\* The decision there is is taken. A draft that asks the classifier reserves the most the
\* call can cost, or does without it; with the decisions at their limit none is asked and
\* none is saved.
BeginRoutingDecision(r) ==
  LET d == tasks[r].draft
      kept == Retained(d.day)
      claimed == d.pending /\ Affordable(d.day)
      final == [d EXCEPT !.pending = FALSE]
  IN
  /\ Is(r, "drafted")
  /\ IF Known(r) /\ r \in DOMAIN kept
     THEN Routed(r, decisions[r]) /\ UNCHANGED <<decisions, budget, asked>>
     ELSE /\ d.revision = Revision
          /\ d.pending => budget.day <= d.day
          /\ IF Cardinality(DOMAIN kept) >= MaxDecisions
             THEN Routed(r, final) /\ UNCHANGED <<decisions, budget, asked>>
             ELSE IF claimed
             THEN /\ decisions' = WithDecision(r, [d EXCEPT !.cost = Reserve])
                  /\ budget' = [BudgetOf(d.day) EXCEPT !.calls = @ + 1, !.cost = @ + Reserve]
                  /\ CallClassifier(r)
             ELSE /\ decisions' = WithDecision(r, final)
                  /\ budget' = IF d.pending THEN BudgetOf(d.day) ELSE budget
                  /\ Routed(r, final) /\ UNCHANGED asked
  /\ UNCHANGED <<policies, today, retries, served>>

\* MUTANT: a result that comes late is settled with the day that has begun.
BudgetLate(d, cost) == [budget EXCEPT !.cost = IF @ > d.cost THEN @ - d.cost + cost ELSE cost]

\* The cost of a final decision replaces its reservation, on the day it was made.
FinalBudget(d, cost) ==
  IF budget.day = d.day THEN [budget EXCEPT !.cost = @ - d.cost + cost] ELSE budget

\* What a result makes of a decision: a simple task may have the cheap chain; what the
\* classifier cannot tell keeps its reservation.
Concluded(r, d, complexity, cost) ==
  LET cheap == policies[d.revision].simple \cap tasks[r].eligible IN
  [d EXCEPT !.pending = FALSE, !.complexity = complexity,
            !.chain = IF complexity = "simple" /\ cheap # {} THEN cheap ELSE @,
            !.cost = IF complexity = "unknown" THEN @ ELSE cost]

\* A decision that was dropped meanwhile, or is no longer pending, is not changed.
FinishRoutingDecision(r, complexity, cost) ==
  /\ r \in DOMAIN decisions
  /\ LET final == Concluded(r, decisions[r], complexity, cost) IN
     IF decisions[r].pending
     THEN /\ decisions' = [decisions EXCEPT ![r] = final]
          /\ budget' = FinalBudget(decisions[r], final.cost)
          /\ Routed(r, final)
     ELSE Routed(r, decisions[r]) /\ UNCHANGED <<decisions, budget>>

\* The classifier answers, with or without its usage: what is not told costs the most.
Classified(r, complexity, cost) ==
  /\ Is(r, "asking")
  /\ \E told \in {cost, Reserve} : FinishRoutingDecision(r, complexity, told)
  /\ LET mine == {n \in DOMAIN asked : asked[n].of = r} IN
     asked' = [asked EXCEPT ![CHOOSE n \in mine : \A m \in mine : m <= n].cost = cost]
  /\ UNCHANGED <<policies, today, retries, served>>

\* It fails or is too slow: what it costs is not known.
ClassifierFails(r) ==
  /\ Is(r, "asking")
  /\ FinishRoutingDecision(r, "unknown", Reserve)
  /\ UNCHANGED <<policies, today, retries, asked, served>>

----------------------------------------------------------------------------
(* The route.                                                              *)

\* The providers a decision leaves.
ApplyDecision(r) ==
  LET d == tasks[r].draft IN
  IF d.mode = "enforce" THEN d.chain \cap tasks[r].eligible ELSE tasks[r].eligible

\* A provider answers, and is recorded with the decision if it is final and has none.
Route(r, provider) ==
  /\ Is(r, "routed") /\ r \notin Previews
  /\ provider \in ApplyDecision(r)
  /\ LET d == tasks[r].draft IN
     served' = served \cup {[by |-> provider, complexity |-> d.complexity,
                             mode |-> d.mode, revision |-> d.revision]}
  /\ decisions' = IF /\ Known(r)
                     /\ ~decisions[r].pending /\ decisions[r].served = "none"
                     /\ decisions[r].mode # "observe" => provider \in decisions[r].chain
                  THEN [decisions EXCEPT ![r].served = provider] ELSE decisions
  /\ tasks' = [tasks EXCEPT ![r] = NoAttempt("over")]
  /\ UNCHANGED <<budget, policies, today, retries, asked>>

\* Refused, failed, given up by the client or cut by a crash: while the classifier is
\* asked, its decision stays pending, and is neither asked for again nor refunded.
GivesUp(r) ==
  /\ ~Is(r, "new") /\ ~Is(r, "over")
  /\ tasks' = [tasks EXCEPT ![r] = NoAttempt("over")]
  /\ UNCHANGED <<decisions, budget, policies, today, retries, asked, served>>

\* An invocation whose attempt is over is sent again.
Retry(r) ==
  /\ Is(r, "over") /\ retries < MaxRetries
  /\ retries' = retries + 1
  /\ tasks' = [tasks EXCEPT ![r] = NoAttempt("new")]
  /\ UNCHANGED <<decisions, budget, policies, today, asked, served>>

----------------------------------------------------------------------------
(* Around them.                                                            *)

PublishComplexityRouting(policy) ==
  /\ Revision <= MaxPublications
  /\ policies' = Append(policies, policy)
  /\ decisions' = Retained(today)
  /\ UNCHANGED <<budget, tasks, today, retries, asked, served>>

NextDay ==
  /\ today < LastDay
  /\ today' = today + 1
  /\ UNCHANGED <<decisions, budget, policies, tasks, retries, asked, served>>

----------------------------------------------------------------------------

RoutingInit ==
  /\ decisions = [r \in {} |-> 0]
  /\ budget = [day |-> 0, calls |-> 0, cost |-> 0]
  /\ policies \in {<<policy>> : policy \in Policies}
  /\ tasks = [r \in Requests |-> NoAttempt("new")]
  /\ today = 1 /\ retries = 0 /\ asked = <<>> /\ served = {}

RoutingNext ==
  \/ \E r \in Requests :
       \/ Consult(r) \/ BeginRoutingDecision(r) \/ ClassifierFails(r)
       \/ GivesUp(r) \/ Retry(r)
       \/ \E complexity \in {"simple", "complex", "unknown"}, cost \in Costs :
            Classified(r, complexity, cost)
       \/ \E eligible \in Candidates : \E provider \in eligible : Route(r, provider)
  \/ \E policy \in Policies : PublishComplexityRouting(policy)
  \/ NextDay

RoutingSpec == RoutingInit /\ [][RoutingNext]_routingVars

----------------------------------------------------------------------------
(* Properties.                                                             *)

\* While its decision is kept an invocation is asked about once, whatever crashes, gives
\* up or is retried in between; and no day has more calls, or spends more on them, than
\* its budget allows, when a result comes the day after as when it never comes.
ClassifierWithinBudget ==
  /\ \A n, m \in DOMAIN asked :
       n < m /\ asked[n].of = asked[m].of => asked[m].day - asked[n].day > Retention
  /\ \A day \in {asked[n].day : n \in DOMAIN asked} :
       LET calls == {n \in DOMAIN asked : asked[n].day = day}
           spent == MapThenSumSet(LAMBDA n : asked[n].cost, calls)
       IN /\ Cardinality(calls) <= DailyCalls /\ spent <= DailyBudget
          /\ budget.day = day => spent <= budget.cost

\* Where routing is enforced, a provider outside the conservative chain of its policy
\* serves a task only if a classifier called that task, or the one it continues under the
\* same policy, simple: not one it could not tell, one still pending after a crash, or
\* one decided under another policy.
CheapOnlyIfSimple ==
  \A s \in served :
    s.mode = "enforce" /\ s.by \notin policies[s.revision].complex =>
      s.complexity = "simple" /\ s.by \in policies[s.revision].simple
=============================================================================
