--------------------------- MODULE ProvidersProofs ---------------------------
(* What a request that no key served is billed, for any keys, routes, bounds   *)
(* and answers.                                                                *)
(*                                                                             *)
(* The request only keeps whether its last attempt to end empty may be billed, *)
(* and whether an attempt failed otherwise. While it is under way these two    *)
(* and the history of all its attempts agree, whatever targets, keys and       *)
(* repetitions the attempts were spent on, and it has been told nothing; that  *)
(* it stands at a target of its route within its budget is what lets every     *)
(* step be followed.                                                           *)
EXTENDS Providers, TLAPS

Phases == {"idle", "choosing", "asking", "concluding"}

Told == {"nothing", "served", "billed", "refused", "failed"}

\* What a request is, but for the value of its key's secret.
Requests(secret) ==
  [phase : Phases, route : Seq(Providers), at : Nat, tried : Seq(SUBSET Keys),
   refused : SUBSET Nat, left : 0..MaxAttempts, attempted : BOOLEAN,
   key : Keys \cup {"none"}, secret : {secret}, again : Int,
   failures : {"none", "retired", "lasting", "passing"},
   emptied : BOOLEAN, otherwise : BOOLEAN, mixed : BOOLEAN, told : Told]

WellFormed(q) == q \in Requests(q.secret)

\* It stands at a target of its route, with a set of keys tried for each.
OnRoute(q) == q.at \in DOMAIN q.route /\ Len(q.tried) = Len(q.route)

\* The account a request under way keeps of its attempts is that of all of them.
Accounted(q) ==
  /\ q.told = "nothing"
  /\ q.otherwise = q.mixed
  /\ q.emptied => ~q.otherwise

UnderWay(q) == WellFormed(q) /\ OnRoute(q) /\ Accounted(q)

RequestOK ==
  /\ WellFormed(req)
  /\ req.phase # "idle" => UnderWay(req)
  /\ EmptyBilledOnlyIfAllEmpty

--------------------------------------------------------------------------------
(* Steps of the request.                                                       *)

\* A request not yet begun is well formed.
LEMMA IdleIsRequest ==
  /\ \A told \in Told, mixed \in BOOLEAN :
       WellFormed([Idle EXCEPT !.mixed = mixed, !.told = told])
  /\ \A told \in Told : WellFormed([Idle EXCEPT !.told = told])
  /\ WellFormed(Idle)
  <1>1. WellFormed(Idle)
    BY BudgetAssumption DEF WellFormed, Requests, Idle, Phases, Told
  <1> QED BY <1>1 DEF WellFormed, Requests

\* A request that ends is billed for empty attempts only if all were empty.
LEMMA EndedIsRight ==
  ASSUME NEW q, WellFormed(q), q.otherwise = q.mixed, q.emptied => ~q.otherwise,
         NEW told \in Told \ {"billed"},
         req' = Ended(q, told)
  PROVE  RequestOK'
  <1>0. q.mixed \in BOOLEAN
    BY DEF WellFormed, Requests
  <1>1. CASE told # "served" /\ q.emptied
    <2>1. req' = [Idle EXCEPT !.mixed = q.mixed, !.told = "billed"]
      BY <1>1 DEF Ended
    <2>2. WellFormed(req')
      BY <2>1, <1>0, IdleIsRequest DEF Told
    <2>3. req'.phase = "idle" /\ req'.mixed = q.mixed
      BY <2>1 DEF Idle
    <2>4. ~q.mixed
      BY <1>1
    <2> QED BY <2>2, <2>3, <2>4 DEF RequestOK, EmptyBilledOnlyIfAllEmpty
  <1>2. CASE ~(told # "served" /\ q.emptied)
    <2>1. req' = [Idle EXCEPT !.told = told]
      BY <1>2 DEF Ended
    <2>3. WellFormed(req')
      BY <2>1, IdleIsRequest
    <2>4. req'.phase = "idle" /\ req'.told # "billed"
      BY <2>1 DEF Idle, Told
    <2> QED BY <2>3, <2>4 DEF RequestOK, EmptyBilledOnlyIfAllEmpty
  <1> QED BY <1>1, <1>2

\* Served, a request is told so whatever came before.
LEMMA ServedIsRight ==
  ASSUME NEW q, req' = Ended(q, "served")
  PROVE  RequestOK'
  <1>1. req' = [Idle EXCEPT !.told = "served"]
    BY DEF Ended
  <1>2. WellFormed(req')
    BY <1>1, IdleIsRequest DEF Told
  <1>3. req'.phase = "idle" /\ req'.told = "served"
    BY <1>1 DEF Idle
  <1> QED BY <1>2, <1>3 DEF RequestOK, EmptyBilledOnlyIfAllEmpty

\* A request under way with its next step taken is still right.
LEMMA StillRight ==
  ASSUME UnderWay(req')
  PROVE  RequestOK'
  BY DEF RequestOK, UnderWay, Accounted, EmptyBilledOnlyIfAllEmpty

\* A request arrives with its whole route ahead of it.
LEMMA ArriveStep ==
  ASSUME NEW route \in Routes, Arrive(route)
  PROVE  RequestOK'
  <1> DEFINE new == [Idle EXCEPT !.phase = "choosing", !.route = route, !.left = MaxAttempts,
                                 !.tried = [t \in DOMAIN route |-> {}]]
  <1>1. req' = new
    BY DEF Arrive
  <1>2. route \in Seq(Providers) /\ Len(route) > 0
    BY RoutesExist
  <1>3. [t \in DOMAIN route |-> {}] \in Seq(SUBSET Keys)
    BY <1>2
  <1>4. WellFormed(new)
    <2>1. \A q : WellFormed(q) => \A r \in Seq(Providers), left \in 0..MaxAttempts,
            tried \in Seq(SUBSET Keys) :
              WellFormed([q EXCEPT !.phase = "choosing", !.route = r, !.left = left,
                                   !.tried = tried])
      <3>1. \A q : WellFormed(q) => \A r \in Seq(Providers) :
              WellFormed([q EXCEPT !.phase = "choosing", !.route = r])
        BY DEF WellFormed, Requests, Phases
      <3>2. \A q : WellFormed(q) => \A left \in 0..MaxAttempts, tried \in Seq(SUBSET Keys) :
              WellFormed([q EXCEPT !.left = left, !.tried = tried])
        BY DEF WellFormed, Requests
      <3>3. ASSUME NEW q, WellFormed(q), NEW r \in Seq(Providers), NEW left \in 0..MaxAttempts,
                   NEW tried \in Seq(SUBSET Keys)
            PROVE  WellFormed([q EXCEPT !.phase = "choosing", !.route = r, !.left = left,
                                        !.tried = tried])
        <4>1. PICK q1 : q1 = [q EXCEPT !.phase = "choosing", !.route = r]
          OBVIOUS
        <4>2. [q EXCEPT !.phase = "choosing", !.route = r, !.left = left, !.tried = tried]
                = [q1 EXCEPT !.left = left, !.tried = tried]
          BY <3>3, <4>1 DEF WellFormed, Requests
        <4> QED BY <3>1, <3>2, <3>3, <4>1, <4>2
      <3> QED BY <3>3
    <2>2. MaxAttempts \in 0..MaxAttempts
      BY BudgetAssumption
    <2> QED BY <1>2, <1>3, <2>1, <2>2, IdleIsRequest
  <1>5. OnRoute(new)
    BY <1>2 DEF OnRoute, Idle
  <1>6. Accounted(new)
    BY DEF Accounted, Idle
  <1> QED BY <1>1, <1>4, <1>5, <1>6, StillRight DEF UnderWay

\* A key is only offered while the budget lasts, and of the target's pool.
LEMMA OfferedKey ==
  ASSUME UnderWay(req), NEW k \in Heaviest(Offered)
  PROVE  k \in Offered /\ req.left > 0
  BY DEF Heaviest, Offered, UnderWay, WellFormed, Requests

\* A key chosen is one not tried before at its place on the route.
LEMMA ChooseStep ==
  ASSUME NEW k \in Keys, Choose(k), UnderWay(req)
  PROVE  RequestOK'
  <1> DEFINE tried == [req.tried EXCEPT ![req.at] = @ \cup {k}]
  <1>1. /\ req \in Requests(req.secret)
        /\ req.at \in DOMAIN req.tried
        /\ Accounted(req)
    BY DEF UnderWay, WellFormed, OnRoute, Requests
  <1>2. req.left > 0
    BY OfferedKey DEF Choose, Select
  <1>3. tried \in Seq(SUBSET Keys) /\ Len(tried) = Len(req.tried)
    BY <1>1 DEF Requests
  <1>4. Repetitions \in Int
    BY BudgetAssumption DEF Repetitions
  <1>5. req' = [req EXCEPT !.phase = "asking", !.key = k, !.secret = pool[k].secret,
                           !.tried = tried, !.left = @ - 1,
                           !.attempted = TRUE, !.again = Repetitions]
    BY <1>1 DEF Choose, Requests
  <1> HIDE DEF tried
  <1>6. req.left - 1 \in 0..MaxAttempts
    BY <1>1, <1>2, BudgetAssumption DEF Requests
  <1>7. WellFormed(req')
    BY <1>1, <1>3, <1>4, <1>5, <1>6 DEF WellFormed, Requests, Phases
  <1>8. OnRoute(req')
    BY <1>1, <1>3, <1>5 DEF OnRoute, Requests, UnderWay
  <1>9. Accounted(req')
    BY <1>1, <1>5 DEF Accounted, Requests
  <1> QED BY <1>7, <1>8, <1>9, StillRight DEF UnderWay

\* Along its route a request only moves to targets of it.
LEMMA MovesAlong ==
  ASSUME NEW q, UnderWay(q)
  PROVE  /\ UnderWay([q EXCEPT !.phase = "concluding"])
         /\ \A at \in DOMAIN q.route :
              /\ UnderWay([q EXCEPT !.at = at])
              /\ UnderWay([q EXCEPT !.at = at, !.attempted = FALSE])
  <1>1. q \in Requests(q.secret) /\ OnRoute(q) /\ Accounted(q)
    BY DEF UnderWay, WellFormed
  <1>2. UnderWay([q EXCEPT !.phase = "concluding"])
    BY <1>1 DEF UnderWay, WellFormed, Requests, Phases, OnRoute, Accounted
  <1>3. ASSUME NEW at \in DOMAIN q.route
        PROVE  /\ UnderWay([q EXCEPT !.at = at])
               /\ UnderWay([q EXCEPT !.at = at, !.attempted = FALSE])
    <2>1. at \in Nat
      BY <1>1 DEF Requests
    <2>2. /\ WellFormed([q EXCEPT !.at = at])
          /\ WellFormed([q EXCEPT !.at = at, !.attempted = FALSE])
      BY <1>1, <2>1 DEF WellFormed, Requests
    <2>3. /\ OnRoute([q EXCEPT !.at = at]) /\ Accounted([q EXCEPT !.at = at])
          /\ OnRoute([q EXCEPT !.at = at, !.attempted = FALSE])
          /\ Accounted([q EXCEPT !.at = at, !.attempted = FALSE])
      BY <1>1 DEF OnRoute, Accounted, Requests
    <2> QED BY <2>2, <2>3 DEF UnderWay
  <1> QED BY <1>2, <1>3

\* The targets a request may move to from where it stands.
LEMMA TargetsAhead ==
  ASSUME NEW q, UnderWay(q), q.at = req.at, q.route = req.route
  PROVE  1 \in DOMAIN q.route /\ (~AtLast => q.at + 1 \in DOMAIN q.route)
  BY DEF UnderWay, WellFormed, OnRoute, AtLast, Requests

\* A provider is passed over for the next, for another round, or for good.
LEMMA PassOverStep ==
  ASSUME PassOver, UnderWay(req)
  PROVE  RequestOK'
  <1>1. \/ req' = [req EXCEPT !.phase = "concluding"]
        \/ req' = [req EXCEPT !.at = 1, !.attempted = FALSE]
        \/ ~AtLast /\ req' = [req EXCEPT !.at = req.at + 1]
    BY DEF PassOver, NextTarget
  <1>2. PICK next : next = req.at + 1
    OBVIOUS
  <1>3. 1 \in DOMAIN req.route /\ (~AtLast => next \in DOMAIN req.route)
    BY <1>2, TargetsAhead
  <1>4. UnderWay(req')
    <2>1. CASE req' = [req EXCEPT !.phase = "concluding"]
      BY <2>1, MovesAlong
    <2>2. CASE req' = [req EXCEPT !.at = 1, !.attempted = FALSE]
      BY <1>3, <2>2, MovesAlong
    <2>3. CASE ~AtLast /\ req' = [req EXCEPT !.at = next]
      BY <1>3, <2>3, MovesAlong
    <2> QED BY <1>1, <1>2, <2>1, <2>2, <2>3
  <1> QED BY <1>4, StillRight

\* What an answer adds keeps the account that of all the attempts, but for the
\* one that serves the request.
LEMMA NotedKeeps ==
  ASSUME UnderWay(req), NEW o
  PROVE  /\ Noted(o) \in Requests(req.secret)
         /\ Noted(o).secret = req.secret
         /\ OnRoute(Noted(o))
         /\ o # "ok" => UnderWay(Noted(o))
  <1>1. req \in Requests(req.secret) /\ OnRoute(req) /\ Accounted(req)
    BY DEF UnderWay, WellFormed
  <1>2. Noted(o) \in Requests(req.secret)
    <2>1. \A q \in Requests(req.secret) : \A mixed, emptied, otherwise \in BOOLEAN :
            [q EXCEPT !.mixed = mixed, !.emptied = emptied, !.otherwise = otherwise]
              \in Requests(req.secret)
      BY DEF Requests
    <2>2. req.mixed \in BOOLEAN /\ req.emptied \in BOOLEAN /\ req.otherwise \in BOOLEAN
      BY <1>1 DEF Requests
    <2>3. PICK mixed, emptied, otherwise \in BOOLEAN :
            /\ mixed = (req.mixed \/ o # "empty")
            /\ emptied = IF o = "empty" THEN ~req.otherwise
                         ELSE IF o = "ok" THEN req.emptied ELSE FALSE
            /\ otherwise = (req.otherwise \/ o \notin {"ok", "empty"})
      BY <2>2
    <2>4. Noted(o) = [req EXCEPT !.mixed = mixed, !.emptied = emptied, !.otherwise = otherwise]
      BY <2>3 DEF Noted
    <2> QED BY <1>1, <2>1, <2>4
  <1>3. Noted(o).secret = req.secret /\ OnRoute(Noted(o))
    BY <1>1 DEF Noted, Requests, OnRoute
  <1>4. o # "ok" => Accounted(Noted(o))
    BY <1>1 DEF Noted, Requests, Accounted
  <1> QED BY <1>2, <1>3, <1>4 DEF UnderWay, WellFormed

\* A failed attempt leaves the request choosing, or at the end of its chain.
LEMMA FailureStep ==
  ASSUME UnderWay(req), NEW o, NEW q, UnderWay(q), q.at = req.at, q.route = req.route,
         req' = AfterFailure(q, o)
  PROVE  RequestOK'
  <1> DEFINE refused == IF o = "refusal" THEN q.refused \cup {q.at} ELSE q.refused
             failed  == [q EXCEPT !.failures = Worse(@, o), !.phase = "choosing",
                                  !.key = "none", !.secret = 0, !.again = 0,
                                  !.refused = refused]
  <1>1. q \in Requests(q.secret) /\ OnRoute(q) /\ Accounted(q)
    BY DEF UnderWay, WellFormed
  <1>2. refused \in SUBSET Nat
    BY <1>1 DEF Requests
  <1>3. Worse(q.failures, o) \in {"retired", "lasting", "passing"}
    BY DEF Worse
  <1>4. /\ req' = IF ~Chained \/ OwnKeyProblem(o) THEN failed
                  ELSE IF ~AtLast THEN [failed EXCEPT !.at = @ + 1]
                  ELSE IF q.left = 0 THEN [failed EXCEPT !.phase = "concluding"]
                  ELSE [failed EXCEPT !.at = 1, !.attempted = FALSE]
    BY DEF AfterFailure
  <1> HIDE DEF refused
  <1>5. WellFormed(failed)
    <2>1. \A worse \in {"retired", "lasting", "passing"}, some \in SUBSET Nat :
            WellFormed([q EXCEPT !.failures = worse, !.phase = "choosing",
                                 !.key = "none", !.secret = 0, !.again = 0,
                                 !.refused = some])
      <3> TAKE worse \in {"retired", "lasting", "passing"}, some \in SUBSET Nat
      <3> DEFINE p == [q EXCEPT !.failures = worse, !.phase = "choosing",
                                !.key = "none", !.secret = 0, !.again = 0,
                                !.refused = some]
      <3> DEFINE p1 == [q EXCEPT !.failures = worse, !.phase = "choosing", !.key = "none"]
      <3>1. p1 \in Requests(q.secret)
        BY <1>1 DEF Requests, Phases
      <3>2. p = [p1 EXCEPT !.secret = 0, !.again = 0, !.refused = some]
        OBVIOUS
      <3> HIDE DEF p1
      <3>3. [p1 EXCEPT !.secret = 0] \in Requests(0)
        BY <3>1 DEF Requests
      <3>4. \A r \in Requests(0) : \A n \in Int, turned \in SUBSET Nat :
              [r EXCEPT !.again = n, !.refused = turned] \in Requests(0)
        BY DEF Requests
      <3>5. PICK r : r = [p1 EXCEPT !.secret = 0]
        OBVIOUS
      <3>6. PICK none \in Int : none = 0
        OBVIOUS
      <3>7. p = [r EXCEPT !.again = none, !.refused = some]
        BY <3>2, <3>5, <3>6
      <3>8. p.secret = 0
        BY <1>1 DEF Requests
      <3>9. r \in Requests(0)
        BY <3>3, <3>5
      <3>10. [r EXCEPT !.again = none, !.refused = some] \in Requests(0)
        BY <3>4, <3>9
      <3>11. p \in Requests(0)
        BY <3>7, <3>10
      <3> QED BY <3>11, <3>8 DEF WellFormed
    <2> QED BY <1>2, <1>3, <2>1
  <1>6. OnRoute(failed) /\ Accounted(failed) /\ failed.phase = "choosing"
    BY <1>1 DEF OnRoute, Accounted, Requests
  <1>7. failed.at = req.at /\ failed.route = req.route
    BY <1>1 DEF Requests
  <1> HIDE DEF failed
  <1>8. PICK f : f = failed
    OBVIOUS
  <1>9. f \in Requests(f.secret) /\ UnderWay(f)
    BY <1>5, <1>6, <1>8 DEF UnderWay, WellFormed
  <1>10. PICK next : next = f.at + 1
    OBVIOUS
  <1>11. \/ req' = f
         \/ req' = [f EXCEPT !.phase = "concluding"]
         \/ req' = [f EXCEPT !.at = 1, !.attempted = FALSE]
         \/ ~AtLast /\ req' = [f EXCEPT !.at = next]
    BY <1>4, <1>8, <1>10
  <1>12. 1 \in DOMAIN f.route /\ (~AtLast => next \in DOMAIN f.route)
    BY <1>7, <1>8, <1>9, <1>10, TargetsAhead
  <1>13. UnderWay(req')
    <2>1. CASE req' = [f EXCEPT !.phase = "concluding"]
      BY <1>9, <2>1, MovesAlong
    <2>0. \A at \in DOMAIN f.route : /\ UnderWay([f EXCEPT !.at = at])
                                     /\ UnderWay([f EXCEPT !.at = at, !.attempted = FALSE])
      BY <1>9, MovesAlong
    <2>2. CASE req' = [f EXCEPT !.at = 1, !.attempted = FALSE]
      BY <1>12, <2>0, <2>2
    <2>3. CASE ~AtLast /\ req' = [f EXCEPT !.at = next]
      BY <1>12, <2>0, <2>3
    <2> QED BY <1>9, <1>11, <2>1, <2>2, <2>3
  <1> QED BY <1>13, StillRight

\* An answer ends the request, is retried, or passes its provider over.
LEMMA AnswerStep ==
  ASSUME NEW o \in Answers, NEW late \in BOOLEAN, Answer(o, late), UnderWay(req)
  PROVE  RequestOK'
  <1>1. PICK q : q = Noted(o)
    OBVIOUS
  <1>2. q \in Requests(q.secret) /\ OnRoute(q) /\ (o # "ok" => UnderWay(q))
    BY <1>1, NotedKeeps
  <1>3. q.at = req.at /\ q.route = req.route
    BY <1>1 DEF Noted, UnderWay, WellFormed, Requests
  <1>4. CASE o # "ok" /\ req' = [q EXCEPT !.again = @ - 1]
    <2>1. q.again - 1 \in Int
      BY <1>2 DEF Requests
    <2>2. \A n \in Int : WellFormed([q EXCEPT !.again = n])
      BY <1>2 DEF WellFormed, Requests
    <2>3. req' = [q EXCEPT !.again = q.again - 1]
      BY <1>4
    <2>4. OnRoute(req') /\ Accounted(req')
      BY <1>2, <1>4, <2>3 DEF UnderWay, OnRoute, Accounted, Requests
    <2> QED BY <2>1, <2>2, <2>3, <2>4, StillRight DEF UnderWay
  <1>5. CASE o = "ok" /\ req' = Ended(q, "served")
    BY <1>5, ServedIsRight
  <1>6. CASE o # "ok" /\ req' = AfterFailure(q, o)
    BY <1>2, <1>3, <1>6, FailureStep
  <1>7. CASE o # "ok" /\ req' = Ended(q, "refused")
    BY <1>2, <1>7, EndedIsRight DEF UnderWay, Accounted, Told
  <1> QED BY <1>1, <1>4, <1>5, <1>6, <1>7 DEF Answer, Retryable

\* A request out of providers is told what its answers amount to.
LEMMA ConcludeStep ==
  ASSUME Conclude, UnderWay(req)
  PROVE  RequestOK'
  BY EndedIsRight DEF Conclude, UnderWay, Accounted, Told

\* A client that leaves ends its request.
LEMMA LeaveStep ==
  ASSUME Leave
  PROVE  RequestOK'
  <1>1. req' = Idle
    BY DEF Leave
  <1>2. WellFormed(req')
    BY <1>1, IdleIsRequest DEF Told
  <1>3. req'.phase = "idle" /\ req'.told = "nothing"
    BY <1>1 DEF Idle
  <1> QED BY <1>2, <1>3 DEF RequestOK, EmptyBilledOnlyIfAllEmpty

--------------------------------------------------------------------------------
(* The theorem.                                                                *)

\* At first no request is under way.
LEMMA RequestInit == Init => RequestOK
  <1> SUFFICES ASSUME Init PROVE RequestOK
    OBVIOUS
  <1>1. req = Idle
    BY DEF Init
  <1>2. WellFormed(req)
    BY <1>1, IdleIsRequest DEF Told
  <1>3. req.phase = "idle" /\ req.told = "nothing"
    BY <1>1 DEF Idle
  <1> QED BY <1>2, <1>3 DEF RequestOK, EmptyBilledOnlyIfAllEmpty

\* Every step keeps the request right.
LEMMA RequestNext == RequestOK /\ [Next]_vars => RequestOK'
  <1> SUFFICES ASSUME RequestOK, [Next]_vars PROVE RequestOK'
    OBVIOUS
  <1>0. req.phase # "idle" => UnderWay(req)
    BY DEF RequestOK
  <1>1. CASE UNCHANGED req
    BY <1>1 DEF RequestOK, WellFormed, Requests, UnderWay, OnRoute, Accounted,
                EmptyBilledOnlyIfAllEmpty
  <1>2. ASSUME NEW route \in Routes, Arrive(route) PROVE RequestOK'
    BY <1>2, ArriveStep
  <1>3. ASSUME NEW k \in Keys, Choose(k) PROVE RequestOK'
    BY <1>0, <1>3, ChooseStep DEF Choose
  <1>4. CASE PassOver
    BY <1>0, <1>4, PassOverStep DEF PassOver
  <1>5. ASSUME NEW o \in Answers, NEW late \in BOOLEAN, Answer(o, late) PROVE RequestOK'
    BY <1>0, <1>5, AnswerStep DEF Answer
  <1>6. CASE Conclude
    BY <1>0, <1>6, ConcludeStep DEF Conclude
  <1>7. CASE Leave
    BY <1>7, LeaveStep
  <1>8. ASSUME NEW p \in Providers, NEW tried \in SUBSET Keys, NEW k \in Keys,
               OtherChooses(p, tried, k)
        PROVE  UNCHANGED req
    BY <1>8 DEF OtherChooses
  <1>9. ASSUME NEW k \in Keys, NEW o \in Answers, OtherAnswered(k, o)
        PROVE  UNCHANGED req
    BY <1>9 DEF OtherAnswered
  <1>10. Tick \/ Edit \/ SyncFromBilling \/ Register \/ ResetKey \/ UNCHANGED vars
           => UNCHANGED req
    BY DEF Tick, Edit, SyncFromBilling, Register, ResetKey, vars
  <1> QED BY <1>1, <1>2, <1>3, <1>4, <1>5, <1>6, <1>7, <1>8, <1>9, <1>10 DEF Next

\* A request under way stands at a target of its route and has spent no more than
\* its budget of upstream requests (attempt_limit in governance.rs).
THEOREM RequestsStayOnRoute == Spec => []RequestOK
  BY RequestInit, RequestNext, PTL DEF Spec

\* A request that no key served is billed for its input only if every one of its
\* attempts ended empty, whatever answers came in between (the empty usage that
\* conversation.rs keeps beside its attempts).
THEOREM EmptyBilling == Spec => []EmptyBilledOnlyIfAllEmpty
  <1>1. RequestOK => EmptyBilledOnlyIfAllEmpty
    BY DEF RequestOK
  <1> QED BY <1>1, RequestsStayOnRoute, PTL
================================================================================
