------------------------- MODULE ClientUpdateProofs -------------------------
(***************************************************************************)
(* That a trial is judged once (ClientUpdate's JudgedOnce), for any number *)
(* of processes, releases, trials and kills.                               *)
(*                                                                         *)
(* A recorded trial has one credit.  Three may claim it: the record        *)
(* (pending), the installer that waits for its trial, and the trial.  Who  *)
(* accounts for it takes the credit, and the locks, the single instance    *)
(* and the staged file's being in use see to it that no other claim is     *)
(* left then.                                                              *)
(***************************************************************************)
EXTENDS ClientUpdate, FiniteSetTheorems, TLAPS

Starting == {"startup", "judging", "cleaning"}
Installing == {"staged", "recorded", "waiting", "blame", "excuse"}
\* Where a trial holds its lock and is not accounted for, once it is past "instance".
Trying == {"signal", "predecessor", "watching", "window", "stepping aside", "moving",
           "half", "moved", "unmoved"}
Waits == {"startup", "judging", "instance", "trial", "signal", "predecessor"}
Places == Starting \cup Installing \cup Trying \cup {"none", "instance", "trial", "running"}

RunType ==
  [at : Places, ver : 0 .. MaxVersion, image : {"none", "client", "staged", "aside"},
   peer : Procs \cup {NoProc}, target : 0 .. MaxVersion]

TypesOK ==
  /\ client \in 0 .. MaxVersion /\ aside \in [Procs -> 0 .. MaxVersion]
  /\ staged \subseteq Versions
  /\ saved \in [pending : 0 .. MaxVersion, rejected : SUBSET Versions,
                failures : [Versions -> 0 .. FAILURES_BEFORE_REJECT - 1]]
  /\ installLock \in Procs \cup {NoProc} /\ trialLock \in Procs \cup {NoProc}
  /\ marker \in Procs \cup {NoProc}
  /\ proc \in [Procs -> RunType]
  /\ credit \in [Versions -> Int]
  /\ trials \in Nat /\ kills \in Nat

\* A trial past its lock, until its outcome is saved.
Tries(p) == proc[p].at \in Trying \/ (At(p, "instance") /\ IsTrial(p))

\* What a process is, by where it is.
Placed(p) ==
  /\ proc[p].at \in Starting \cup {"none"} => ~IsTrial(p)
  /\ proc[p].at \in (Trying \ {"moved"}) \cup {"trial"} => IsTrial(p)
  /\ At(p, "moved") => ~IsTrial(p)
  /\ Tries(p) \/ At(p, "trial") => proc[p].ver # 0
  /\ proc[p].at \in Installing => proc[p].target # 0
  /\ At(p, "judging") => saved.pending # 0
  /\ At(p, "waiting") => proc[p].peer # p

\* Who holds which lock.
Locked(p) ==
  /\ proc[p].at \in Installing \cup {"judging"} => installLock = p
  /\ Tries(p) \/ At(p, "judging") <=> trialLock = p

\* One client is past the single instance.
Instance(p) == proc[p].at \notin Waits \cup {"none"}
OneInstance == \A p, q \in Procs : Instance(p) /\ Instance(q) => p = q

\* A release that is being installed is run by nobody but the trial it waits for.
Alone(p) ==
  /\ proc[p].at \in Installing \ {"waiting"} =>
       \A q \in Procs : IsTrial(q) => proc[q].ver # proc[p].target
  /\ At(p, "waiting") =>
       \A q \in Procs : IsTrial(q) /\ proc[q].ver = proc[p].target =>
         q = proc[p].peer /\ proc[q].peer = p

\* Every claim has its credit.
Claims(p) ==
  /\ proc[p].at \in Installing \ {"staged"} => credit[proc[p].target] >= 1
  /\ Tries(p) => credit[proc[p].ver] >= 1
Credited ==
  /\ \A v \in Versions : credit[v] >= 0
  /\ saved.pending # 0 => credit[saved.pending] >= 1
  /\ \A p \in Procs : Claims(p)

IInv ==
  /\ TypesOK
  /\ \A p \in Procs : Placed(p) /\ Locked(p) /\ Alone(p)
  /\ OneInstance
  /\ Credited

-----------------------------------------------------------------------------
\* The constants and what is counted with them.
LEMMA ConstantTypes ==
  /\ MaxProcs \in Nat \ {0} /\ MaxVersion \in Nat \ {0} /\ MaxTrials \in Nat /\ MaxKills \in Nat
  /\ NoProc \notin Procs /\ Procs \subseteq Nat
  /\ Versions = (0 .. MaxVersion) \ {0}
  /\ NoRun \in RunType /\ NoRun.at = "none" /\ NoRun.image = "none"
<1>1. /\ MaxProcs \in Nat \ {0} /\ MaxVersion \in Nat \ {0} /\ MaxTrials \in Nat /\ MaxKills \in Nat
  BY UpdateAssumption
<1>2. NoProc \notin Procs /\ Procs \subseteq Nat /\ Versions = (0 .. MaxVersion) \ {0}
  BY <1>1 DEF NoProc, Procs, Versions
<1>3. NoRun \in RunType /\ NoRun.at = "none" /\ NoRun.image = "none"
  BY <1>1 DEF NoRun, RunType, Places, NoProc
<1> QED
  BY <1>1, <1>2, <1>3

SavedType ==
  [pending : 0 .. MaxVersion, rejected : SUBSET Versions,
   failures : [Versions -> 0 .. FAILURES_BEFORE_REJECT - 1]]

\* What a failure, a success and an ended trial leave of the saved state.
LEMMA SavedTypes ==
  ASSUME NEW s \in SavedType, NEW v \in Versions
  PROVE  /\ record_failure(s, v) \in SavedType /\ record_failure(s, v).pending = s.pending
         /\ clear_failures(s, v) \in SavedType /\ clear_failures(s, v).pending = s.pending
         /\ NoPending(s) \in SavedType /\ NoPending(s).pending = 0
         /\ [s EXCEPT !.pending = v] \in SavedType
<1> USE ConstantTypes DEF SavedType, FAILURES_BEFORE_REJECT
<1>1. /\ [s EXCEPT !.failures[v] = 0, !.rejected = @ \cup {v}] \in SavedType
      /\ [s EXCEPT !.failures[v] = 0, !.rejected = @ \cup {v}].pending = s.pending
  <2>1. [s.failures EXCEPT ![v] = 0] \in [Versions -> 0 .. 2 - 1]
    OBVIOUS
  <2>2. s.rejected \cup {v} \in SUBSET Versions
    OBVIOUS
  <2>3. PICK f \in [Versions -> 0 .. 2 - 1], r \in SUBSET Versions :
          f = [s.failures EXCEPT ![v] = 0] /\ r = s.rejected \cup {v}
    BY <2>1, <2>2
  <2>4. [s EXCEPT !.failures[v] = 0, !.rejected = @ \cup {v}]
          = [s EXCEPT !.failures = f, !.rejected = r]
    BY <2>3
  <2>5. /\ [s EXCEPT !.failures = f, !.rejected = r] \in SavedType
        /\ [s EXCEPT !.failures = f, !.rejected = r].pending = s.pending
    BY <2>3
  <2> QED
    BY <2>4, <2>5
<1>2. ASSUME s.failures[v] + 1 < 2
      PROVE  /\ [s EXCEPT !.failures[v] = @ + 1] \in SavedType
             /\ [s EXCEPT !.failures[v] = @ + 1].pending = s.pending
  BY <1>2
<1>3. record_failure(s, v) \in SavedType /\ record_failure(s, v).pending = s.pending
  BY <1>1, <1>2 DEF record_failure
<1>4. clear_failures(s, v) \in SavedType /\ clear_failures(s, v).pending = s.pending
  BY DEF clear_failures
<1>5. NoPending(s) \in SavedType /\ NoPending(s).pending = 0
  BY DEF NoPending
<1>6. [s EXCEPT !.pending = v] \in SavedType
  OBVIOUS
<1> QED
  BY <1>3, <1>4, <1>5, <1>6

\* A process that goes on is as it was but for where it is.
LEMMA GoingOn ==
  ASSUME TypesOK, NEW p \in Procs, NEW at \in Places, Goto(p, at)
  PROVE  /\ proc' \in [Procs -> RunType]
         /\ proc'[p].at = at /\ proc'[p].ver = proc[p].ver /\ proc'[p].image = proc[p].image
         /\ proc'[p].peer = proc[p].peer /\ proc'[p].target = proc[p].target
         /\ \A q \in Procs \ {p} : proc'[q] = proc[q]
<1>1. [proc[p] EXCEPT !.at = at] \in RunType
  BY DEF TypesOK, RunType
<1> QED
  BY <1>1 DEF TypesOK, RunType, Goto

\* One that ends leaves nothing.
LEMMA Ending ==
  ASSUME TypesOK, NEW p \in Procs, Exits(p)
  PROVE  /\ proc' \in [Procs -> RunType]
         /\ proc'[p] = NoRun /\ \A q \in Procs \ {p} : proc'[q] = proc[q]
         /\ installLock' = IF installLock = p THEN NoProc ELSE installLock
         /\ trialLock' = IF trialLock = p THEN NoProc ELSE trialLock
BY ConstantTypes DEF TypesOK, Exits, Freed

-----------------------------------------------------------------------------
\* What others keep when some processes move.

\* A process that is where it was, and what it was.
Same(r) ==
  /\ proc'[r].at = proc[r].at /\ proc'[r].ver = proc[r].ver
  /\ proc'[r].peer = proc[r].peer /\ proc'[r].target = proc[r].target
  /\ IsTrial(r)' <=> IsTrial(r)

\* What it claims and holds is as it was, if nobody took its locks.
LEMMA OthersKeep ==
  ASSUME NEW r \in Procs, Same(r)
  PROVE  /\ Placed(r) /\ (At(r, "judging") => saved'.pending # 0) => Placed(r)'
         /\ Locked(r) /\ (installLock = r => installLock' = r) /\ (trialLock = r <=> trialLock' = r)
              => Locked(r)'
         /\ Instance(r)' <=> Instance(r)
         /\ Claims(r) /\ (\A v \in Versions : credit'[v] >= credit[v]) /\ TypesOK /\ TypesOK'
              /\ Placed(r) => Claims(r)'
<1>1. (Tries(r)' <=> Tries(r)) /\ \A at : At(r, at)' <=> At(r, at)
  BY DEF Same, Tries, At
<1>2. Placed(r) /\ (At(r, "judging") => saved'.pending # 0) => Placed(r)'
  BY <1>1 DEF Same, Placed, At
<1>3. Locked(r) /\ (installLock = r => installLock' = r) /\ (trialLock = r <=> trialLock' = r)
        => Locked(r)'
  BY <1>1 DEF Same, Locked, At
<1>4. Instance(r)' <=> Instance(r)
  BY DEF Same, Instance
<1>5. ASSUME Claims(r), \A v \in Versions : credit'[v] >= credit[v], TypesOK, TypesOK', Placed(r)
      PROVE  Claims(r)'
  <2>1. \A v \in Versions : credit[v] \in Int /\ credit'[v] \in Int
    BY <1>5 DEF TypesOK
  <2>2. proc[r].ver \in 0 .. MaxVersion /\ proc[r].target \in 0 .. MaxVersion
    BY <1>5 DEF TypesOK, RunType
  <2>3. proc[r].at \in Installing => proc[r].target \in Versions
    BY <1>5, <2>2, ConstantTypes DEF Placed
  <2>4. Tries(r) => proc[r].ver \in Versions
    BY <1>5, <2>2, ConstantTypes DEF Placed
  <2> QED
    BY <1>1, <1>5, <2>1, <2>3, <2>4 DEF Claims, Same
<1> QED
  BY <1>2, <1>3, <1>4, <1>5

\* A release stays alone as long as no process becomes a trial.
LEMMA AloneStays ==
  ASSUME NEW r \in Procs, Alone(r), Same(r),
         \A q \in Procs : IsTrial(q)' => /\ IsTrial(q) /\ proc'[q].ver = proc[q].ver
                                        /\ proc'[q].peer = proc[q].peer
  PROVE  Alone(r)'
BY DEF Alone, Same, At

\* The invariant holds after a step if it does for the processes that moved, and the
\* others kept their locks, their release and a credit for each claim.
LEMMA MovesKeep ==
  ASSUME IInv, TypesOK', NEW S \in SUBSET Procs,
         \A r \in Procs \ S :
           /\ Same(r)
           /\ installLock = r => installLock' = r
           /\ trialLock = r <=> trialLock' = r
           /\ At(r, "judging") => saved'.pending # 0
           /\ Alone(r)',
         \A p \in S :
           /\ Placed(p)' /\ Locked(p)' /\ Alone(p)'
           /\ Instance(p)' => Instance(p) \/ \A r \in Procs \ {p} : ~Instance(r)',
         Credited'
  PROVE  IInv'
<1>1. \A r \in Procs : Placed(r)' /\ Locked(r)' /\ Alone(r)'
  BY OthersKeep DEF IInv
<1>2. \A r \in Procs \ S : Instance(r)' <=> Instance(r)
  BY OthersKeep
<1>3. OneInstance'
  BY <1>2 DEF IInv, OneInstance
<1> QED
  BY <1>1, <1>3 DEF IInv

\* The same for one process.
LEMMA MoveKeeps ==
  ASSUME IInv, TypesOK', NEW p \in Procs,
         \A r \in Procs \ {p} :
           /\ Same(r)
           /\ installLock = r => installLock' = r
           /\ trialLock = r <=> trialLock' = r
           /\ At(r, "judging") => saved'.pending # 0
           /\ Alone(r)',
         Placed(p)', Locked(p)', Alone(p)',
         Instance(p)' => Instance(p) \/ \A r \in Procs \ {p} : ~Instance(r),
         Credited'
  PROVE  IInv'
<1>1. PICK S \in SUBSET Procs : S = {p}
  OBVIOUS
<1>2. \A r \in Procs \ S :
        /\ Same(r) /\ (installLock = r => installLock' = r) /\ (trialLock = r <=> trialLock' = r)
        /\ (At(r, "judging") => saved'.pending # 0) /\ Alone(r)'
  BY <1>1
<1>3. \A r \in Procs \ {p} : Instance(r)' <=> Instance(r)
  BY OthersKeep
<1>4. \A q \in S : /\ Placed(q)' /\ Locked(q)' /\ Alone(q)'
                   /\ Instance(q)' => Instance(q) \/ \A r \in Procs \ {q} : ~Instance(r)'
  BY <1>1, <1>3
<1> QED
  BY <1>2, <1>4, MovesKeep

\* Credits stay when none is taken and those who moved claim no other.
LEMMA CreditStays ==
  ASSUME IInv, TypesOK', NEW S \in SUBSET Procs,
         \A v \in Versions : credit'[v] >= credit[v],
         saved'.pending # 0 => credit'[saved'.pending] >= 1,
         \A r \in Procs \ S : Same(r),
         \A p \in S : Claims(p)'
  PROVE  Credited'
<1>1. \A v \in Versions : credit'[v] >= 0
  BY DEF IInv, Credited, TypesOK
<1>2. \A r \in Procs : Claims(r)'
  BY OthersKeep DEF IInv, Credited
<1> QED
  BY <1>1, <1>2 DEF Credited

\* The same for a step of one process.
LEMMA OneCreditStays ==
  ASSUME IInv, TypesOK', NEW p \in Procs,
         \A v \in Versions : credit'[v] >= credit[v],
         saved'.pending # 0 => credit'[saved'.pending] >= 1,
         \A r \in Procs \ {p} : Same(r),
         Claims(p)'
  PROVE  Credited'
<1>1. PICK S \in SUBSET Procs : S = {p}
  OBVIOUS
<1>2. (\A r \in Procs \ S : Same(r)) /\ (\A q \in S : Claims(q)')
  BY <1>1
<1> QED
  BY <1>2, CreditStays

-----------------------------------------------------------------------------
\* The steps.

\* A process that ends, and what it held, keeps the invariant.
LEMMA ExitKeeps ==
  ASSUME IInv, NEW p \in Procs, Exits(p), UNCHANGED <<saved, credit>>,
         UNCHANGED <<files, marker, trials>>, kills' \in Nat
  PROVE  IInv'
<1> USE Ending, ConstantTypes DEF IInv
<1>0. /\ \A v \in Versions : credit'[v] >= credit[v]
      /\ saved'.pending # 0 => credit'[saved'.pending] >= 1
  BY DEF IInv, TypesOK, Credited
<1>1. TypesOK'
  BY DEF TypesOK, files
<1>2. \A r \in Procs \ {p} : Same(r)
  BY DEF Same, IsTrial
<1>3. /\ proc'[p].at = "none" /\ proc'[p].image = "none"
  OBVIOUS
<1>4. \A r \in Procs \ {p} : /\ installLock = r => installLock' = r
                             /\ trialLock = r <=> trialLock' = r
  OBVIOUS
<1>5. \A r \in Procs \ {p} : Alone(r)'
  BY <1>2, <1>3, AloneStays DEF Same, IsTrial
<1>6. /\ Placed(p)' /\ Alone(p)' /\ ~Instance(p)' /\ Claims(p)'
  BY <1>3 DEF Placed, Alone, Instance, Claims, Tries, At, IsTrial, Starting, Trying, Installing, Waits
<1>7. Locked(p)'
  BY <1>3 DEF Locked, Tries, At, IsTrial, Trying, Installing
<1>8. Credited'
  BY <1>1, <1>2, <1>6, <1>0, OneCreditStays
<1>9. \A r \in Procs : At(r, "judging") => saved'.pending # 0
  BY DEF Placed
<1> QED
  BY <1>1, <1>2, <1>4, <1>5, <1>6, <1>7, <1>8, <1>9, MoveKeeps

\* A process goes on that takes no lock, or a free one, and installs nothing.
LEMMA GoesOn ==
  ASSUME IInv, TypesOK', NEW p \in Procs, NEW at \in Places \ Installing, Goto(p, at),
         UNCHANGED <<saved, credit>>,
         \A r \in Procs \ {p} : /\ installLock = r => installLock' = r
                                /\ trialLock = r <=> trialLock' = r,
         Placed(p)', Locked(p)', Claims(p)',
         Instance(p)' => Instance(p) \/ \A r \in Procs \ {p} : ~Instance(r)
  PROVE  IInv'
<1>0. /\ \A v \in Versions : credit'[v] >= credit[v]
      /\ saved'.pending # 0 => credit'[saved'.pending] >= 1
  BY DEF IInv, TypesOK, Credited
<1>1. /\ proc'[p].at = at /\ proc'[p].ver = proc[p].ver /\ proc'[p].image = proc[p].image
      /\ proc'[p].peer = proc[p].peer
      /\ \A q \in Procs \ {p} : proc'[q] = proc[q]
  BY GoingOn DEF IInv
<1>2. \A r \in Procs \ {p} : Same(r)
  BY <1>1 DEF Same, IsTrial
<1>4. \A r \in Procs \ {p} : Alone(r)'
  BY <1>1, <1>2, AloneStays DEF IInv, IsTrial
<1>5. Alone(p)'
  BY <1>1 DEF Alone, At, Installing
<1>6. Credited'
  BY <1>2, <1>0, OneCreditStays
<1>7. \A r \in Procs : At(r, "judging") => saved'.pending # 0
  BY DEF IInv, Placed
<1>8. \A r \in Procs \ {p} : Instance(r)' <=> Instance(r)
  BY <1>2, OthersKeep
<1> QED
  BY <1>2, <1>4, <1>5, <1>6, <1>7, <1>8, MoveKeeps

\* A start that has nothing to judge, or judges with both locks.
LEMMA StartupKeeps ==
  ASSUME IInv, NEW p \in Procs, startup(p)
  PROVE  IInv'
<1> USE ConstantTypes DEF IInv
<1>1. /\ UNCHANGED <<client, aside, saved, marker, credit, trials, kills>>
      /\ At(p, "startup") /\ staged' \subseteq Versions
      /\ \/ /\ installLock = NoProc /\ trialLock = NoProc /\ saved.pending # 0
            /\ installLock' = p /\ trialLock' = p /\ Goto(p, "judging")
         \/ Goto(p, "instance") /\ UNCHANGED <<installLock, trialLock>>
  BY DEF startup, bounds, locks, MayJudge, TypesOK
<1>2. PICK at \in {"judging", "instance"} :
        /\ Goto(p, at)
        /\ at = "judging" => saved.pending # 0 /\ installLock' = p /\ trialLock' = p
        /\ at = "instance" => UNCHANGED <<installLock, trialLock>>
  BY <1>1
<1>3. at \in Places \ Installing
  BY DEF Places, Installing, Starting
<1>4. /\ proc' \in [Procs -> RunType] /\ proc'[p].at = at /\ proc'[p].image = proc[p].image
  BY <1>2, <1>3, GoingOn
<1>5. TypesOK'
  BY <1>1, <1>2, <1>4 DEF TypesOK
<1>6. ~IsTrial(p) /\ ~IsTrial(p)' /\ trialLock # p
  BY <1>1, <1>4 DEF Placed, Starting, At, IsTrial, Locked, Tries, Trying
<1>7. Placed(p)' /\ Claims(p)' /\ ~Instance(p)'
  BY <1>1, <1>2, <1>4, <1>6 DEF Placed, Starting, Trying, Installing, Tries, At, Claims, Instance, Waits
<1>8. Locked(p)'
  BY <1>2, <1>4, <1>6 DEF Locked, Trying, Installing, Tries, At
<1>9. \A r \in Procs \ {p} : /\ installLock = r => installLock' = r
                             /\ trialLock = r <=> trialLock' = r
  BY <1>1
<1> QED
  BY <1>1, <1>2, <1>3, <1>5, <1>7, <1>8, <1>9, GoesOn

\* The single instance: a trial is watched, another start cleans up, or it ends.
LEMMA InstanceKeeps ==
  ASSUME IInv, NEW p \in Procs, TakeInstance(p)
  PROVE  IInv'
<1> USE ConstantTypes DEF IInv
<1>1. /\ UNCHANGED <<client, aside, staged, saved, marker, credit, trials, kills>>
      /\ At(p, "instance")
  BY DEF TakeInstance, bounds, files
<1>2. CASE InstanceHeld(p)
  BY <1>1, <1>2, ExitKeeps DEF TakeInstance, TypesOK, files
<1>3. CASE ~InstanceHeld(p)
  <2>1. PICK at \in {"watching", "cleaning"} :
          Goto(p, at) /\ (at = "watching" <=> IsTrial(p)) /\ UNCHANGED <<installLock, trialLock>>
    BY <1>3 DEF TakeInstance, locks
  <2>2. at \in Places \ Installing
    BY DEF Places, Installing, Starting, Trying
  <2>3. /\ proc' \in [Procs -> RunType] /\ proc'[p].at = at /\ proc'[p].image = proc[p].image
        /\ proc'[p].ver = proc[p].ver
    BY <2>1, <2>2, GoingOn
  <2>4. TypesOK'
    BY <1>1, <2>1, <2>3 DEF TypesOK
  <2>5. Tries(p)' <=> Tries(p)
    BY <1>1, <2>1, <2>3 DEF Tries, At, Trying
  <2>6. Placed(p)' /\ Claims(p)' /\ Locked(p)'
    BY <1>1, <2>1, <2>3, <2>5 DEF Placed, Starting, Trying, Installing, At, Claims, IsTrial,
                                   Credited, Locked
  <2>7. \A r \in Procs \ {p} : ~Instance(r)
    BY <1>3 DEF InstanceHeld, Instance, Waits
  <2> QED
    BY <1>1, <2>1, <2>2, <2>4, <2>6, <2>7, GoesOn
<1> QED
  BY <1>2, <1>3

\* What a client that runs does with its files and its window.
LEMMA FilesKeep ==
  ASSUME IInv, NEW p \in Procs, remove_leftovers(p) \/ window_up(p) \/ confirm(p) \/ RefusedMove(p)
                               \/ cancel(p)
  PROVE  IInv'
<1> USE ConstantTypes DEF IInv
<1>1. /\ UNCHANGED <<client, saved, marker, credit, trials, trialLock>>
      /\ staged' \subseteq Versions /\ aside' \in [Procs -> 0 .. MaxVersion]
      /\ kills' \in Nat
  <2>1. remove_leftovers(p) => staged' \subseteq Versions /\ aside' \in [Procs -> 0 .. MaxVersion]
                              /\ UNCHANGED <<client, saved, marker, credit, trials, kills, locks>>
    <3> SUFFICES ASSUME remove_leftovers(p)
                 PROVE  staged' \subseteq Versions /\ aside' \in [Procs -> 0 .. MaxVersion]
      BY DEF remove_leftovers, bounds, locks
    <3>1. CASE ~MayJudge
      BY <3>1 DEF remove_leftovers, TypesOK
    <3>2. CASE MayJudge
      <4>1. staged' \subseteq staged
        BY <3>2 DEF remove_leftovers
      <4>2. aside' \in [Procs -> 0 .. MaxVersion]
        BY <3>2 DEF remove_leftovers, TypesOK
      <4> QED
        BY <4>1, <4>2 DEF TypesOK
    <3> QED
      BY <3>1, <3>2
  <2>2. window_up(p) \/ confirm(p) =>
          UNCHANGED <<client, staged, aside, saved, marker, credit, trials, kills, locks>>
    BY DEF window_up, confirm, bounds, locks, files
  <2>3. RefusedMove(p) => /\ UNCHANGED <<client, staged, aside, saved, marker, credit, trials, locks>>
                         /\ kills' \in Nat
    BY DEF RefusedMove, locks, files, TypesOK
  <2>4. cancel(p) => /\ UNCHANGED <<client, aside, saved, marker, credit, trials, trialLock>>
                    /\ staged' \subseteq Versions /\ kills' \in Nat
    <3>1. cancel(p) => staged' \subseteq Versions
      BY DEF cancel, unstage, TypesOK
    <3>2. cancel(p) => kills' \in Nat
      BY DEF cancel, TypesOK
    <3> QED
      BY <3>1, <3>2 DEF cancel
  <2> QED
    BY <2>1, <2>2, <2>3, <2>4 DEF TypesOK, locks
<1>2. PICK at \in {"running", "window", "moving", "unmoved"} :
        /\ Goto(p, at)
        /\ at = "running" <=> proc[p].at \in {"cleaning", "staged"}
        /\ at # "running" => proc[p].at \in {"watching", "window", "moving"}
        /\ At(p, "staged") => installLock' = Freed(installLock, p)
        /\ ~At(p, "staged") => installLock' = installLock
  BY DEF remove_leftovers, window_up, confirm, RefusedMove, cancel, At, locks
<1>3. at \in Places \ Installing
  BY DEF Places, Installing, Starting, Trying
<1>4. /\ proc' \in [Procs -> RunType] /\ proc'[p].at = at /\ proc'[p].image = proc[p].image
      /\ proc'[p].ver = proc[p].ver
  BY <1>2, <1>3, GoingOn
<1>5. TypesOK'
  BY <1>1, <1>2, <1>4 DEF TypesOK, Freed
<1>6. (Tries(p)' <=> Tries(p)) /\ (IsTrial(p)' <=> IsTrial(p))
  BY <1>2, <1>4 DEF Tries, At, Trying, IsTrial
<1>7. Placed(p)' /\ Claims(p)'
  BY <1>1, <1>2, <1>4, <1>6 DEF Placed, Starting, Trying, Installing, At, Claims, Credited
<1>8. Locked(p)'
  BY <1>1, <1>2, <1>4, <1>6 DEF Locked, Installing, At
<1>9. Instance(p)
  BY <1>2 DEF Instance, Waits
<1>10. \A r \in Procs \ {p} : installLock = r => installLock' = r
  BY <1>2 DEF Freed
<1> QED
  BY <1>1, <1>2, <1>3, <1>5, <1>7, <1>8, <1>9, <1>10, GoesOn

\* A trial takes its lock, signals that it is up and waits for the installer.
LEMMA TrialKeeps ==
  ASSUME IInv, NEW p \in Procs, TakeTrialLock(p) \/ Signal(p) \/ wait_for_predecessor(p)
  PROVE  IInv'
<1> USE ConstantTypes DEF IInv
<1>1. /\ UNCHANGED <<client, aside, staged, saved, credit, trials, kills>>
      /\ marker' \in Procs \cup {NoProc}
      /\ proc[p].at \in {"trial", "signal", "predecessor"} /\ IsTrial(p)
  <2>1. /\ UNCHANGED <<client, aside, staged, saved, credit, trials, kills>>
        /\ proc[p].at \in {"trial", "signal", "predecessor"}
    BY DEF TakeTrialLock, Signal, wait_for_predecessor, bounds, files, At
  <2>2. marker' \in Procs \cup {NoProc}
    BY DEF TakeTrialLock, Signal, wait_for_predecessor, TypesOK, RunType
  <2> QED
    BY <2>1, <2>2 DEF Placed, Trying
<1>2. CASE TakeTrialLock(p) /\ Exits(p)
  BY <1>1, <1>2, ExitKeeps DEF TakeTrialLock, TypesOK, files
<1>3. CASE ~(TakeTrialLock(p) /\ Exits(p))
  <2>1. PICK at \in {"signal", "predecessor", "instance"} :
          /\ Goto(p, at)
          /\ at = "signal" => /\ At(p, "trial") /\ trialLock = NoProc /\ trialLock' = p
                             /\ saved.pending = proc[p].ver /\ installLock' = installLock
          /\ at # "signal" => proc[p].at \in {"signal", "predecessor"} /\ trialLock' = trialLock
          /\ installLock' = installLock \/ (installLock = NoProc /\ installLock' = p)
    BY <1>3 DEF TakeTrialLock, Signal, wait_for_predecessor, locks, At
  <2>2. at \in Places \ Installing
    BY DEF Places, Installing, Starting, Trying
  <2>3. /\ proc' \in [Procs -> RunType] /\ proc'[p].at = at /\ proc'[p].image = proc[p].image
        /\ proc'[p].ver = proc[p].ver
    BY <2>1, <2>2, GoingOn
  <2>4. TypesOK'
    BY <1>1, <2>1, <2>3 DEF TypesOK
  <2>5. Tries(p)' /\ IsTrial(p)' /\ (at # "signal" => Tries(p))
    BY <1>1, <2>1, <2>3 DEF Tries, At, Trying, IsTrial
  <2>6. Placed(p)' /\ ~Instance(p)'
    BY <1>1, <2>1, <2>3, <2>5 DEF Placed, Starting, Trying, Installing, At, Instance, Waits, Tries
  <2>7. trialLock' = p /\ Locked(p)'
    BY <1>1, <2>1, <2>3, <2>5 DEF Locked, Installing, At
  <2>8. credit[proc[p].ver] >= 1
    BY <1>1, <2>1, <2>5 DEF Credited, Claims, Placed, At
  <2>9. Claims(p)'
    BY <1>1, <2>1, <2>3, <2>8 DEF Claims, Installing
  <2> QED
    BY <1>1, <2>1, <2>2, <2>4, <2>6, <2>7, <2>9, GoesOn
<1> QED
  BY <1>2, <1>3

\* A trial whose window stays silent starts the customer's client, or stays.
LEMMA StepAsideKeeps ==
  ASSUME IInv, NEW p \in Procs, NEW r \in Procs, step_aside(p, r)
  PROVE  IInv'
<1> USE ConstantTypes DEF IInv
<1>1. /\ UNCHANGED <<client, aside, staged, saved, marker, credit, trials, kills, installLock, trialLock>>
      /\ At(p, "watching") /\ IsTrial(p) /\ Tries(p)
  BY DEF step_aside, bounds, files, locks, At, Placed, Tries, Trying
<1>2. CASE client = 0
  <2>1. "window" \in Places \ Installing
    BY DEF Places, Installing, Trying
  <2>2. /\ proc' \in [Procs -> RunType] /\ proc'[p].at = "window" /\ proc'[p].image = proc[p].image
        /\ proc'[p].ver = proc[p].ver /\ Goto(p, "window")
    BY <1>2, <2>1, GoingOn DEF step_aside
  <2>3. TypesOK'
    BY <1>1, <2>2 DEF TypesOK
  <2>4. Placed(p)' /\ Claims(p)' /\ Locked(p)' /\ Instance(p)
    BY <1>1, <2>2 DEF Placed, Starting, Trying, Installing, At, Claims, Tries, IsTrial,
                      Credited, Locked, Instance, Waits
  <2> QED
    BY <1>1, <2>1, <2>2, <2>3, <2>4, GoesOn
<1>3. CASE client # 0
  <2>1. /\ At(r, "none") /\ r # p
        /\ proc' = [proc EXCEPT ![p].at = "stepping aside",
                                ![r] = Run("startup", client, "client", NoProc)]
    BY <1>1, <1>3 DEF step_aside, Free, At
  <2>2. /\ Run("startup", client, "client", NoProc) \in RunType
        /\ Run("startup", client, "client", NoProc).at = "startup"
        /\ Run("startup", client, "client", NoProc).image = "client"
    BY DEF Run, RunType, Places, Starting, TypesOK, NoRun
  <2>3. [proc[p] EXCEPT !.at = "stepping aside"] \in RunType
    <3>1. \A at \in Places : [proc[p] EXCEPT !.at = at] \in RunType
      BY DEF TypesOK, RunType
    <3> QED
      BY <3>1 DEF Places, Trying
  <2>4. /\ proc' \in [Procs -> RunType] /\ proc'[p].at = "stepping aside"
        /\ proc'[p].image = proc[p].image
        /\ proc'[p].ver = proc[p].ver /\ proc'[p].peer = proc[p].peer
        /\ proc'[r].at = "startup" /\ proc'[r].image = "client"
        /\ \A q \in Procs \ {p, r} : proc'[q] = proc[q]
    BY <2>1, <2>2, <2>3 DEF TypesOK, RunType
  <2>5. TypesOK'
    BY <1>1, <2>4 DEF TypesOK
  <2>6. PICK S \in SUBSET Procs : S = {p, r}
    OBVIOUS
  <2>7. \A q \in Procs \ S : Same(q)
    BY <2>4, <2>6 DEF Same, IsTrial
  <2>8. \A q \in Procs \ S : Alone(q)'
    BY <2>4, <2>6, <2>7, AloneStays DEF IsTrial
  <2>9. /\ Placed(p)' /\ Claims(p)' /\ Locked(p)' /\ Alone(p)' /\ Instance(p)
    <3>1. Placed(p)' /\ Instance(p)
      BY <1>1, <2>4 DEF Placed, Starting, Trying, Installing, At, Tries, IsTrial, Instance, Waits
    <3>2. Claims(p)' /\ Locked(p)'
      BY <1>1, <2>4 DEF Installing, Trying, At, Claims, Tries, IsTrial, Credited, Locked
    <3>3. Alone(p)'
      BY <1>1, <2>4 DEF Installing, Trying, At, IsTrial, Alone
    <3> QED
      BY <3>1, <3>2, <3>3
  <2>10. /\ Placed(r)' /\ Claims(r)' /\ Locked(r)' /\ Alone(r)' /\ ~Instance(r)'
    BY <1>1, <2>1, <2>4 DEF Placed, Starting, Trying, Installing, At, Claims, Tries, IsTrial,
                      Locked, Instance, Waits, Alone
  <2>11. Credited'
    <3>1. /\ \A v \in Versions : credit'[v] >= credit[v]
          /\ saved'.pending # 0 => credit'[saved'.pending] >= 1
      BY <1>1 DEF TypesOK, Credited
    <3> QED
      BY <2>5, <2>6, <2>7, <2>9, <2>10, <3>1, CreditStays
  <2>12. \A q \in Procs : At(q, "judging") => saved'.pending # 0
    BY <1>1 DEF Placed
  <2>13. \A q \in S : /\ Placed(q)' /\ Locked(q)' /\ Alone(q)'
                      /\ Instance(q)' => Instance(q) \/ \A s \in Procs \ {q} : ~Instance(s)'
    BY <2>6, <2>9, <2>10
  <2>14. \A q \in Procs \ S : /\ Same(q) /\ (installLock = q => installLock' = q)
                             /\ (trialLock = q <=> trialLock' = q)
                             /\ (At(q, "judging") => saved'.pending # 0) /\ Alone(q)'
    BY <1>1, <2>7, <2>8, <2>12
  <2> QED
    BY <2>5, <2>11, <2>13, <2>14, MovesKeep
<1> QED
  BY <1>2, <1>3

\* The customer starts the client.
LEMMA StartKeeps ==
  ASSUME IInv, NEW p \in Procs, StartClient(p)
  PROVE  IInv'
<1> USE ConstantTypes DEF IInv
<1>1. /\ UNCHANGED <<client, aside, staged, saved, marker, credit, trials, kills, installLock, trialLock>>
      /\ At(p, "none") /\ proc' = [proc EXCEPT ![p] = Run("startup", client, "client", NoProc)]
  BY DEF StartClient, bounds, files, locks, Free
<1>2. /\ Run("startup", client, "client", NoProc) \in RunType
      /\ Run("startup", client, "client", NoProc).at = "startup"
      /\ Run("startup", client, "client", NoProc).image = "client"
  BY DEF Run, RunType, Places, Starting, TypesOK, NoRun
<1>3. /\ proc' \in [Procs -> RunType] /\ proc'[p].at = "startup" /\ proc'[p].image = "client"
      /\ \A q \in Procs \ {p} : proc'[q] = proc[q]
  BY <1>1, <1>2 DEF TypesOK
<1>4. TypesOK'
  BY <1>1, <1>3 DEF TypesOK
<1>5. \A q \in Procs \ {p} : Same(q)
  BY <1>3 DEF Same, IsTrial
<1>6. \A q \in Procs \ {p} : Alone(q)'
  BY <1>3, <1>5, AloneStays DEF IsTrial
<1>7. /\ Placed(p)' /\ Claims(p)' /\ Locked(p)' /\ Alone(p)' /\ ~Instance(p)'
  BY <1>1, <1>3 DEF Placed, Starting, Trying, Installing, At, Claims, Tries, IsTrial,
                    Locked, Instance, Waits, Alone
<1>8. Credited'
  <2>1. /\ \A v \in Versions : credit'[v] >= credit[v]
        /\ saved'.pending # 0 => credit'[saved'.pending] >= 1
    BY <1>1 DEF TypesOK, Credited
  <2> QED
    BY <1>4, <1>5, <1>7, <2>1, OneCreditStays
<1>9. \A q \in Procs : At(q, "judging") => saved'.pending # 0
  BY <1>1 DEF Placed
<1> QED
  BY <1>1, <1>4, <1>5, <1>6, <1>7, <1>8, <1>9, MoveKeeps

\* A release is staged under the installer's lock, and nobody runs it.
LEMMA StageKeeps ==
  ASSUME IInv, NEW p \in Procs, NEW v \in Versions, stage(p, v)
  PROVE  IInv'
<1> USE ConstantTypes DEF IInv
<1>1. /\ UNCHANGED <<client, aside, saved, marker, credit, trials, kills, trialLock>>
      /\ At(p, "running") /\ installLock = NoProc /\ installLock' = p /\ ~InUse(v)
      /\ staged' = staged \cup {v}
      /\ proc' = [proc EXCEPT ![p].at = "staged", ![p].target = v]
  BY DEF stage, bounds
<1>2. /\ proc' \in [Procs -> RunType] /\ proc'[p].at = "staged" /\ proc'[p].target = v
      /\ proc'[p].image = proc[p].image /\ proc'[p].ver = proc[p].ver
      /\ \A q \in Procs \ {p} : proc'[q] = proc[q]
  <2>1. \A at \in Places : [proc[p] EXCEPT !.at = at, !.target = v] \in RunType
    <3>1. \A run \in RunType, at \in Places : [run EXCEPT !.at = at, !.target = v] \in RunType
      BY DEF RunType
    <3> QED
      BY <3>1 DEF TypesOK
  <2>2. [proc[p] EXCEPT !.at = "staged", !.target = v] \in RunType
    BY <2>1 DEF Places, Installing
  <2> QED
    BY <1>1, <2>2 DEF TypesOK, RunType
<1>3. TypesOK'
  BY <1>1, <1>2 DEF TypesOK
<1>4. \A q \in Procs \ {p} : Same(q)
  BY <1>2 DEF Same, IsTrial
<1>5. \A q \in Procs : IsTrial(q)' <=> IsTrial(q)
  BY <1>2 DEF IsTrial
<1>6. \A q \in Procs \ {p} : Alone(q)'
  BY <1>1, <1>4 DEF Alone, Same, Installing, At, Locked
<1>7. Alone(p)'
  BY <1>1, <1>2, <1>5 DEF Alone, InUse, Installing, At, IsTrial
<1>8. /\ Placed(p)' /\ Locked(p)' /\ Instance(p) /\ Claims(p)'
  BY <1>1, <1>2, <1>5 DEF Placed, Starting, Trying, Installing, At, Claims, Tries,
                    Locked, Instance, Waits
<1>9. Credited'
  <2>1. /\ \A u \in Versions : credit'[u] >= credit[u]
        /\ saved'.pending # 0 => credit'[saved'.pending] >= 1
    BY <1>1 DEF TypesOK, Credited
  <2> QED
    BY <1>3, <1>4, <1>8, <2>1, OneCreditStays
<1>10. \A q \in Procs : At(q, "judging") => saved'.pending # 0
  BY <1>1 DEF Placed
<1> QED
  BY <1>1, <1>3, <1>4, <1>6, <1>7, <1>8, <1>9, <1>10, MoveKeeps

\* Its record is its credit.
LEMMA RecordKeeps ==
  ASSUME IInv, NEW p \in Procs, RecordPending(p)
  PROVE  IInv'
<1> DEFINE v == proc[p].target
<1> USE ConstantTypes DEF IInv
<1>1. /\ UNCHANGED <<client, aside, staged, marker, kills, installLock, trialLock>>
      /\ At(p, "staged") /\ Goto(p, "recorded")
      /\ saved' = [saved EXCEPT !.pending = v]
      /\ credit' = [credit EXCEPT ![v] = @ + 1] /\ trials' = trials + 1
  BY DEF RecordPending, files, locks
<1>2. v \in Versions /\ installLock = p
  BY <1>1 DEF TypesOK, RunType, Placed, Installing, At, Locked
<1>3. /\ proc' \in [Procs -> RunType] /\ proc'[p].at = "recorded" /\ proc'[p].target = v
      /\ proc'[p].image = proc[p].image /\ proc'[p].ver = proc[p].ver
      /\ \A q \in Procs \ {p} : proc'[q] = proc[q]
  BY <1>1, GoingOn DEF Places, Installing
<1>4. /\ credit' \in [Versions -> Int] /\ credit'[v] = credit[v] + 1 /\ credit[v] >= 0
      /\ \A u \in Versions : credit'[u] >= credit[u]
      /\ saved'.pending = v /\ saved' \in SavedType
  BY <1>1, <1>2, SavedTypes DEF TypesOK, Credited, SavedType
<1>5. TypesOK'
  BY <1>1, <1>3, <1>4 DEF TypesOK, SavedType
<1>6. \A q \in Procs \ {p} : Same(q)
  BY <1>3 DEF Same, IsTrial
<1>7. \A q \in Procs : /\ IsTrial(q)' <=> IsTrial(q)
                       /\ proc'[q].ver = proc[q].ver
  BY <1>3 DEF IsTrial
<1>8. \A q \in Procs \ {p} : Alone(q)' /\ ~At(q, "judging")
  BY <1>1, <1>2, <1>6 DEF Alone, Same, Installing, At, Locked
<1>9. Alone(p)'
  BY <1>1, <1>3, <1>7 DEF Alone, Installing, At
<1>10. Placed(p)' /\ Locked(p)' /\ Instance(p)
  BY <1>1, <1>2, <1>3, <1>7 DEF Placed, Starting, Trying, Installing, At, Tries, Locked, Instance, Waits
<1>11. Claims(p)'
  <2>1. ~Tries(p)' /\ credit'[v] >= 1
    BY <1>2, <1>3, <1>4 DEF Tries, At, Trying, TypesOK
  <2> QED
    BY <1>3, <2>1 DEF Claims
<1>12. Credited'
  BY <1>2, <1>4, <1>5, <1>6, <1>11, OneCreditStays DEF TypesOK
<1> QED
  BY <1>1, <1>5, <1>6, <1>8, <1>9, <1>10, <1>12, MoveKeeps

\* The trial starts, and waits for nobody yet.
LEMMA StartTrialKeeps ==
  ASSUME IInv, NEW p \in Procs, NEW q \in Procs, start_trial(p, q)
  PROVE  IInv'
<1> DEFINE v == proc[p].target
           trial == Run("trial", v, "staged", p)
<1> USE ConstantTypes DEF IInv
<1>1. /\ UNCHANGED <<client, aside, staged, saved, credit, trials, kills, installLock, trialLock>>
      /\ At(p, "recorded") /\ At(q, "none") /\ marker' = NoProc /\ p # q
      /\ proc' = [proc EXCEPT ![p].at = "waiting", ![p].peer = q, ![q] = trial]
  BY DEF start_trial, bounds, files, locks, Free, At
<1>2. v \in Versions /\ installLock = p
  BY <1>1 DEF TypesOK, RunType, Placed, Installing, At, Locked
<1>3. /\ trial \in RunType /\ trial.at = "trial" /\ trial.image = "staged" /\ trial.ver = v
      /\ trial.peer = p
  <2>1. "trial" \in Places
    BY DEF Places
  <2>2. trial.at = "trial" /\ trial.image = "staged" /\ trial.ver = v /\ trial.peer = p
    BY DEF Run, NoRun
  <2>3. trial \in RunType
    BY <1>2, <2>1 DEF Run, NoRun, RunType
  <2> QED
    BY <2>2, <2>3
<1>4. [proc[p] EXCEPT !.at = "waiting", !.peer = q] \in RunType
  <2>1. \A at \in Places : [proc[p] EXCEPT !.at = at, !.peer = q] \in RunType
    <3>1. \A run \in RunType, at \in Places : [run EXCEPT !.at = at, !.peer = q] \in RunType
      BY DEF RunType
    <3> QED
      BY <3>1 DEF TypesOK
  <2> QED
    BY <2>1 DEF Places, Installing
<1>5. /\ proc' \in [Procs -> RunType]
      /\ proc'[p].at = "waiting" /\ proc'[p].peer = q /\ proc'[p].target = v
      /\ proc'[p].image = proc[p].image /\ proc'[p].ver = proc[p].ver
      /\ proc'[q].at = "trial" /\ proc'[q].image = "staged" /\ proc'[q].ver = v
      /\ proc'[q].peer = p
      /\ \A r \in Procs \ {p, q} : proc'[r] = proc[r]
  <2> HIDE DEF trial
  <2> QED
    BY <1>1, <1>3, <1>4 DEF TypesOK, RunType
<1> HIDE DEF trial
<1>6. TypesOK'
  BY <1>1, <1>5 DEF TypesOK
<1>7. PICK S \in SUBSET Procs : S = {p, q}
  OBVIOUS
<1>8. \A r \in Procs \ S : Same(r)
  BY <1>5, <1>7 DEF Same, IsTrial
<1>9. \A r \in Procs \ S : Alone(r)'
  BY <1>2, <1>7, <1>8 DEF Alone, Same, Installing, At, Locked
<1>10. Alone(p)'
  BY <1>1, <1>5 DEF Alone, Installing, At, IsTrial
<1>11. Placed(p)' /\ Locked(p)' /\ Instance(p) /\ Claims(p)'
  <2>1. Placed(p)' /\ Instance(p)
    BY <1>1, <1>2, <1>5 DEF Placed, Starting, Trying, Installing, At, Tries, Instance, Waits, IsTrial
  <2>2. Locked(p)' /\ Claims(p)'
    BY <1>1, <1>2, <1>5 DEF Installing, Trying, At, Tries, Locked, IsTrial, Credited, Claims
  <2> QED
    BY <2>1, <2>2
<1>12. Placed(q)' /\ Locked(q)' /\ ~Instance(q)' /\ Claims(q)' /\ Alone(q)'
  <2>1. Placed(q)' /\ ~Instance(q)'
    BY <1>1, <1>2, <1>5 DEF Placed, Starting, Trying, Installing, At, Tries, Instance, Waits, IsTrial
  <2>2. Locked(q)' /\ Claims(q)' /\ Alone(q)'
    BY <1>1, <1>2, <1>5 DEF Installing, Trying, At, Tries, Locked, IsTrial, Claims, Alone
  <2> QED
    BY <2>1, <2>2
<1>13. Credited'
  <2>1. /\ \A u \in Versions : credit'[u] >= credit[u]
        /\ saved'.pending # 0 => credit'[saved'.pending] >= 1
    BY <1>1 DEF TypesOK, Credited
  <2> QED
    BY <1>6, <1>7, <1>8, <1>11, <1>12, <2>1, CreditStays
<1>14. \A r \in Procs : At(r, "judging") => saved'.pending # 0
  BY <1>1 DEF Placed
<1>15. \A r \in S : /\ Placed(r)' /\ Locked(r)' /\ Alone(r)'
                    /\ Instance(r)' => Instance(r) \/ \A s \in Procs \ {r} : ~Instance(s)'
  BY <1>7, <1>10, <1>11, <1>12
<1>16. \A r \in Procs \ S : /\ Same(r) /\ (installLock = r => installLock' = r)
                           /\ (trialLock = r <=> trialLock' = r)
                           /\ (At(r, "judging") => saved'.pending # 0) /\ Alone(r)'
  BY <1>1, <1>8, <1>9, <1>14
<1> QED
  BY <1>6, <1>13, <1>15, <1>16, MovesKeep

\* The trial is over before it was up: no process is left that runs it.
LEMMA EndedKeeps ==
  ASSUME IInv, NEW p \in Procs, TrialEnded(p) \/ TrialHeldUp(p)
  PROVE  IInv'
<1> DEFINE v == proc[p].target
<1> USE ConstantTypes DEF IInv
<1>0. PICK q \in Procs \cup {NoProc} : q = proc[p].peer
  BY DEF TypesOK, RunType
<1>1. /\ UNCHANGED <<client, aside, saved, marker, credit, trials, kills, installLock>>
      /\ At(p, "waiting") /\ staged' = staged \ {v} /\ p # q
      /\ \A r \in Procs : IsTrial(r) /\ proc[r].ver = v => r = q /\ proc[r].peer = p
  BY <1>0 DEF TrialEnded, TrialHeldUp, unstage, locks, bounds, Alone, Placed
<1>2. PICK S \in SUBSET Procs :
        /\ p \in S /\ S \subseteq {p, q}
        /\ proc'[p].at \in {"blame", "excuse"} /\ proc'[p].ver = proc[p].ver
        /\ proc'[p].target = v /\ proc'[p].image = proc[p].image
        /\ q \in S => proc'[q] = NoRun
        /\ \A r \in Procs \ S : proc'[r] = proc[r]
        /\ Child(p) => q \in S
        /\ trialLock' = trialLock \/ (trialLock' = NoProc /\ trialLock \in S)
        /\ q \in S => trialLock' # q
        /\ proc' \in [Procs -> RunType]
  <2>1. CASE TrialEnded(p)
    <3>1. "blame" \in Places
      BY DEF Places, Installing
    <3>2. /\ proc' \in [Procs -> RunType] /\ proc'[p].at = "blame" /\ proc'[p].ver = proc[p].ver
          /\ proc'[p].target = v /\ proc'[p].image = proc[p].image
          /\ \A r \in Procs \ {p} : proc'[r] = proc[r]
      BY <2>1, <3>1, GoingOn DEF TrialEnded
    <3>3. q \notin {p} /\ trialLock' = trialLock /\ ~Child(p)
      BY <1>1, <2>1 DEF TrialEnded, locks
    <3> QED
      BY <3>2, <3>3
  <2>2. CASE TrialHeldUp(p)
    <3>1. [proc[p] EXCEPT !.at = "excuse"] \in RunType
      <4>1. \A at \in Places : [proc[p] EXCEPT !.at = at] \in RunType
        BY DEF TypesOK, RunType
      <4> QED
        BY <4>1 DEF Places, Installing
    <3>2. /\ q \in Procs /\ trialLock' = Freed(trialLock, q)
          /\ proc' = [proc EXCEPT ![p].at = "excuse", ![q] = NoRun]
      BY <1>0, <2>2 DEF TrialHeldUp, Child
    <3>3. /\ proc' \in [Procs -> RunType] /\ proc'[p].at = "excuse" /\ proc'[p].ver = proc[p].ver
          /\ proc'[p].target = v /\ proc'[p].image = proc[p].image /\ proc'[q] = NoRun
          /\ \A r \in Procs \ {p, q} : proc'[r] = proc[r]
      BY <1>1, <3>1, <3>2 DEF TypesOK, RunType
    <3>4. PICK S \in SUBSET Procs : S = {p, q}
      BY <3>2
    <3> QED
      BY <1>1, <3>2, <3>3, <3>4 DEF Freed
  <2> QED
    BY <2>1, <2>2
<1>3. TypesOK'
  BY <1>1, <1>2 DEF TypesOK
<1>4. installLock = p /\ trialLock # p /\ Instance(p)
  BY <1>1 DEF Locked, Installing, Tries, At, Trying, Instance, Waits
<1>5. \A r \in Procs \ S : Same(r)
  BY <1>2 DEF Same, IsTrial
<1>6. \A r \in Procs : IsTrial(r)' => IsTrial(r) /\ r \notin S \ {p} /\ proc'[r].ver = proc[r].ver
  BY <1>2 DEF IsTrial
<1>7. \A r \in Procs \ S : Alone(r)'
  BY <1>2, <1>4, <1>5 DEF Alone, Same, Installing, At, Locked
<1>8. Alone(p)'
  <2>1. ASSUME NEW r \in Procs, IsTrial(r)', proc'[r].ver = v PROVE FALSE
    <3>1. r = q /\ proc[r].peer = p
      BY <1>1, <1>6, <2>1
    <3>2. Child(p)
      BY <1>0, <3>1, <2>1 DEF Child
    <3> QED
      BY <1>1, <1>2, <1>6, <2>1, <3>1, <3>2
  <2> QED
    BY <1>2, <2>1 DEF Alone, At
<1>9. credit[v] >= 1
  BY <1>1 DEF Credited, Claims, Installing, At
<1>10. Placed(p)' /\ Locked(p)' /\ Claims(p)'
  BY <1>1, <1>2, <1>4, <1>9 DEF Placed, Starting, Trying, Installing, At, Tries, Locked, IsTrial, Claims
<1>11. q \in S => Placed(q)' /\ Locked(q)' /\ ~Instance(q)' /\ Claims(q)' /\ Alone(q)'
  BY <1>1, <1>2, <1>4 DEF Placed, Starting, Trying, Installing, At, Tries, Locked, Instance, Waits,
                         IsTrial, Claims, Alone
<1>12. Credited'
  <2>1. /\ \A u \in Versions : credit'[u] >= credit[u]
        /\ saved'.pending # 0 => credit'[saved'.pending] >= 1
    BY <1>1 DEF TypesOK, Credited
  <2> QED
    BY <1>2, <1>3, <1>5, <1>10, <1>11, <2>1, CreditStays
<1>13. \A r \in S : /\ Placed(r)' /\ Locked(r)' /\ Alone(r)'
                    /\ Instance(r)' => Instance(r) \/ \A s \in Procs \ {r} : ~Instance(s)'
  BY <1>2, <1>4, <1>8, <1>10, <1>11
<1>14. \A r \in Procs \ S : /\ Same(r) /\ (installLock = r => installLock' = r)
                           /\ (trialLock = r <=> trialLock' = r)
                           /\ (At(r, "judging") => saved'.pending # 0) /\ Alone(r)'
  BY <1>1, <1>2, <1>5, <1>7 DEF Placed
<1> QED
  BY <1>3, <1>12, <1>13, <1>14, MovesKeep

\* Who accounts for a trial holds what every other claim on it would.
LEMMA AccountKeeps ==
  ASSUME IInv, NEW p \in Procs, NEW v \in Versions,
         Goto(p, IF At(p, "judging") THEN "instance" ELSE "running"),
         \/ At(p, "judging") /\ v = saved.pending
         \/ proc[p].at \in {"blame", "excuse"} /\ v = proc[p].target
         \/ proc[p].at \in {"moved", "unmoved"} /\ v = proc[p].ver,
         saved' \in SavedType, saved'.pending \in {0, saved.pending} \ {v},
         ~(proc[p].at \in {"moved", "unmoved"}) => saved'.pending = 0,
         credit' = [credit EXCEPT ![v] = @ - 1],
         installLock' = Freed(installLock, p), trialLock' = Freed(trialLock, p),
         UNCHANGED <<files, marker, trials>>, kills' \in Nat
  PROVE  IInv'
<1> USE ConstantTypes DEF IInv
<1>1. PICK at \in {"instance", "running"} : Goto(p, at) /\ (at = "instance" <=> At(p, "judging"))
  BY DEF At
<1>2. /\ proc' \in [Procs -> RunType] /\ proc'[p].at = at /\ proc'[p].image = proc[p].image
      /\ proc'[p].ver = proc[p].ver /\ \A r \in Procs \ {p} : proc'[r] = proc[r]
  BY <1>1, GoingOn DEF Places
<1>3. /\ credit' \in [Versions -> Int] /\ credit'[v] = credit[v] - 1
      /\ \A u \in Versions \ {v} : credit'[u] = credit[u]
  BY DEF TypesOK
<1>4. TypesOK'
  BY <1>2, <1>3 DEF TypesOK, SavedType, files, Freed
<1>5. \A r \in Procs \ {p} : Same(r)
  BY <1>2 DEF Same, IsTrial
<1>6. credit[v] >= 1
  BY DEF Credited, Claims, Installing, Trying, Tries, At
<1>7. ASSUME NEW r \in Procs \ {p}
      PROVE  /\ proc[r].at \notin Installing
             /\ Tries(r) => proc[r].ver # v
             /\ At(r, "judging") => saved'.pending # 0
  <2>1. CASE At(p, "judging")
    BY <2>1 DEF Locked, Installing, At
  <2>2. CASE proc[p].at \in {"blame", "excuse"} /\ v = proc[p].target
    <3>1. installLock = p /\ Instance(p) /\ \A q \in Procs : IsTrial(q) => proc[q].ver # v
      BY <2>2 DEF Locked, Installing, Alone, Instance, Waits
    <3>2. ~At(r, "moved")
      BY <3>1 DEF OneInstance, Instance, Waits, At
    <3> QED
      BY <3>1, <3>2 DEF Locked, Tries, Placed, At, Trying
  <2>3. CASE proc[p].at \in {"moved", "unmoved"}
    <3>1. Tries(p) /\ trialLock = p /\ Instance(p)
      BY <2>3 DEF Tries, Trying, Locked, Instance, Waits
    <3>2. proc[r].at \notin Installing
      BY <3>1 DEF OneInstance, Instance, Waits, Installing
    <3> QED
      BY <3>1, <3>2 DEF Locked
  <2> QED
    BY <2>1, <2>2, <2>3
<1>8. \A r \in Procs \ {p} : Alone(r)'
  BY <1>5, <1>7 DEF Alone, Same, Installing, At
<1>9. \A r \in Procs \ {p} : /\ installLock = r => installLock' = r
                             /\ trialLock = r <=> trialLock' = r
  BY DEF Freed
<1>10. at = "instance" => ~IsTrial(p)
  BY <1>1 DEF Placed, Starting, At
<1>11. Placed(p)' /\ Alone(p)' /\ (Instance(p)' => Instance(p)) /\ ~Tries(p)'
  BY <1>1, <1>2, <1>10 DEF Placed, Starting, Trying, Installing, At, Tries, IsTrial, Alone,
                           Instance, Waits
<1>12. Locked(p)'
  BY <1>2, <1>11 DEF Locked, Installing, At, Freed
<1>13. Credited'
  <2>1. \A u \in Versions : credit'[u] >= 0
    BY <1>3, <1>6 DEF Credited, TypesOK
  <2>2. saved'.pending # 0 => credit'[saved'.pending] >= 1
    BY <1>3 DEF Credited, TypesOK
  <2>3. ASSUME NEW r \in Procs \ {p} PROVE Claims(r)'
    <3>1. Tries(r) => proc[r].ver \in Versions \ {v} /\ credit[proc[r].ver] >= 1
      BY <1>7 DEF Placed, TypesOK, RunType, Credited, Claims
    <3>2. Tries(r)' <=> Tries(r)
      BY <1>2 DEF Tries, At, IsTrial
    <3> QED
      BY <1>2, <1>3, <1>7, <3>1, <3>2 DEF Claims
  <2>4. Claims(p)'
    BY <1>2, <1>11 DEF Claims, Installing
  <2> QED
    BY <2>1, <2>2, <2>3, <2>4 DEF Credited
<1> QED
  BY <1>4, <1>5, <1>7, <1>8, <1>9, <1>11, <1>12, <1>13, MoveKeeps

\* One whose account could not be saved leaves the record, and its credit, to another.
LEMMA UnsavedKeeps ==
  ASSUME IInv, NEW p \in Procs,
         Goto(p, IF At(p, "judging") THEN "instance" ELSE "running"),
         proc[p].at \in {"judging", "blame", "excuse", "moved", "unmoved"},
         UNCHANGED <<saved, credit>>,
         installLock' = Freed(installLock, p), trialLock' = Freed(trialLock, p),
         UNCHANGED <<files, marker, trials>>, kills' \in Nat
  PROVE  IInv'
<1> USE ConstantTypes DEF IInv
<1>1. PICK at \in {"instance", "running"} : Goto(p, at) /\ (at = "instance" <=> At(p, "judging"))
  BY DEF At
<1>2. at \in Places \ Installing
  BY DEF Places, Installing
<1>3. /\ proc' \in [Procs -> RunType] /\ proc'[p].at = at /\ proc'[p].image = proc[p].image
      /\ proc'[p].ver = proc[p].ver
  BY <1>1, <1>2, GoingOn
<1>4. TypesOK'
  BY <1>3 DEF TypesOK, files, Freed
<1>5. at = "instance" => ~IsTrial(p)
  BY <1>1 DEF Placed, Starting, At
<1>6. ~Tries(p)' /\ installLock' # p /\ trialLock' # p
  BY <1>3, <1>5 DEF Tries, Trying, At, IsTrial, Freed
<1>7. Placed(p)' /\ Claims(p)'
  BY <1>3, <1>5, <1>6 DEF Placed, Claims, Starting, Trying, Installing, At, IsTrial
<1>8. Locked(p)'
  BY <1>3, <1>6 DEF Locked, Installing, At
<1>9. Instance(p)' => Instance(p)
  BY <1>1, <1>3 DEF Instance, Waits, At
<1>10. \A r \in Procs \ {p} : /\ installLock = r => installLock' = r
                              /\ trialLock = r <=> trialLock' = r
  BY DEF Freed
<1> QED
  BY <1>1, <1>2, <1>4, <1>7, <1>8, <1>9, <1>10, GoesOn

\* The next start judges it, its installer gives it up, or it saves its own outcome.
LEMMA AccountingKeeps ==
  ASSUME IInv, NEW p \in Procs, judge_ended_trial(p) \/ install(p) \/ SaveOutcome(p)
  PROVE  IInv'
<1> USE ConstantTypes DEF IInv
<1>1. saved \in SavedType /\ proc[p] \in RunType /\ kills \in Nat /\ kills + 1 \in Nat
  BY DEF TypesOK, SavedType
<1>2. CASE judge_ended_trial(p)
  <2>1. PICK u \in Versions : u = saved.pending
    BY <1>2 DEF judge_ended_trial, Placed, TypesOK
  <2>2. PICK s \in SavedType :
          s = NoPending(IF u = proc[p].ver THEN saved ELSE record_failure(saved, u)) /\ s.pending = 0
    BY <1>1, SavedTypes
  <2>3. /\ At(p, "judging") /\ Goto(p, "instance") /\ SavesAccount(s, u)
        /\ installLock' = Freed(installLock, p) /\ trialLock' = Freed(trialLock, p)
        /\ UNCHANGED <<files, marker, trials>>
    BY <1>2, <2>1, <2>2 DEF judge_ended_trial
  <2>4. CASE saved' = s /\ credit' = [credit EXCEPT ![u] = @ - 1] /\ UNCHANGED kills
    <3>1. s.pending \in {0, saved.pending} \ {u}
      BY <2>2
    <3> QED
      BY <1>1, <2>1, <2>2, <2>3, <2>4, <3>1, AccountKeeps
  <2>5. CASE kills' = kills + 1 /\ UNCHANGED <<saved, credit>>
    BY <1>1, <2>3, <2>5, UnsavedKeeps DEF At
  <2> QED
    BY <2>3, <2>4, <2>5 DEF SavesAccount
<1>3. CASE install(p)
  <2>1. PICK u \in Versions : u = proc[p].target
    BY <1>1, <1>3 DEF install, Placed, RunType, Installing
  <2>2. PICK s \in SavedType :
          s = NoPending(IF At(p, "blame") THEN record_failure(saved, u) ELSE saved) /\ s.pending = 0
    BY <1>1, SavedTypes
  <2>3. /\ proc[p].at \in {"blame", "excuse"} /\ Goto(p, "running") /\ SavesAccount(s, u)
        /\ installLock' = Freed(installLock, p) /\ UNCHANGED <<files, trialLock, marker, trials>>
    BY <1>3, <2>1, <2>2 DEF install
  <2>4. trialLock # p
    BY <2>3 DEF Locked, Tries, At, Trying
  <2>5. trialLock' = Freed(trialLock, p) /\ ~At(p, "judging")
    BY <2>3, <2>4 DEF Freed, At
  <2>6. CASE saved' = s /\ credit' = [credit EXCEPT ![u] = @ - 1] /\ UNCHANGED kills
    <3>1. s.pending \in {0, saved.pending} \ {u}
      BY <2>2
    <3> QED
      BY <1>1, <2>1, <2>2, <2>3, <2>5, <2>6, <3>1, AccountKeeps
  <2>7. CASE kills' = kills + 1 /\ UNCHANGED <<saved, credit>>
    BY <1>1, <2>3, <2>5, <2>7, UnsavedKeeps
  <2> QED
    BY <2>3, <2>6, <2>7 DEF SavesAccount
<1>4. CASE SaveOutcome(p)
  <2>1. PICK u \in Versions : u = proc[p].ver
    BY <1>1, <1>4 DEF SaveOutcome, Placed, RunType, Tries, Trying
  <2>2. PICK r \in SavedType : /\ r = (IF saved.pending = u THEN NoPending(saved) ELSE saved)
                               /\ r.pending \in {0, saved.pending} \ {u}
    BY <1>1, <2>1, SavedTypes
  <2>3. PICK s \in SavedType : /\ s = (IF At(p, "moved") THEN clear_failures(r, u)
                                                          ELSE record_failure(r, u))
                               /\ s.pending = r.pending
    BY <2>2, SavedTypes
  <2>4. /\ proc[p].at \in {"moved", "unmoved"} /\ Goto(p, "running") /\ SavesAccount(s, u)
        /\ installLock' = Freed(installLock, p) /\ trialLock' = Freed(trialLock, p)
        /\ UNCHANGED <<files, marker, trials>>
    BY <1>4, <2>1, <2>2, <2>3 DEF SaveOutcome
  <2>5. ~At(p, "judging")
    BY <2>4 DEF At
  <2>6. CASE saved' = s /\ credit' = [credit EXCEPT ![u] = @ - 1] /\ UNCHANGED kills
    BY <1>1, <2>1, <2>2, <2>3, <2>4, <2>5, <2>6, AccountKeeps
  <2>7. CASE kills' = kills + 1 /\ UNCHANGED <<saved, credit>>
    BY <1>1, <2>4, <2>5, <2>7, UnsavedKeeps
  <2> QED
    BY <2>4, <2>6, <2>7 DEF SavesAccount
<1> QED
  BY <1>2, <1>3, <1>4

\* A trial that moves into place, or back, makes nobody else a trial and none less.
LEMMA RenameKeeps ==
  ASSUME IInv, NEW q \in Procs, At(q, "moving") \/ At(q, "half"),
         NEW at \in {"half", "moved", "unmoved"}, NEW image \in {"staged", "client"},
         at = "moved" <=> image = "client",
         NEW from \in {"client", "aside"}, NEW to \in {"client", "aside"},
         Renamed(q, at, image, from, to),
         client' \in 0 .. MaxVersion, aside' \in [Procs -> 0 .. MaxVersion],
         staged' \subseteq Versions, kills' \in Nat,
         UNCHANGED <<saved, locks, marker, credit, trials>>
  PROVE  IInv'
<1> USE ConstantTypes DEF IInv
<1>1. /\ proc' \in [Procs -> RunType]
      /\ proc'[q].at = at /\ proc'[q].image = image /\ proc'[q].ver = proc[q].ver
      /\ proc'[q].peer = proc[q].peer
      /\ \A r \in Procs \ {q} :
                               /\ proc'[r].at = proc[r].at /\ proc'[r].ver = proc[r].ver
                               /\ proc'[r].peer = proc[r].peer /\ proc'[r].target = proc[r].target
                               /\ proc'[r].image = "staged" <=> proc[r].image = "staged"
  <2>1. [proc[q] EXCEPT !.at = at, !.image = image] \in RunType
    <3>1. at \in Places
      BY DEF Places, Trying
    <3>2. proc[q] \in RunType
      BY DEF TypesOK
    <3>3. \A run \in RunType : [run EXCEPT !.at = at, !.image = image] \in RunType
      BY <3>1 DEF RunType
    <3> QED
      BY <3>2, <3>3
  <2>2. \A r \in Procs : /\ proc[r] \in RunType
                         /\ [proc[r] EXCEPT !.image = to] \in RunType
    BY DEF TypesOK, RunType
  <2>3. \A r \in Procs : proc'[r] = IF r = q THEN [proc[r] EXCEPT !.at = at, !.image = image]
                                    ELSE IF proc[r].image = from THEN [proc[r] EXCEPT !.image = to]
                                    ELSE proc[r]
    BY DEF Renamed
  <2>4. proc' \in [Procs -> RunType]
    BY <2>1, <2>2 DEF Renamed
  <2>5. \A r \in Procs \ {q} : /\ proc'[r].at = proc[r].at /\ proc'[r].ver = proc[r].ver
                               /\ proc'[r].peer = proc[r].peer /\ proc'[r].target = proc[r].target
                               /\ proc'[r].image = "staged" <=> proc[r].image = "staged"
    <3> SUFFICES ASSUME NEW r \in Procs \ {q}
                 PROVE  /\ proc'[r].at = proc[r].at /\ proc'[r].ver = proc[r].ver
                        /\ proc'[r].peer = proc[r].peer /\ proc'[r].target = proc[r].target
                        /\ proc'[r].image = "staged" <=> proc[r].image = "staged"
      OBVIOUS
    <3>1. CASE proc[r].image = from
      <4>1. proc'[r] = [proc[r] EXCEPT !.image = to] /\ proc[r] \in RunType
        BY <2>2, <2>3, <3>1
      <4> QED
        BY <3>1, <4>1 DEF RunType
    <3>2. CASE proc[r].image # from
      BY <2>3, <3>2
    <3> QED
      BY <3>1, <3>2
  <2>6. /\ proc'[q].at = at /\ proc'[q].image = image /\ proc'[q].ver = proc[q].ver
        /\ proc'[q].peer = proc[q].peer
    <3>1. proc'[q] = [proc[q] EXCEPT !.at = at, !.image = image] /\ proc[q] \in RunType
      BY <2>2, <2>3
    <3> QED
      BY <3>1 DEF RunType
  <2> QED
    BY <2>4, <2>5, <2>6
<1>2. TypesOK'
  BY <1>1 DEF TypesOK, locks
<1>3. \A r \in Procs \ {q} : Same(r)
  <2> SUFFICES ASSUME NEW r \in Procs \ {q} PROVE Same(r)
    OBVIOUS
  <2>1. IsTrial(r)' <=> IsTrial(r)
    BY <1>1 DEF IsTrial
  <2> QED
    BY <1>1, <2>1 DEF Same
<1>4. IsTrial(q) /\ Tries(q) /\ Instance(q) /\ trialLock = q
  BY DEF Placed, Tries, Trying, At, Instance, Waits, Locked
<1>5. \A r \in Procs \ {q} : Alone(r)'
  <2>1. \A r \in Procs : IsTrial(r)' => /\ IsTrial(r) /\ proc'[r].ver = proc[r].ver
                                       /\ proc'[r].peer = proc[r].peer
    BY <1>1, <1>3, <1>4 DEF Same
  <2> QED
    BY <1>3, <2>1, AloneStays
<1>6. /\ Placed(q)' /\ Locked(q)' /\ Alone(q)' /\ Claims(q)'
  BY <1>1, <1>4 DEF Placed, Starting, Trying, Installing, At, Tries, Locked, IsTrial, Alone,
                    Credited, Claims, locks
<1>7. Credited'
  <2>1. /\ \A v \in Versions : credit'[v] >= credit[v]
        /\ saved'.pending # 0 => credit'[saved'.pending] >= 1
    BY DEF TypesOK, Credited
  <2> QED
    BY <1>2, <1>3, <1>6, <2>1, OneCreditStays
<1>8. \A r \in Procs : At(r, "judging") => saved'.pending # 0
  BY DEF Placed
<1> QED
  BY <1>2, <1>3, <1>4, <1>5, <1>6, <1>7, <1>8, MoveKeeps DEF locks

\* Putting an update in place, in one move or two, or putting the old client
\* back after a failed one.
LEMMA MoveIntoPlaceKeeps ==
  ASSUME IInv, NEW q \in Procs, move_into_place(q) \/ move_in_two_steps(q) \/ PutBack(q)
  PROVE  IInv'
<1> USE ConstantTypes DEF IInv
<1>1. /\ client \in 0 .. MaxVersion /\ aside[q] \in 0 .. MaxVersion /\ proc[q].ver \in 0 .. MaxVersion
      /\ aside \in [Procs -> 0 .. MaxVersion] /\ staged \subseteq Versions /\ kills \in Nat
      /\ [aside EXCEPT ![q] = client] \in [Procs -> 0 .. MaxVersion]
      /\ [aside EXCEPT ![q] = 0] \in [Procs -> 0 .. MaxVersion]
  BY DEF TypesOK, RunType
<1>2. CASE move_into_place(q) /\ ClientInUse
  <2>1. /\ At(q, "moving") /\ Renamed(q, "half", "staged", "client", "aside")
        /\ client' = 0 /\ aside' = [aside EXCEPT ![q] = client]
        /\ UNCHANGED <<staged, saved, locks, marker, credit, bounds>>
    BY <1>2 DEF move_into_place
  <2> QED
    BY <1>1, <2>1, RenameKeeps DEF bounds
<1>3. CASE (move_into_place(q) /\ ~ClientInUse) \/ move_in_two_steps(q)
  <2>1. /\ At(q, "moving") \/ At(q, "half")
        /\ Renamed(q, "moved", "client", "client", "client")
        /\ client' = proc[q].ver /\ staged' = staged \ {proc[q].ver}
        /\ UNCHANGED <<saved, locks, marker, credit, bounds>>
    BY <1>3 DEF move_into_place, move_in_two_steps
  <2>2. aside' \in [Procs -> 0 .. MaxVersion]
    BY <1>1, <1>3 DEF move_into_place, move_in_two_steps
  <2> QED
    BY <1>1, <2>1, <2>2, RenameKeeps DEF bounds
<1>4. CASE PutBack(q)
  <2>1. /\ At(q, "half") /\ kills' = kills + 1
        /\ UNCHANGED <<staged, saved, locks, marker, credit, trials>>
    BY <1>4 DEF PutBack
  <2>2. CASE Renamed(q, "unmoved", "staged", "aside", "client")
               /\ client' = aside[q] /\ aside' = [aside EXCEPT ![q] = 0]
    BY <1>1, <2>1, <2>2, RenameKeeps
  <2>3. CASE client' \in {aside[q], 0} /\ UNCHANGED aside /\ Goto(q, "unmoved")
    <3>1. "unmoved" \in Places \ Installing
      BY DEF Places, Installing, Trying
    <3>2. /\ proc' \in [Procs -> RunType] /\ proc'[q].at = "unmoved"
          /\ proc'[q].image = proc[q].image /\ proc'[q].ver = proc[q].ver
      BY <2>3, <3>1, GoingOn
    <3>3. TypesOK'
      BY <1>1, <2>1, <2>3, <3>2 DEF TypesOK, locks
    <3>4. IsTrial(q) /\ Tries(q) /\ Instance(q) /\ trialLock = q
      BY <2>1 DEF Placed, Tries, Trying, At, Instance, Waits, Locked
    <3>5. Placed(q)' /\ Claims(q)' /\ Locked(q)'
      BY <2>1, <3>2, <3>4 DEF Placed, Starting, Trying, Installing, At, Tries, Locked, IsTrial,
                              Credited, Claims, locks
    <3> QED
      BY <2>1, <2>3, <3>1, <3>3, <3>4, <3>5, GoesOn DEF locks
  <2> QED
    BY <1>4, <2>2, <2>3 DEF PutBack
<1> QED
  BY <1>2, <1>3, <1>4

\* A refusal expires.
LEMMA ExpiryKeeps ==
  ASSUME IInv, NEW v \in Versions, RejectionExpires(v)
  PROVE  IInv'
<1>1. /\ UNCHANGED <<client, aside, staged, installLock, trialLock, marker, proc, credit, trials, kills>>
      /\ saved' = [saved EXCEPT !.rejected = @ \ {v}]
  BY DEF RejectionExpires, files, locks, bounds
<1>2. saved' \in SavedType /\ saved'.pending = saved.pending
  BY <1>1 DEF IInv, TypesOK, SavedType
<1>3. TypesOK'
  BY <1>1, <1>2 DEF IInv, TypesOK, SavedType
<1>4. (\A p \in Procs : Placed(p) /\ Locked(p) /\ Alone(p))'
  BY <1>1, <1>2 DEF IInv, Placed, Locked, Alone, At, IsTrial, Tries
<1>5. OneInstance'
  BY <1>1 DEF IInv, OneInstance, Instance
<1>6. Credited'
  BY <1>1, <1>2 DEF IInv, Credited, Claims, At, IsTrial, Tries
<1> QED
  BY <1>3, <1>4, <1>5, <1>6 DEF IInv

\* Every step keeps the invariant.
LEMMA StepKeeps ==
  ASSUME IInv, [Next]_vars
  PROVE  IInv'
<1>1. CASE UNCHANGED vars
  BY <1>1 DEF vars, files, locks, bounds, IInv, TypesOK, Placed, Locked, Alone, OneInstance, Instance,
              Credited, Claims, At, IsTrial, Tries
<1>2. ASSUME NEW p \in Procs,
             Quit(p) \/ Kill(p) \/ TrialStarted(p) \/ StepsAside(p)
      PROVE  IInv'
  <2>1. /\ Exits(p) /\ UNCHANGED <<saved, credit>> /\ UNCHANGED <<files, marker, trials>>
        /\ kills' \in Nat
    <3>1. kills \in Nat
      BY DEF IInv, TypesOK
    <3>2. CASE Kill(p)
      BY <3>1, <3>2 DEF Kill
    <3>3. CASE Quit(p) \/ TrialStarted(p) \/ StepsAside(p)
      BY <3>1, <3>3 DEF Quit, TrialStarted, StepsAside, bounds
    <3> QED
      BY <1>2, <3>2, <3>3
  <2> QED
    BY <2>1, ExitKeeps
<1>3. ASSUME NEW p \in Procs, Step(p)
      PROVE  IInv'
  BY <1>2, <1>3, StartupKeeps, AccountingKeeps, InstanceKeeps, FilesKeep, RecordKeeps, StartTrialKeeps,
     EndedKeeps, TrialKeeps, StepAsideKeeps, MoveIntoPlaceKeeps DEF Step
<1>4. CASE Next
  BY <1>2, <1>3, <1>4, StartKeeps, FilesKeep, StageKeeps, ExpiryKeeps DEF Next
<1> QED
  BY <1>1, <1>4

-----------------------------------------------------------------------------
\* The invariant of every reachable state.
THEOREM UpdateInvariance == Spec => []IInv
<1>1. Init => IInv
  <2> SUFFICES ASSUME Init PROVE IInv
    OBVIOUS
  <2> USE ConstantTypes
  <2>1. /\ \A p \in Procs : proc[p] = NoRun
        /\ saved.pending = 0 /\ saved \in SavedType /\ trialLock = NoProc
        /\ credit = [v \in Versions |-> 0]
    BY DEF Init, SavedType, FAILURES_BEFORE_REJECT
  <2>2. TypesOK
    BY <2>1 DEF Init, TypesOK, SavedType
  <2>3. \A p \in Procs : At(p, "none") /\ ~IsTrial(p) /\ ~Tries(p)
    BY <2>1 DEF At, IsTrial, Tries, Trying
  <2>4. \A p \in Procs : Placed(p) /\ Locked(p) /\ Alone(p) /\ ~Instance(p) /\ Claims(p)
    BY <2>1, <2>3 DEF Placed, Locked, Alone, Instance, Claims, At, Starting, Installing, Trying, Waits
  <2> QED
    BY <2>1, <2>2, <2>4 DEF IInv, OneInstance, Credited
<1>2. IInv /\ [Next]_vars => IInv'
  BY StepKeeps
<1> QED
  BY <1>1, <1>2, PTL DEF Spec

\* The types of the files, the locks, the record and the processes.
THEOREM UpdateTypes == Spec => []TypesOK
<1>1. IInv => TypesOK
  BY DEF IInv
<1> QED
  BY <1>1, UpdateInvariance, PTL

\* A live trial that holds its lock keeps its credit: no other start judges it, and no
\* trial is counted twice (the property JudgedOnce).
THEOREM TrialsJudgedOnce == Spec => []JudgedOnce
<1>1. IInv => JudgedOnce
  <2> SUFFICES ASSUME IInv, NEW v \in Versions
               PROVE  credit[v] >= Cardinality(Unjudged(v))
    BY DEF JudgedOnce
  <2>1. CASE Unjudged(v) = {}
    BY <2>1, FS_EmptySet DEF IInv, Credited
  <2>2. CASE Unjudged(v) # {}
    <3>1. PICK q \in Procs : trialLock = q /\ IsTrial(q) /\ proc[q].ver = v
      BY <2>2 DEF Unjudged
    <3>2. Unjudged(v) = {q}
      BY <3>1 DEF Unjudged
    <3>3. Tries(q)
      BY <3>1 DEF IInv, Locked, Placed, Starting, At
    <3>4. credit[v] >= 1
      BY <3>1, <3>3 DEF IInv, Credited, Claims
    <3> QED
      BY <3>2, <3>4, FS_Singleton
  <2> QED
    BY <2>1, <2>2
<1> QED
  BY <1>1, UpdateInvariance, PTL
=============================================================================
