---------------------------- MODULE ClientUpdate ----------------------------
(***************************************************************************)
(* How the desktop client replaces itself (update.rs): the running client  *)
(* downloads a signed release, stages it beside itself, records it and     *)
(* starts it as a trial; the trial waits for it to exit, shows its window, *)
(* confirms, and moves into the customer's client's place.  One that does  *)
(* not come up steps aside; one that died is judged by the next start.     *)
(*                                                                         *)
(* Processes interleave between any two file operations and any of them    *)
(* may be killed; the operating system frees the locks of a dead process.  *)
(*   - Windows: a rename over a running executable fails, and so does      *)
(*     deleting one.  A release is its version: its hash names nothing     *)
(*     else.                                                               *)
(*   - A wait with a time limit ends when what it waits for happens, or at *)
(*     any time (the limit passed).                                        *)
(***************************************************************************)
EXTENDS Integers, FiniteSets

CONSTANTS
  MaxProcs,      \* bound: processes at a time
  MaxVersion,    \* bound: releases
  MaxTrials,     \* bound: trials recorded
  MaxKills       \* bound: processes killed, updates put off, writes that fail

ASSUME UpdateAssumption ==
  /\ MaxProcs \in Nat \ {0}
  /\ MaxVersion \in Nat \ {0} /\ MaxTrials \in Nat /\ MaxKills \in Nat

VARIABLES
  client,       \* the version at the customer's client's path, 0 if nothing
  aside,        \* the version each process has moved aside, 0 if none
  staged,       \* the versions staged beside the client
  saved,        \* update-state.json
  installLock,  \* who holds update.lock
  trialLock,    \* who holds update-trial.lock
  marker,       \* the installer whose start marker is written
  proc,         \* the processes: where each is, what it runs, its parent
  credit,       \* history: recorded trials of each release not accounted for
  trials, kills \* counted against the bounds

files == <<client, aside, staged>>
locks == <<installLock, trialLock>>
bounds == <<trials, kills>>
vars == <<files, saved, locks, marker, proc, credit, bounds>>

Versions == 1 .. MaxVersion
Procs == 1 .. MaxProcs
NoProc == 0
FAILURES_BEFORE_REJECT == 2
NoRun == [at |-> "none", ver |-> 0, image |-> "none", peer |-> NoProc,
          target |-> 0]

TypeOK ==
  /\ client \in 0 .. MaxVersion /\ aside \in [Procs -> 0 .. MaxVersion]
  /\ staged \subseteq Versions
  /\ saved \in [pending: 0 .. MaxVersion, rejected: SUBSET Versions,
                failures: [Versions -> 0 .. FAILURES_BEFORE_REJECT - 1]]
  /\ installLock \in Procs \cup {NoProc} /\ trialLock \in Procs \cup {NoProc}
  /\ marker \in Procs \cup {NoProc}
  /\ \A p \in Procs : /\ proc[p].ver \in 0 .. MaxVersion
                      /\ proc[p].peer \in Procs \cup {NoProc}
                      /\ proc[p].target \in 0 .. MaxVersion
  /\ credit \in [Versions -> Int]
  /\ trials \in 0 .. MaxTrials /\ kills \in 0 .. MaxKills

-----------------------------------------------------------------------------
At(p, at) == proc[p].at = at
Goto(p, at) == proc' = [proc EXCEPT ![p].at = at]
\* Process ids tell nothing: a process takes the first that is free.
Free(p) == At(p, "none") /\ \A q \in 1 .. p - 1 : ~At(q, "none")
Run(at, ver, image, peer) ==
  [NoRun EXCEPT !.at = at, !.ver = ver, !.image = image, !.peer = peer]

\* The locks of a process that ends are free; so is the single instance.
OutlivesItsOwner(lock, p) == lock
Freed(lock, p) == IF lock = p THEN NoProc ELSE lock
Exits(p) ==
  /\ proc' = [proc EXCEPT ![p] = NoRun]
  /\ installLock' = Freed(installLock, p) /\ trialLock' = Freed(trialLock, p)

\* The single instance is held by whoever got that far.
InstanceHeld(p) ==
  \E q \in Procs \ {p} :
    proc[q].at \notin {"none", "startup", "judging", "instance", "trial",
                       "signal", "predecessor"}

\* A trial is watched until its window sends something, then waits for its
\* confirmation; stepping aside and confirming exclude each other.
IsTrial(p) == proc[p].image = "staged"
InUse(v) == \E q \in Procs : IsTrial(q) /\ proc[q].ver = v

\* A failed trial is counted against its bytes; the second one has them
\* refused, until the refusal expires.
record_failure(s, v) ==
  IF s.failures[v] + 1 >= FAILURES_BEFORE_REJECT
  THEN [s EXCEPT !.failures[v] = 0, !.rejected = @ \cup {v}]
  ELSE [s EXCEPT !.failures[v] = @ + 1]
clear_failures(s, v) == [s EXCEPT !.failures[v] = 0]
NoPending(s) == [s EXCEPT !.pending = 0]

\* What accounts for a recorded trial saves that it did; a write that fails
\* (a full disk, a file another program holds) leaves the record for later.
SavesAccount(s, v) ==
  \/ saved' = s /\ credit' = [credit EXCEPT ![v] = @ - 1] /\ UNCHANGED kills
  \/ kills < MaxKills /\ kills' = kills + 1 /\ UNCHANGED <<saved, credit>>

-----------------------------------------------------------------------------
(* A normal start.                                                         *)

\* The customer starts the client their shortcut names; an id stays free, as
\* the machine has many.
StartClient(p) ==
  /\ Free(p) /\ client # 0
  /\ Cardinality({q \in Procs : At(q, "none")}) > 1
  /\ proc' = [proc EXCEPT ![p] = Run("startup", client, "client", NoProc)]
  /\ UNCHANGED <<files, saved, locks, marker, credit, bounds>>

\* A recorded trial is given a while to take its place, then judged, unless
\* it or an installer is live.  What a trial left staged goes first.
JudgesPastTrialLock == installLock = NoProc
MayJudge == installLock = NoProc /\ trialLock = NoProc

startup(p) ==
  /\ At(p, "startup")
  /\ IF MayJudge /\ saved.pending # 0
     THEN /\ Goto(p, "judging") /\ installLock' = p /\ trialLock' = p
          /\ staged' = staged \ ({saved.pending} \ {proc[p].ver})
     ELSE Goto(p, "instance") /\ UNCHANGED <<locks, staged>>
  /\ UNCHANGED <<client, aside, saved, marker, credit, bounds>>

\* Being the pending version itself, only the record was left.
judge_ended_trial(p) ==
  /\ At(p, "judging") /\ Goto(p, "instance")
  /\ LET v == saved.pending IN
     SavesAccount(NoPending(IF v = proc[p].ver THEN saved
                            ELSE record_failure(saved, v)), v)
  /\ installLock' = Freed(installLock, p) /\ trialLock' = Freed(trialLock, p)
  /\ UNCHANGED <<files, marker, trials>>

\* One client at a time: a second start hands over to the first and ends.
TakeInstance(p) ==
  /\ At(p, "instance")
  /\ IF InstanceHeld(p) THEN Exits(p)
     ELSE /\ UNCHANGED locks
          /\ Goto(p, IF IsTrial(p) THEN "watching" ELSE "cleaning")
  /\ UNCHANGED <<files, saved, marker, credit, bounds>>

\* What updates left beside the client goes, except what a recorded trial
\* needs and what is running.
remove_leftovers(p) ==
  /\ At(p, "cleaning") /\ Goto(p, "running")
  /\ IF ~MayJudge THEN UNCHANGED <<staged, aside>>
     ELSE /\ staged' = {v \in staged : v = saved.pending \/ InUse(v)}
          /\ aside' = [q \in Procs |->
               IF q = p \/ \E r \in Procs : /\ proc[r].image = "aside"
                                          /\ proc[r].ver = aside[q]
               THEN aside[q] ELSE 0]
  /\ UNCHANGED <<client, saved, locks, marker, credit, bounds>>

\* The customer closes the window, a trial's that has not confirmed as well.
Quit(p) ==
  /\ proc[p].at \in {"running", "watching", "window"} /\ Exits(p)
  /\ UNCHANGED <<files, saved, marker, credit, bounds>>

-----------------------------------------------------------------------------
(* The installation of a release.                                          *)

\* A newer release that is not refused.
available(p) == {v \in Versions : v > proc[p].ver /\ v \notin saved.rejected}

\* Under the installer's lock the verified download is renamed into place.
stage(p, v) ==
  /\ At(p, "running") /\ v \in available(p)
  /\ installLock = NoProc /\ ~InUse(v) /\ trials < MaxTrials
  /\ installLock' = p
  /\ staged' = staged \cup {v}
  /\ proc' = [proc EXCEPT ![p].at = "staged", ![p].target = v]
  /\ UNCHANGED <<client, aside, saved, trialLock, marker, credit, bounds>>

unstage(v) == staged' = staged \ {v}

\* Put off while it was being staged, or its record cannot be written:
\* nothing is recorded, nothing starts.
cancel(p) ==
  /\ At(p, "staged") /\ Goto(p, "running")
  /\ kills < MaxKills /\ kills' = kills + 1
  /\ unstage(proc[p].target)
  /\ installLock' = Freed(installLock, p)
  /\ UNCHANGED <<client, aside, saved, trialLock, marker, credit, trials>>

RecordPending(p) ==
  /\ At(p, "staged") /\ Goto(p, "recorded")
  /\ saved' = [saved EXCEPT !.pending = proc[p].target]
  /\ credit' = [credit EXCEPT ![proc[p].target] = @ + 1]
  /\ trials' = trials + 1
  /\ UNCHANGED <<files, locks, marker, kills>>

start_trial(p, q) ==
  /\ At(p, "recorded") /\ Free(q)
  /\ marker' = NoProc
  /\ proc' = [proc EXCEPT ![p].at = "waiting", ![p].peer = q,
                          ![q] = Run("trial", proc[p].target, "staged", p)]
  /\ UNCHANGED <<files, saved, locks, credit, bounds>>

\* The trial started: the installer exits, holding its lock until it has.
TrialStarted(p) ==
  /\ At(p, "waiting") /\ marker = p /\ Exits(p)
  /\ UNCHANGED <<files, saved, marker, credit, bounds>>

Child(p) == proc[p].peer \in Procs /\ proc[proc[p].peer].peer = p

\* It ended before it was up, which counts against it, or was held up past
\* the limit and is killed, which does not.
TrialEnded(p) ==
  /\ At(p, "waiting") /\ marker # p /\ ~Child(p)
  /\ Goto(p, "blame") /\ unstage(proc[p].target)
  /\ UNCHANGED <<client, aside, saved, locks, marker, credit, bounds>>
TrialHeldUp(p) ==
  /\ At(p, "waiting") /\ marker # p /\ Child(p)
  /\ proc' = [proc EXCEPT ![p].at = "excuse", ![proc[p].peer] = NoRun]
  /\ trialLock' = Freed(trialLock, proc[p].peer)
  /\ unstage(proc[p].target)
  /\ UNCHANGED <<client, aside, saved, installLock, marker, credit, bounds>>

install(p) ==
  /\ proc[p].at \in {"blame", "excuse"} /\ Goto(p, "running")
  /\ LET v == proc[p].target IN
     SavesAccount(NoPending(IF At(p, "blame") THEN record_failure(saved, v)
                            ELSE saved), v)
  /\ installLock' = Freed(installLock, p)
  /\ UNCHANGED <<files, trialLock, marker, trials>>

-----------------------------------------------------------------------------
(* The trial.                                                              *)

\* Its lock first, before the installer may exit.  Finding another's lock, or
\* not the record of itself, it ends unguarded.
TakeTrialLock(q) ==
  /\ At(q, "trial")
  /\ IF trialLock = NoProc /\ saved.pending = proc[q].ver
     THEN Goto(q, "signal") /\ trialLock' = q /\ UNCHANGED installLock
     ELSE Exits(q)
  /\ UNCHANGED <<files, saved, marker, credit, bounds>>

Signal(q) ==
  /\ At(q, "signal") /\ Goto(q, "predecessor")
  /\ marker' = proc[q].peer
  /\ UNCHANGED <<files, saved, locks, credit, bounds>>

\* The predecessor ended, or the limit passed: the installer's lock too, if it
\* is free.
wait_for_predecessor(q) ==
  /\ At(q, "predecessor") /\ Goto(q, "instance")
  /\ installLock' = IF installLock = NoProc THEN q ELSE installLock
  /\ UNCHANGED <<files, saved, trialLock, marker, credit, bounds>>

\* Its window silent past the limit, it hands over to the customer's client,
\* or stays when there is none to start.
step_aside(q, r) ==
  /\ At(q, "watching")
  /\ IF client = 0 THEN Goto(q, "window")
     ELSE /\ Free(r)
          /\ proc' = [proc EXCEPT ![q].at = "stepping aside",
                                  ![r] = Run("startup", client, "client", NoProc)]
  /\ UNCHANGED <<files, saved, locks, marker, credit, bounds>>

StepsAside(q) ==
  /\ At(q, "stepping aside") /\ Exits(q)
  /\ UNCHANGED <<files, saved, marker, credit, bounds>>

\* Its window sends something: from now on it never steps aside.
window_up(q) ==
  /\ At(q, "watching") /\ Goto(q, "window")
  /\ UNCHANGED <<files, saved, locks, marker, credit, bounds>>

\* Its window is up and its host answers, which it may never do.
confirm(q) ==
  /\ proc[q].at \in {"watching", "window"} /\ Goto(q, "moving")
  /\ UNCHANGED <<files, saved, locks, marker, credit, bounds>>

\* Who runs the customer's client runs what is now elsewhere, or back.
Renamed(q, at, image, from, to) ==
  proc' = [r \in Procs |->
             IF r = q THEN [proc[r] EXCEPT !.at = at, !.image = image]
             ELSE IF proc[r].image = from THEN [proc[r] EXCEPT !.image = to]
             ELSE proc[r]]
ClientInUse == \E r \in Procs : proc[r].image = "client"

\* One rename when nothing runs the client; else the first of two, its own
\* name aside; or the folder refuses both, or there is nothing to move.
RefusedMove(q) ==
  /\ At(q, "moving") /\ Goto(q, "unmoved")
  /\ proc[q].ver \notin staged \/ kills < MaxKills
  /\ kills' = IF proc[q].ver \in staged THEN kills + 1 ELSE kills
  /\ UNCHANGED <<files, saved, locks, marker, credit, trials>>
move_into_place(q) ==
  /\ At(q, "moving") /\ proc[q].ver \in staged
  /\ IF ClientInUse
     THEN /\ client' = 0 /\ aside' = [aside EXCEPT ![q] = client]
          /\ Renamed(q, "half", "staged", "client", "aside")
          /\ UNCHANGED staged
     ELSE /\ client' = proc[q].ver /\ staged' = staged \ {proc[q].ver}
          /\ Renamed(q, "moved", "client", "client", "client")
          /\ UNCHANGED aside
  /\ UNCHANGED <<saved, locks, marker, credit, bounds>>

\* The second rename, after which the old client goes unless it is in use; or
\* the old one is put back, by name or by copy; or neither works.
move_in_two_steps(q) ==
  /\ At(q, "half") /\ client' = proc[q].ver /\ staged' = staged \ {proc[q].ver}
  /\ aside' = [aside EXCEPT ![q] =
       IF \E r \in Procs : proc[r].image = "aside" THEN @ ELSE 0]
  /\ Renamed(q, "moved", "client", "client", "client")
  /\ UNCHANGED <<saved, locks, marker, credit, bounds>>
PutBack(q) ==
  /\ At(q, "half") /\ kills < MaxKills /\ kills' = kills + 1
  /\ \/ /\ client' = aside[q] /\ aside' = [aside EXCEPT ![q] = 0]
        /\ Renamed(q, "unmoved", "staged", "aside", "client")
     \/ /\ client' \in {aside[q], 0} /\ UNCHANGED aside /\ Goto(q, "unmoved")
  /\ UNCHANGED <<staged, saved, locks, marker, credit, trials>>

\* Confirmed: its record goes, and every lock; not moved counts as a failure.
SaveOutcome(q) ==
  /\ proc[q].at \in {"moved", "unmoved"} /\ Goto(q, "running")
  /\ LET v == proc[q].ver
         s == IF saved.pending = v THEN NoPending(saved) ELSE saved IN
     SavesAccount(IF At(q, "moved") THEN clear_failures(s, v)
                  ELSE record_failure(s, v), v)
  /\ installLock' = Freed(installLock, q) /\ trialLock' = Freed(trialLock, q)
  /\ UNCHANGED <<files, marker, trials>>

-----------------------------------------------------------------------------
\* A process dies: killed, crashed, or the power fails.
Kill(p) ==
  /\ ~At(p, "none") /\ kills < MaxKills /\ kills' = kills + 1
  /\ Exits(p)
  /\ UNCHANGED <<files, saved, marker, credit, trials>>

\* A release is refused for a week.
RejectionExpires(v) ==
  /\ v \in saved.rejected
  /\ saved' = [saved EXCEPT !.rejected = @ \ {v}]
  /\ UNCHANGED <<files, locks, marker, proc, credit, bounds>>

Init ==
  /\ client = 1 /\ aside = [p \in Procs |-> 0] /\ staged = {}
  /\ saved = [pending |-> 0, rejected |-> {}, failures |-> [v \in Versions |-> 0]]
  /\ installLock = NoProc /\ trialLock = NoProc /\ marker = NoProc
  /\ proc = [p \in Procs |-> NoRun]
  /\ credit = [v \in Versions |-> 0] /\ trials = 0 /\ kills = 0

\* What a process does of itself, whatever its window does.
Step(p) ==
  \/ startup(p)
  \/ judge_ended_trial(p) \/ TakeInstance(p) \/ remove_leftovers(p)
  \/ RecordPending(p) \/ \E q \in Procs : start_trial(p, q)
  \/ TrialStarted(p) \/ TrialEnded(p) \/ TrialHeldUp(p)
  \/ install(p) \/ TakeTrialLock(p) \/ Signal(p) \/ wait_for_predecessor(p)
  \/ \E r \in Procs : step_aside(p, r)
  \/ StepsAside(p) \/ RefusedMove(p) \/ move_into_place(p)
  \/ move_in_two_steps(p) \/ PutBack(p) \/ SaveOutcome(p)

Next ==
  \/ \E p \in Procs : Step(p) \/ window_up(p) \/ confirm(p)
  \/ \E p \in Procs : StartClient(p) \/ Quit(p) \/ cancel(p) \/ Kill(p)
  \/ \E p \in Procs, v \in Versions :
       stage(p, v)
  \/ \E v \in Versions : RejectionExpires(v)

Spec == Init /\ [][Next]_vars

\* A process goes on, but a trial's window need not come up, nor its host ever
\* answer; the customer closes the client now and then and starts it again.
Fairness ==
  /\ \A p \in Procs : WF_vars(Step(p))
  /\ SF_vars(\E p \in Procs : Quit(p)) /\ SF_vars(\E p \in Procs : StartClient(p))
FairSpec == Spec /\ Fairness

-----------------------------------------------------------------------------
(* Properties.                                                             *)

\* A trial that holds its lock and has not confirmed still has its record
\* unaccounted: no other start judges a live trial, and no trial is counted
\* twice, whoever was killed in between (update.rs judge_ended_trial: "while
\* they are held, no other process judges this trial").
Unjudged(v) ==
  {q \in Procs : /\ trialLock = q /\ IsTrial(q) /\ proc[q].ver = v}
JudgedOnce == \A v \in Versions : credit[v] >= Cardinality(Unjudged(v))

\* A recorded trial ends confirmed or judged, unless nothing is left to start:
\* one whose window stays silent steps aside, and one that is up but never
\* confirms, which only its customer can end, is judged by the start after
\* that (update.rs TrialPhase: "Stepping aside and confirming exclude each
\* other"; judge_ended_trial).
TrialsEnd == saved.pending # 0 ~> saved.pending = 0 \/ client = 0
=============================================================================
