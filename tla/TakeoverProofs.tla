---------------------------- MODULE TakeoverProofs ----------------------------
(***************************************************************************)
(* What Takeover guarantees for any number of profiles, versions of Kiro   *)
(* and of the patch rules, however often the client dies, a write fails or *)
(* people act around it: the customer's sign-in is kept, a live patch can  *)
(* be rolled back, and no step of the client exposes the customer's token. *)
(*                                                                         *)
(* The argument is where an operation stands: what is on record before a   *)
(* file changes, and what is undone before a record goes.  Each part of    *)
(* the invariant is about one of the three: SignInStands on the session's  *)
(* record, MaterialStands on the patch's, HomeStands on the order of them. *)
(***************************************************************************)
EXTENDS Takeover, TLAPS

Acts == {"none", "activate", "launch", "undo", "restore", "unbind"}

\* An activation before it writes, and while it or a launch writes.
Beginning == {"authenticate", "close", "record"}
Signing == {"token", "flag"}
Patching == {"apply", "backup", "fill", "write"}
Redirecting == {"default", "profiles"} \cup Patching

\* A rollback by its stages.
Dropping == {"drop backup", "drop state"}
Closing == {"forget", "putback", "end session"}

Places ==
  {"idle", "takeover", "open", "unbinding", "plan", "unpatch", "revert", "leftovers", "sweep"}
    \cup Beginning \cup Signing \cup Redirecting \cup Dropping \cup Closing

Operation == [act : Acts, at : Places, todo : SUBSET Files, plan : Bundles]

SessionType ==
  [on : BOOLEAN, prev : {"none", "own", "gateway"}, authenticated : BOOLEAN]
SnapshotType == [on : BOOLEAN, recs : SUBSET Files, froze : BOOLEAN]
StateType == [orig : 0 .. MaxVersion, now : Bundles, prev : Bundles]

\* A bundle is of the version its patch was made from.
OfVersion(bundle, v) == bundle = NoBundle \/ bundle.v = v

VersionsAgree ==
  /\ ext.v # 0
  /\ OfVersion(state.now, state.orig) /\ OfVersion(state.prev, state.orig)
  /\ waiting => ext.v < MaxVersion
  /\ op.at \in {"backup", "fill", "write"} => ext.v = state.orig /\ state.now # NoBundle

TypesOK == TypeOK /\ op \in Operation /\ VersionsAgree

-----------------------------------------------------------------------------

\* A read of the balance has no operation beside it, and only it and an unbind
\* have a session in hand: the recorded one, or one of a takeover that was lost.
Hands ==
  /\ reader # "off" => op = Idle /\ held.on
  /\ held.on => reader # "off" \/ At("unbinding")
HandsMatch == held.on => IF session.on THEN held.prev = session.prev ELSE ~signedIn

\* The session's record is on while the token is not the customer's.
SignInStands ==
  /\ Hands /\ HandsMatch
  /\ signedIn => token = "own" \/ session.on
  /\ signedIn /\ session.on => session.prev = "own"
  /\ session.authenticated => session.on
  /\ op.at \in Beginning => ~session.on
  /\ op.at \in Signing => session.on
  /\ At("end session") => session.on /\ token = session.prev

\* The material is complete before the bundle changes, and stays while a
\* patch is live.
MaterialStands ==
  /\ PatchIsUndoable
  /\ op.at \in {"backup", "fill"} =>
       ~Patched /\ op.plan.v = state.orig /\ state.now.p > 0
  /\ At("write") =>
       /\ state # NoState /\ backup = state.orig
       /\ Patched => ext \in {state.now, state.prev}
  /\ op.at \in Dropping => ~Patched

\* The session is on its record, or may be again.
Open == session.on \/ held.on

\* The files the client redirected; with them, and the patch, nothing sends
\* Kiro's traffic to the gateway.
Sent == {f \in DOMAIN files : files[f].to = "gateway"}
Clean == ~Patched /\ Sent = {}

\* Every file sent to the gateway is on the takeover's record, which stands as
\* long as the session's does, unless it was lost.
RecordsCover ==
  /\ files[Default].to # "copied"
  /\ Open /\ ~snapshot.on /\ ~parted => Clean
  /\ snapshot.on => Sent \subseteq snapshot.recs
  /\ op.at \in Redirecting => snapshot.on /\ Default \in snapshot.recs
  /\ op.at \in {"default", "profiles"} => op.todo \subseteq snapshot.recs \cap DOMAIN files
  /\ At("unpatch") => snapshot.on

\* On the way out the token changes before the files, and the files before
\* the bundle.
TokenLeavesFirst ==
  /\ op.at \in Beginning \cup Signing => op.act = "activate"
  /\ op.act = "activate" /\ ~At("open") => ~Patched
  /\ op.act = "activate" /\ op.at \in Beginning \cup Signing \cup {"takeover", "default"} => Clean
  /\ op.at \in {"flag", "takeover"} \cup Redirecting =>
       (token = "own" => files[Default].to = "gateway")

\* On the way home the bundle changes before the files, and the files before
\* the token.
TokenReturnsLast ==
  /\ op.at \in Dropping \cup {"revert"} => ~Patched
  /\ At("revert") => Sent \subseteq op.todo
  /\ op.at \in Closing /\ Open /\ ~parted => Clean

HomeStands == RecordsCover /\ TokenLeavesFirst /\ TokenReturnsLast

IInv == TypesOK /\ SignInStands /\ MaterialStands /\ HomeStands

-----------------------------------------------------------------------------
\* The operation under way keeps its type, and a step says where it goes.
LEMMA IdleTyped == Idle \in Operation /\ Idle.act = "none" /\ Idle.at = "idle"
BY TakeoverAssumption DEF Idle, Operation, Places, Acts, NoBundle, Official, Bundles

\* Goto and GotoWith change what they name.
LEMMA Moves ==
  ASSUME op \in Operation
  PROVE  /\ \A step \in Places : Goto(step) =>
              /\ op' \in Operation /\ op'.at = step /\ op'.act = op.act
              /\ op'.todo = op.todo /\ op'.plan = op.plan
         /\ \A step \in Places, todo \in SUBSET Files : GotoWith(step, todo) =>
              /\ op' \in Operation /\ op'.at = step /\ op'.act = op.act
              /\ op'.todo = todo /\ op'.plan = op.plan
<1>1. ASSUME NEW step \in Places, Goto(step)
      PROVE  /\ op' \in Operation /\ op'.at = step /\ op'.act = op.act
             /\ op'.todo = op.todo /\ op'.plan = op.plan
  BY <1>1 DEF Goto, Operation
<1>2. ASSUME NEW step \in Places, NEW todo \in SUBSET Files, GotoWith(step, todo)
      PROVE  /\ op' \in Operation /\ op'.at = step /\ op'.act = op.act
             /\ op'.todo = todo /\ op'.plan = op.plan
  BY <1>2 DEF GotoWith, Operation
<1> QED
  BY <1>1, <1>2

\* A failure ends an operation, or turns an activation into its rollback.
LEMMA FailedMoves ==
  ASSUME op \in Operation, Failed, snapshot.recs \in SUBSET Files
  PROVE  /\ op' \in Operation
         /\ \/ op' = Idle /\ op.act # "activate"
            \/ /\ op.act = "activate" /\ op'.act = "undo" /\ op'.todo = snapshot.recs
               /\ op'.at = IF At("takeover") THEN "putback"
                           ELSE IF At("default") THEN "forget" ELSE "revert"
<1>1. CASE op.act # "activate"
  BY <1>1, IdleTyped DEF Failed, End
<1>2. CASE op.act = "activate"
  <2>1. PICK at \in {"putback", "forget", "revert"} :
          /\ at = IF At("takeover") THEN "putback"
                  ELSE IF At("default") THEN "forget" ELSE "revert"
          /\ op' = [op EXCEPT !.act = "undo", !.todo = snapshot.recs, !.at = at]
    <3>1. CASE At("takeover")
      BY <1>2, <3>1 DEF Failed, At
    <3>2. CASE At("default")
      BY <1>2, <3>2 DEF Failed, At
    <3>3. CASE ~At("takeover") /\ ~At("default")
      BY <1>2, <3>3 DEF Failed
    <3> QED
      BY <3>1, <3>2, <3>3
  <2> QED
    BY <1>2, <2>1 DEF Operation, Places, Closing, Acts
<1> QED
  BY <1>1, <1>2

\* No step leaves the operations' type.
LEMMA OperationStep ==
  ASSUME TypeOK, op \in Operation, Next
  PROVE  op' \in Operation
<1> USE IdleTyped
<1>0. snapshot.recs \in SUBSET Files
  BY DEF TypeOK
<1>1. CASE StartActivate
  BY <1>1 DEF StartActivate, Operation, TypeOK, Places, Beginning, Acts
<1>2. CASE StartLaunch
  BY <1>2 DEF StartLaunch, Operation, TypeOK, Places, Acts
<1>3. CASE StartRestore \/ StartUnbind
  BY <1>3 DEF StartRestore, StartUnbind, Idle, Operation, Places, Acts
<1>4. CASE Authenticate \/ stop_kiro_for_takeover \/ RecordSession \/ SaveToken \/ SaveAuthenticated
  BY <1>4, Moves DEF Authenticate, stop_kiro_for_takeover, RecordSession, SaveToken,
     SaveAuthenticated, End, Places, Beginning, Signing
<1>5. CASE CaptureSnapshot
  BY <1>0, <1>5, Moves, FailedMoves DEF CaptureSnapshot, TypeOK, SnapshotType, Places, Redirecting
<1>6. CASE merge_byok \/ MergeProfile
  BY <1>6, Moves DEF merge_byok, MergeProfile, Places, Redirecting, Patching, Operation
<1>7. CASE Apply
  <2>1. CASE Failed
    BY <1>0, <2>1, FailedMoves
  <2>2. CASE op' = [op EXCEPT !.at = "backup", !.plan = ext]
    BY <2>2 DEF Operation, TypeOK, Places, Redirecting, Patching
  <2>3. CASE Goto("open") \/ Goto("write")
    BY <2>3, Moves DEF Places, Redirecting, Patching
  <2> QED
    BY <1>7, <2>1, <2>2, <2>3 DEF Apply
<1>8. CASE WriteBackup \/ WritePatched \/ OpenKiro \/ Unbind \/ PlanRestore
  BY <1>8, Moves DEF WriteBackup, WritePatched, OpenKiro, Unbind, PlanRestore, End, Places,
     Redirecting,
     Patching, Closing
<1>9. CASE WriteFails
  BY <1>0, <1>9, FailedMoves DEF WriteFails, TypeOK
<1>10. CASE Unpatch \/ DropMaterial
  BY <1>10, Moves DEF Unpatch, DropMaterial, End, TypeOK, Places, Dropping, Redirected
<1>11. CASE Revert
  BY <1>11, Moves DEF Revert, End, Places, Closing, Operation
<1>12. CASE ForgetSnapshot \/ RestoreToken \/ RemoveSession
  BY <1>12, Moves DEF ForgetSnapshot, RestoreToken, RemoveSession, AfterRecords, End, Places,
     Closing
<1>13. CASE ScanLeftovers \/ Sweep
  BY <1>13, Moves DEF ScanLeftovers, Sweep, End, Places, Dropping, TypeOK, Redirected, Operation
<1>14. CASE StartUsage \/ FinishUsage
  BY <1>14 DEF StartUsage, FinishUsage
<1>15. CASE Environment
  BY <1>15 DEF Environment, Crash, UpdateClient, StartKiro, CloseKiro, DownloadUpdate, LandUpdate,
     Reinstall, Unfreeze, SignInOrOut, AddProfile, RemoveProfile, EditFile, Lose, End
<1> QED
  BY <1>1, <1>2, <1>3, <1>4, <1>5, <1>6, <1>7, <1>8, <1>9, <1>10, <1>11, <1>12, <1>13, <1>14,
     <1>15 DEF Next, Step

\* What a step can change, and which step it then is.
LEMMA Changes ==
  ASSUME Next
  PROVE
  /\ \/ UNCHANGED files
     \/ merge_byok \/ MergeProfile \/ Revert \/ Sweep
     \/ (\E f \in Profiles : AddProfile(f) \/ RemoveProfile(f))
     \/ \E f \in Files, text \in {"fine", "typo", "broken"} : EditFile(f, text)
  /\ \/ UNCHANGED <<ext, state, backup>>
     \/ Apply \/ WriteBackup \/ WritePatched \/ Unpatch \/ DropMaterial \/ ScanLeftovers
     \/ LandUpdate \/ Reinstall \/ \E records \in Losable : Lose(records)
  /\ \/ UNCHANGED session
     \/ RecordSession \/ SaveAuthenticated \/ Unbind \/ RemoveSession \/ FinishUsage
     \/ \E records \in Losable : Lose(records)
  /\ \/ UNCHANGED snapshot
     \/ CaptureSnapshot \/ ForgetSnapshot \/ \E records \in Losable : Lose(records)
  /\ \/ UNCHANGED token
     \/ SaveToken \/ RestoreToken \/ Sweep \/ FinishUsage
     \/ \E to \in {"none", "own"} : SignInOrOut(to)
  /\ \/ UNCHANGED <<rules, stripped>>
     \/ UpdateClient \/ Apply \/ \E records \in Losable : Lose(records)
  /\ \/ UNCHANGED waiting
     \/ DownloadUpdate \/ LandUpdate
  /\ \/ UNCHANGED signedIn
     \/ (\E to \in {"none", "own"} : SignInOrOut(to))
     \/ \E records \in Losable : Lose(records)
  /\ \/ UNCHANGED reader
     \/ StartUsage \/ FinishUsage \/ Crash
  /\ \/ UNCHANGED held
     \/ StartUsage \/ StartUnbind \/ FinishUsage \/ Unbind \/ Crash
  /\ \/ UNCHANGED parted
     \/ StartActivate \/ \E records \in Losable : Lose(records)
<1> USE DEF disk, history, Disturb
<1>1. CASE StartActivate \/ StartLaunch \/ StartRestore \/ StartUnbind \/ StartUsage
            \/ FinishUsage \/ WriteFails
  BY <1>1 DEF StartActivate, StartLaunch, StartRestore, StartUnbind, StartUsage,
     FinishUsage, WriteFails, refresh, Installs
<1>2. CASE Authenticate \/ stop_kiro_for_takeover \/ RecordSession \/ SaveToken
            \/ SaveAuthenticated \/ CaptureSnapshot
  BY <1>2 DEF Authenticate, stop_kiro_for_takeover, RecordSession, SaveToken,
     SaveAuthenticated, CaptureSnapshot
<1>3. CASE merge_byok \/ MergeProfile \/ Apply \/ WriteBackup \/ WritePatched
            \/ OpenKiro
  BY <1>3 DEF merge_byok, MergeProfile, Apply, WriteBackup, WritePatched, OpenKiro
<1>4. CASE Unbind \/ PlanRestore \/ Unpatch \/ DropMaterial \/ Revert
            \/ ForgetSnapshot \/ RestoreToken \/ RemoveSession \/ ScanLeftovers
            \/ Sweep
  BY <1>4 DEF Unbind, PlanRestore, Unpatch, DropMaterial, Revert, ForgetSnapshot,
     RestoreToken, RemoveSession, ScanLeftovers, Sweep
<1>5. CASE Environment
  BY <1>5 DEF Environment, Crash, UpdateClient, StartKiro, CloseKiro, DownloadUpdate,
     LandUpdate, Reinstall, Unfreeze, SignInOrOut, AddProfile, RemoveProfile, EditFile,
     Lose, refresh, Installs
<1> QED
  BY <1>1, <1>2, <1>3, <1>4, <1>5 DEF Next, Step

\* A file keeps its type, and Default's is always there.
FileType == [to : {"home", "gateway", "copied"}, text : {"fine", "typo", "broken"}]
FilesOK ==
  /\ DOMAIN files \subseteq Files /\ Default \in DOMAIN files
  /\ files \in [DOMAIN files -> FileType]

\* Every step keeps the files' type.
LEMMA FilesTyped ==
  ASSUME TypesOK, Next
  PROVE  FilesOK'
<1>0. FilesOK /\ op.todo \subseteq Files
  BY DEF TypesOK, TypeOK, FilesOK, FileType, Operation
<1>a. \A file \in FileType, to \in {"home", "gateway"} : [file EXCEPT !.to = to] \in FileType
  BY DEF FileType
<1>b. ASSUME NEW f \in Files, NEW to \in {"home", "gateway"}
      PROVE  LET fs == [files EXCEPT ![f] = [files[f] EXCEPT !.to = to]]
             IN  DOMAIN fs = DOMAIN files /\ fs \in [DOMAIN fs -> FileType]
  BY <1>0, <1>a DEF FilesOK
<1>1. CASE UNCHANGED files
  BY <1>0, <1>1 DEF FilesOK
<1>2. CASE merge_byok
  BY <1>0, <1>b, <1>2 DEF FilesOK, merge_byok, Files
<1>3. CASE MergeProfile
  <2>1. CASE UNCHANGED files
    BY <1>0, <2>1 DEF FilesOK
  <2>2. CASE \E f \in op.todo : files' = [files EXCEPT ![f].to = "gateway"]
    <3>1. PICK f \in Files : files' = [files EXCEPT ![f].to = "gateway"]
      BY <1>0, <2>2
    <3> QED
      BY <1>0, <1>b, <3>1 DEF FilesOK
  <2> QED
    BY <1>3, <2>1, <2>2 DEF MergeProfile
<1>4. CASE Revert
  <2>1. CASE UNCHANGED files
    BY <1>0, <2>1 DEF FilesOK
  <2>2. CASE \E f \in op.todo : files' = [g \in DOMAIN files |->
               IF g = f THEN [files[g] EXCEPT !.to = "home"] ELSE files[g]]
    <3>1. PICK f : files' = [g \in DOMAIN files |->
                               IF g = f THEN [files[g] EXCEPT !.to = "home"] ELSE files[g]]
      BY <2>2
    <3>2. \A g \in DOMAIN files : files'[g] \in FileType
      BY <1>0, <1>a, <3>1 DEF FilesOK
    <3>3. DOMAIN files' = DOMAIN files /\ files' = [g \in DOMAIN files |-> files'[g]]
      BY <3>1
    <3> QED
      BY <1>0, <3>2, <3>3 DEF FilesOK
  <2> QED
    BY <1>4, <2>1, <2>2 DEF Revert
<1>5. CASE Sweep
  <2>1. CASE UNCHANGED files
    BY <1>0, <2>1 DEF FilesOK
  <2>2. CASE \E f \in op.todo : files' = [files EXCEPT ![f].to = "home"]
    <3>1. PICK f \in Files : files' = [files EXCEPT ![f].to = "home"]
      BY <1>0, <2>2
    <3> QED
      BY <1>0, <1>b, <3>1 DEF FilesOK
  <2> QED
    BY <1>5, <2>1, <2>2 DEF Sweep
<1>6. CASE \E f \in Profiles : AddProfile(f) \/ RemoveProfile(f)
  BY <1>0, <1>6 DEF FilesOK, FileType, AddProfile, RemoveProfile, Files
<1>7. CASE \E f \in Files, text \in {"fine", "typo", "broken"} : EditFile(f, text)
  BY <1>0, <1>7 DEF FilesOK, FileType, EditFile
<1> QED
  BY <1>1, <1>2, <1>3, <1>4, <1>5, <1>6, <1>7, Changes

\* So do the two records and the token.
RecordsOK ==
  /\ session \in SessionType /\ held \in SessionType
  /\ snapshot \in SnapshotType /\ token \in {"none", "own", "gateway"}

\* Every step keeps the records' and the token's.
LEMMA RecordsTyped ==
  ASSUME TypesOK, Next
  PROVE  RecordsOK'
<1>0. /\ RecordsOK /\ frozen \in BOOLEAN /\ reader \in {"off", "none", "own", "gateway"}
      /\ DOMAIN files \subseteq Files
  BY DEF TypesOK, TypeOK, RecordsOK, SessionType, SnapshotType
<1>1. session' \in SessionType /\ held' \in SessionType
  <2>1. NoSession \in SessionType
    BY DEF NoSession, SessionType
  <2>2. \A on, authenticated \in BOOLEAN, prev \in {"none", "own", "gateway"} :
          [on |-> on, prev |-> prev, authenticated |-> authenticated] \in SessionType
    BY DEF SessionType
  <2>3. \A authenticated \in BOOLEAN :
          /\ [session EXCEPT !.authenticated = authenticated] \in SessionType
          /\ [held EXCEPT !.authenticated = authenticated] \in SessionType
    BY <1>0 DEF RecordsOK, SessionType
  <2>4. session' \in SessionType
    BY <1>0, <2>1, <2>2, <2>3, Changes
       DEF RecordsOK, RecordSession, SaveAuthenticated, Unbind, RemoveSession, FinishUsage, SaveHeld,
           Lose
  <2>5. held' \in {held, session, NoSession}
    BY Changes DEF StartUsage, StartUnbind, FinishUsage, Unbind, Crash
  <2> QED
    BY <1>0, <2>1, <2>4, <2>5 DEF RecordsOK
<1>2. snapshot' \in SnapshotType
  <2>1. NoSnapshot \in SnapshotType
    BY DEF NoSnapshot, SnapshotType
  <2>2. CASE CaptureSnapshot
    <3>1. PICK recs \in SUBSET Files, froze \in BOOLEAN :
            /\ recs = snapshot.recs \cup DOMAIN files
            /\ froze = IF snapshot.on THEN snapshot.froze ELSE frozen
      BY <1>0 DEF RecordsOK, SnapshotType
    <3>2. snapshot' = snapshot \/ snapshot' = [on |-> TRUE, recs |-> recs, froze |-> froze]
      BY <2>2, <3>1 DEF CaptureSnapshot
    <3>3. [on |-> TRUE, recs |-> recs, froze |-> froze] \in SnapshotType
      BY DEF SnapshotType
    <3> QED
      BY <1>0, <3>2, <3>3 DEF RecordsOK
  <2> QED
    BY <1>0, <2>1, <2>2, Changes DEF RecordsOK, ForgetSnapshot, Lose
<1>3. token' \in {"none", "own", "gateway"}
  BY <1>0, Changes DEF RecordsOK, SessionType, SaveToken, RestoreToken, Sweep, FinishUsage, refresh,
                       SignInOrOut
<1> QED
  BY <1>1, <1>2, <1>3 DEF RecordsOK

\* Where each step leads: on, with the operation it belongs to, or out of it.
On(places) == op'.at \in places /\ (op'.act = op.act \/ op' = Idle)

Undoes ==
  /\ op.act = "activate" /\ op'.act = "undo" /\ op'.todo = snapshot.recs
  /\ op'.at = IF At("takeover") THEN "putback"
              ELSE IF At("default") THEN "forget" ELSE "revert"

\* Each step's places; a failing one ends its operation, or undoes an activation.
LEMMA Landings ==
  ASSUME TypeOK, op \in Operation
  PROVE
  /\ StartActivate => op'.at = "authenticate"
  /\ StartLaunch => op'.at = "takeover" /\ op'.act = "launch"
  /\ (StartRestore \/ StartUnbind) =>
       op'.at \in {"plan", "leftovers", "unbinding"} /\ op'.act \in {"restore", "unbind"}
  /\ Authenticate => On({"close", "idle"})
  /\ stop_kiro_for_takeover => On({"record", "idle"})
  /\ RecordSession => On({"token", "idle"})
  /\ SaveToken => On({"flag"})
  /\ SaveAuthenticated => On({"takeover"})
  /\ CaptureSnapshot => On({"default"}) \/ op' = Idle \/ Undoes
  /\ merge_byok => On({"profiles"})
  /\ MergeProfile => On({"profiles", "apply"})
  /\ Apply => On({"backup", "write", "open"}) \/ op' = Idle \/ Undoes
  /\ WriteBackup => On({"fill", "write"})
  /\ WritePatched => On({"open"})
  /\ OpenKiro => On({"idle"})
  /\ Unbind => On({"plan", "idle"})
  /\ PlanRestore => On({"unpatch", "putback", "idle"})
  /\ WriteFails => op' = Idle \/ Undoes
  /\ Unpatch => On({"revert", "drop backup", "idle"})
  /\ DropMaterial => On({"drop state", "revert", "sweep"})
  /\ Revert => On({"revert", "forget", "idle"})
  /\ ForgetSnapshot => On({"putback", "idle"})
  /\ RestoreToken => On({"end session", "leftovers", "idle"})
  /\ RemoveSession => On({"leftovers", "idle"})
  /\ ScanLeftovers => On({"drop backup", "sweep", "idle"})
  /\ Sweep => On({"sweep", "idle"})
<1> USE IdleTyped
<1>0. snapshot.recs \in SUBSET Files
  BY DEF TypeOK
<1>1. StartActivate => op'.at = "authenticate"
  BY DEF StartActivate, Operation
<1>2. StartLaunch => op'.at = "takeover" /\ op'.act = "launch"
  BY DEF StartLaunch, Operation
<1>3. (StartRestore \/ StartUnbind) =>
       op'.at \in {"plan", "leftovers", "unbinding"} /\ op'.act \in {"restore", "unbind"}
  BY <1>0, Moves DEF On, StartRestore, StartUnbind, Idle, Places, Beginning, Signing, Redirecting,
     Patching, Dropping, Closing
<1>4. Authenticate => On({"close", "idle"})
  BY <1>0, Moves DEF On, Authenticate, End, Places, Beginning, Signing, Redirecting, Patching,
     Dropping, Closing
<1>5. stop_kiro_for_takeover => On({"record", "idle"})
  BY <1>0, Moves DEF On, stop_kiro_for_takeover, End, Places, Beginning, Signing, Redirecting,
     Patching, Dropping, Closing
<1>6. RecordSession => On({"token", "idle"})
  BY <1>0, Moves DEF On, RecordSession, End, Places, Beginning, Signing, Redirecting, Patching,
     Dropping, Closing
<1>7. SaveToken => On({"flag"})
  BY <1>0, Moves DEF On, SaveToken, Places, Beginning, Signing, Redirecting, Patching, Dropping,
     Closing
<1>8. SaveAuthenticated => On({"takeover"})
  BY <1>0, Moves DEF On, SaveAuthenticated, Places, Beginning, Signing, Redirecting, Patching,
     Dropping, Closing
<1>9. CaptureSnapshot => On({"default"}) \/ op' = Idle \/ Undoes
  BY <1>0, Moves, FailedMoves DEF On, Undoes, CaptureSnapshot, TypeOK, Places, Beginning, Signing,
     Redirecting, Patching, Dropping, Closing
<1>10. merge_byok => On({"profiles"})
  BY <1>0, Moves DEF On, merge_byok, Places, Beginning, Signing, Redirecting, Patching, Dropping,
     Closing
<1>11. MergeProfile => On({"profiles", "apply"})
  BY <1>0, Moves DEF On, MergeProfile, Operation, Places, Beginning, Signing, Redirecting,
     Patching, Dropping, Closing
<1>12. Apply => On({"backup", "write", "open"}) \/ op' = Idle \/ Undoes
  <2>1. CASE Failed
    BY <1>0, <2>1, FailedMoves DEF Undoes
  <2>2. CASE op' = [op EXCEPT !.at = "backup", !.plan = ext]
    BY <2>2 DEF Operation, On
  <2>3. CASE Goto("open") \/ Goto("write")
    BY <2>3, Moves DEF On, Places, Redirecting, Patching
  <2> QED
    BY <2>1, <2>2, <2>3 DEF Apply
<1>13. WriteBackup => On({"fill", "write"})
  BY <1>0, Moves DEF On, WriteBackup, Places, Beginning, Signing, Redirecting, Patching, Dropping,
     Closing
<1>14. WritePatched => On({"open"})
  BY <1>0, Moves DEF On, WritePatched, Places, Beginning, Signing, Redirecting, Patching, Dropping,
     Closing
<1>15. OpenKiro => On({"idle"})
  BY <1>0, Moves DEF On, OpenKiro, End, Places, Beginning, Signing, Redirecting, Patching,
     Dropping, Closing
<1>16. Unbind => On({"plan", "idle"})
  BY <1>0, Moves DEF On, Unbind, End, Places, Beginning, Signing, Redirecting, Patching, Dropping,
     Closing
<1>17. PlanRestore => On({"unpatch", "putback", "idle"})
  BY <1>0, Moves DEF On, PlanRestore, End, Places, Beginning, Signing, Redirecting, Patching,
     Dropping, Closing
<1>18. WriteFails => op' = Idle \/ Undoes
  BY <1>0, Moves, FailedMoves DEF On, Undoes, WriteFails, Places, Beginning, Signing, Redirecting,
     Patching, Dropping, Closing
<1>19. Unpatch => On({"revert", "drop backup", "idle"})
  BY <1>0, Moves DEF On, Unpatch, End, TypeOK, Places, Beginning, Signing, Redirecting, Patching,
     Dropping, Closing
<1>20. DropMaterial => On({"drop state", "revert", "sweep"})
  BY <1>0, Moves DEF On, DropMaterial, TypeOK, Redirected, Places, Beginning, Signing, Redirecting,
     Patching, Dropping, Closing
<1>21. Revert => On({"revert", "forget", "idle"})
  BY <1>0, Moves DEF On, Revert, End, Operation, Places, Beginning, Signing, Redirecting, Patching,
     Dropping, Closing
<1>22. ForgetSnapshot => On({"putback", "idle"})
  BY <1>0, Moves DEF On, ForgetSnapshot, End, Places, Beginning, Signing, Redirecting, Patching,
     Dropping, Closing
<1>23. RestoreToken => On({"end session", "leftovers", "idle"})
  BY <1>0, Moves DEF On, RestoreToken, AfterRecords, End, Places, Beginning, Signing, Redirecting,
     Patching, Dropping, Closing
<1>24. RemoveSession => On({"leftovers", "idle"})
  BY <1>0, Moves DEF On, RemoveSession, AfterRecords, End, Places, Beginning, Signing, Redirecting,
     Patching, Dropping, Closing
<1>25. ScanLeftovers => On({"drop backup", "sweep", "idle"})
  BY <1>0, Moves DEF On, ScanLeftovers, End, TypeOK, Redirected, Places, Beginning, Signing,
     Redirecting, Patching, Dropping, Closing
<1>26. Sweep => On({"sweep", "idle"})
  BY <1>0, Moves DEF On, Sweep, End, Operation, Places, Beginning, Signing, Redirecting, Patching,
     Dropping, Closing
<1> QED
  BY <1>1, <1>2, <1>3, <1>4, <1>5, <1>6, <1>7, <1>8, <1>9, <1>10, <1>11, <1>12, <1>13, <1>14,
     <1>15, <1>16, <1>17, <1>18, <1>19, <1>20, <1>21, <1>22, <1>23, <1>24, <1>25, <1>26

Undone == Undoes /\ (CaptureSnapshot \/ Apply \/ WriteFails)

\* How an operation comes to a place: by which step, if it does not stay there.
LEMMA Arrivals ==
  ASSUME TypeOK, op \in Operation, Next
  PROVE
  /\ op'.at = "authenticate" => op' = op \/ StartActivate
  /\ op'.at = "close" => op' = op \/ Authenticate
  /\ op'.at = "record" => op' = op \/ stop_kiro_for_takeover
  /\ op'.at = "token" => op' = op \/ RecordSession
  /\ op'.at = "flag" => op' = op \/ SaveToken
  /\ op'.at = "takeover" => op' = op \/ SaveAuthenticated \/ StartLaunch
  /\ op'.at = "default" => op' = op \/ CaptureSnapshot
  /\ op'.at = "profiles" => op' = op \/ merge_byok \/ MergeProfile
  /\ op'.at = "apply" => op' = op \/ MergeProfile
  /\ op'.at = "backup" => op' = op \/ Apply
  /\ op'.at = "fill" => op' = op \/ WriteBackup
  /\ op'.at = "write" => op' = op \/ Apply \/ WriteBackup
  /\ op'.at = "open" => op' = op \/ Apply \/ WritePatched
  /\ op'.at = "unpatch" => op' = op \/ PlanRestore
  /\ op'.at = "drop backup" => op' = op \/ Unpatch \/ ScanLeftovers
  /\ op'.at = "drop state" => op' = op \/ DropMaterial
  /\ op'.at = "revert" => op' = op \/ Undone \/ Unpatch \/ DropMaterial \/ Revert
  /\ op'.at = "forget" => op' = op \/ Undone \/ Revert
  /\ op'.at = "putback" => op' = op \/ Undone \/ PlanRestore \/ ForgetSnapshot
  /\ op'.at = "end session" => op' = op \/ RestoreToken
  /\ op'.act = "activate" => op.act = "activate" \/ StartActivate
<1> USE IdleTyped, Landings DEF On, Undone, Undoes
<1>1. CASE Step
  BY <1>1 DEF Step
<1>2. CASE Environment
  <2>1. op' = op \/ op' = Idle
    BY <1>2 DEF Environment, Crash, UpdateClient, StartKiro, CloseKiro, DownloadUpdate, LandUpdate,
       Reinstall, Unfreeze, SignInOrOut, AddProfile, RemoveProfile, EditFile, Lose, End
  <2> QED
    BY <2>1
<1>3. CASE StartUsage \/ FinishUsage
  BY <1>3 DEF StartUsage, FinishUsage
<1>4. CASE StartActivate \/ StartLaunch \/ StartRestore \/ StartUnbind \/ WriteFails
  BY <1>4
<1> QED
  BY <1>1, <1>2, <1>3, <1>4 DEF Next

\* A takeover that is done only ends.
LEMMA OpenEnds ==
  ASSUME op.at = "open", Next
  PROVE  op' = op \/ op' = Idle
<1>1. op # Idle
  BY IdleTyped
<1>2. Step => OpenKiro
  BY DEF Step, At, Authenticate, stop_kiro_for_takeover, RecordSession, SaveToken,
     SaveAuthenticated,
     CaptureSnapshot, merge_byok, MergeProfile, Apply, WriteBackup, WritePatched, Unbind, PlanRestore,
     Unpatch, DropMaterial, Revert, ForgetSnapshot, RestoreToken, RemoveSession, ScanLeftovers, Sweep
<1> QED
  BY <1>1, <1>2 DEF Next, StartActivate, StartLaunch, StartRestore, StartUnbind, LockFree,
     StartUsage,
     FinishUsage, WriteFails, Environment, OpenKiro, End, Crash, UpdateClient, StartKiro, CloseKiro,
     DownloadUpdate, LandUpdate, Reinstall, Unfreeze, SignInOrOut, AddProfile, RemoveProfile,
     EditFile, Lose

\* The bundle and the patch's material keep their types; a bundle is only replaced by
\* one of its version, or by an installation.
MaterialOK ==
  /\ ext \in Bundles /\ backup \in 0 .. Torn /\ state \in StateType
  /\ rules \in 1 .. MaxRules
  /\ VersionsAgree

\* Every step keeps the material's types, and its versions in agreement.
LEMMA MaterialTyped ==
  ASSUME TypesOK, Next
  PROVE  MaterialOK'
<1> USE TakeoverAssumption
<1>0. /\ MaterialOK /\ op \in Operation /\ TypeOK
      /\ ext.v \in 1 .. MaxVersion /\ ext.p \in 0 .. MaxRules /\ ext # NoBundle
      /\ ext = [v |-> ext.v, p |-> ext.p]
      /\ state.orig \in 0 .. MaxVersion /\ state.now \in Bundles /\ state.prev \in Bundles
  <2>1. MaterialOK /\ op \in Operation /\ TypeOK
    BY DEF TypesOK, TypeOK, MaterialOK, StateType
  <2> QED
    BY <2>1 DEF MaterialOK, VersionsAgree, Bundles, NoBundle, Official, StateType
<1>1. /\ NoBundle \in Bundles
      /\ \A v \in 0 .. MaxVersion, p \in 0 .. MaxRules :
           LET bundle == [v |-> v, p |-> p]
           IN  bundle \in Bundles /\ bundle.v = v /\ (p > 0 => bundle # NoBundle)
      /\ \A v \in 0 .. MaxVersion : Official(v) \in Bundles /\ Official(v).v = v
  BY DEF Bundles, NoBundle, Official
<1>2. rules' \in 1 .. MaxRules
  <2>1. rules \in 1 .. MaxRules
    BY <1>0 DEF MaterialOK
  <2>2. UNCHANGED rules \/ (rules < MaxRules /\ rules' = rules + 1)
    BY Changes DEF UpdateClient, Apply, Lose
  <2> QED
    BY <2>1, <2>2
<1>3. CASE Apply
  <2>1. UNCHANGED <<ext, backup, waiting, rules>> /\ op'.at \notin {"fill"}
    BY <1>0, <1>3, Landings, IdleTyped DEF Apply, On, Undoes
  <2>2. ASSUME UNCHANGED state, op'.at \notin {"backup", "write"}
        PROVE  MaterialOK'
    BY <1>0, <2>1, <2>2 DEF MaterialOK, VersionsAgree, OfVersion, At
  <2>3. ASSUME state' = FreshState PROVE MaterialOK'
    <3>1. /\ FreshState \in StateType /\ FreshState.orig = ext.v /\ FreshState.prev = NoBundle
          /\ FreshState.now # NoBundle /\ FreshState.now.v = ext.v
      BY <1>0, <1>1 DEF FreshState, StateType, MaterialOK
    <3> QED
      BY <1>0, <2>1, <2>3, <3>1 DEF MaterialOK, VersionsAgree, OfVersion, At
  <2>4. ASSUME verify_patched_content, state' = RepairState PROVE MaterialOK'
    <3>1. ext.v = state.orig
      BY <1>0, <2>4 DEF verify_patched_content, MaterialOK, VersionsAgree, OfVersion
    <3>2. /\ updated_patch \in Bundles /\ updated_patch # NoBundle /\ updated_patch.v = ext.v
      BY <1>0, <1>1, <3>1 DEF updated_patch, MaterialOK
    <3>3. /\ RepairState \in StateType /\ RepairState.orig = ext.v /\ RepairState.prev = ext
          /\ RepairState.now = updated_patch
      BY <1>0, <3>1, <3>2 DEF RepairState, StateType, MaterialOK
    <3> QED
      BY <1>0, <2>1, <2>4, <3>2, <3>3 DEF MaterialOK, VersionsAgree, OfVersion, At
  <2> QED
    <3>1. CASE Failed
      BY <1>0, <1>3, <2>1, <2>2, <2>3, <2>4, <3>1, FailedMoves, IdleTyped DEF Apply, TypeOK
    <3>2. CASE ~Failed
      BY <1>0, <1>3, <2>1, <2>2, <2>3, <2>4, <3>2, Moves DEF Apply, Places, Redirecting, Patching
    <3> QED
      BY <3>1, <3>2
<1>4. CASE WriteBackup
  <2>1. op.at \in {"backup", "fill"} /\ op'.at \in {"fill", "write"}
    BY <1>0, <1>4, Moves DEF WriteBackup, At, Places, Redirecting, Patching
  <2>2. /\ backup' \in 0 .. Torn /\ UNCHANGED <<ext, state, waiting>>
    BY <1>0, <1>4 DEF WriteBackup, Torn, Operation, Bundles
  <2> QED
    BY <1>0, <1>2, <2>1, <2>2 DEF MaterialOK, VersionsAgree, OfVersion, At
<1>5. CASE UNCHANGED <<ext, state, backup>> /\ ~Apply /\ ~WriteBackup
  <2>1. op'.at \in {"backup", "fill", "write"} => op' = op
    BY <1>0, <1>5, Arrivals
  <2>2. waiting' => ext.v < MaxVersion
    BY <1>0, Changes DEF MaterialOK, VersionsAgree, DownloadUpdate, LandUpdate
  <2> QED
    BY <1>0, <1>2, <1>5, <2>1, <2>2 DEF MaterialOK, VersionsAgree, OfVersion, At
<1>6. CASE WritePatched
  <2>1. /\ At("write") /\ op'.at = "open" /\ ext' = state.now
        /\ UNCHANGED <<state, backup, waiting>>
    BY <1>0, <1>6, Moves DEF WritePatched, Places
  <2>2. ext'.v = ext.v /\ ext' \in Bundles
    BY <1>0, <2>1 DEF MaterialOK, VersionsAgree, OfVersion, At
  <2> QED
    BY <1>0, <1>2, <2>1, <2>2 DEF MaterialOK, VersionsAgree, OfVersion, At
<1>7. CASE Unpatch \/ ScanLeftovers
  <2>1. /\ UNCHANGED <<state, backup, waiting>> /\ op'.at \notin {"backup", "fill", "write"}
        /\ ext' = ext \/ (MaterialFits /\ ext' = Official(state.orig))
    <3>1. op'.at \notin {"backup", "fill", "write"}
      BY <1>0, <1>7, Landings DEF On
    <3>2. CASE Unpatch
      BY <3>1, <3>2 DEF Unpatch
    <3>3. CASE ScanLeftovers
      BY <3>1, <3>3 DEF ScanLeftovers, restore_material_is_lost
    <3> QED
      BY <1>7, <3>2, <3>3
  <2>2. MaterialFits => ext.v = state.orig
    BY <1>0, <1>1 DEF MaterialFits, MaterialOK, VersionsAgree, OfVersion
  <2>3. ext' \in Bundles /\ ext'.v = ext.v
    BY <1>0, <1>1, <2>1, <2>2
  <2> QED
    BY <1>0, <1>2, <2>1, <2>3 DEF MaterialOK, VersionsAgree, OfVersion, At
<1>a. /\ NoState \in StateType /\ OfVersion(NoState.now, NoState.orig)
      /\ OfVersion(NoState.prev, NoState.orig) /\ NoBackup \in 0 .. Torn
  BY <1>1 DEF NoState, StateType, OfVersion, NoBackup, Torn
<1>8. CASE DropMaterial
  <2>1. /\ UNCHANGED <<ext, waiting>> /\ op'.at \notin {"backup", "fill", "write"}
        /\ state' \in {state, NoState} /\ backup' \in {backup, NoBackup}
    BY <1>0, <1>8, Landings DEF DropMaterial, On
  <2> QED
    BY <1>0, <1>2, <1>a, <2>1 DEF MaterialOK, VersionsAgree, OfVersion, At
<1>9. CASE LandUpdate \/ Reinstall
  <2>1. /\ \E v \in 1 .. MaxVersion : Installs(v) /\ (waiting' => v < MaxVersion)
        /\ op'.at \notin {"backup", "fill", "write"}
    BY <1>0, <1>9, IdleTyped DEF LandUpdate, Reinstall, MaterialOK, VersionsAgree
  <2>2. PICK v \in 1 .. MaxVersion : Installs(v) /\ (waiting' => v < MaxVersion)
    BY <2>1
  <2>3. /\ ext' \in Bundles /\ ext'.v = v
        /\ state' \in {state, NoState} /\ backup' \in {backup, NoBackup}
    <3>1. v \in 0 .. MaxVersion
      OBVIOUS
    <3> QED
      BY <1>1, <2>2, <3>1 DEF Installs
  <2> QED
    BY <1>0, <1>2, <1>a, <2>1, <2>2, <2>3 DEF MaterialOK, VersionsAgree, OfVersion, At
<1>10. CASE \E records \in Losable : Lose(records)
  <2>1. /\ UNCHANGED <<ext, waiting>> /\ op'.at \notin {"backup", "fill", "write"}
        /\ state' \in {state, NoState} /\ backup' \in {backup, NoBackup}
    BY <1>10 DEF Lose, People
  <2> QED
    BY <1>0, <1>2, <1>a, <2>1 DEF MaterialOK, VersionsAgree, OfVersion, At
<1> QED
  BY <1>3, <1>4, <1>5, <1>6, <1>7, <1>8, <1>9, <1>10, Changes

\* The rest are flags, and a bounded counter.
FlagsOK ==
  /\ kiro \in BOOLEAN /\ waiting \in BOOLEAN /\ frozen \in BOOLEAN
  /\ signedIn \in BOOLEAN /\ stripped \in BOOLEAN /\ parted \in BOOLEAN
  /\ reader \in {"off", "none", "own", "gateway"} /\ events \in 0 .. MaxEvents

\* Every step keeps the flags.
LEMMA FlagsTyped ==
  ASSUME TypesOK, Next
  PROVE  FlagsOK'
<1> USE DEF FlagsOK, disk, history
<1>0. /\ FlagsOK /\ token \in {"none", "own", "gateway"} /\ snapshot.froze \in BOOLEAN
      /\ MaxEvents \in Nat
  BY TakeoverAssumption DEF TypesOK, TypeOK
<1>1. CASE StartActivate \/ StartLaunch \/ StartRestore \/ StartUnbind \/ StartUsage \/ FinishUsage
  BY <1>0, <1>1 DEF StartActivate, StartLaunch, StartRestore, StartUnbind, StartUsage, FinishUsage
<1>2. CASE Authenticate \/ stop_kiro_for_takeover \/ RecordSession \/ SaveToken
            \/ SaveAuthenticated \/ CaptureSnapshot \/ merge_byok \/ MergeProfile
  BY <1>0, <1>2 DEF Authenticate, stop_kiro_for_takeover, RecordSession, SaveToken,
     SaveAuthenticated, CaptureSnapshot, merge_byok, MergeProfile
<1>3. CASE Apply \/ WriteBackup \/ WritePatched \/ OpenKiro \/ Unbind \/ PlanRestore \/ Unpatch
            \/ DropMaterial
  BY <1>0, <1>3 DEF Apply, WriteBackup, WritePatched, OpenKiro, Unbind, PlanRestore, Unpatch,
     DropMaterial
<1>4. CASE Revert \/ ForgetSnapshot \/ RestoreToken \/ RemoveSession \/ ScanLeftovers \/ Sweep
  BY <1>0, <1>4 DEF Revert, ForgetSnapshot, RestoreToken, RemoveSession, ScanLeftovers, Sweep
<1>5. CASE WriteFails \/ Environment
  <2>1. events' \in 0 .. MaxEvents
    <3>1. UNCHANGED events \/ (events < MaxEvents /\ events' = events + 1)
      BY <1>5 DEF WriteFails, Environment, Crash, UpdateClient, StartKiro, CloseKiro,
         DownloadUpdate, LandUpdate, Reinstall, Unfreeze, SignInOrOut, AddProfile, RemoveProfile,
         EditFile, Lose, Disturb
    <3> QED
      BY <1>0, <3>1
  <2>2. CASE \E records \in Losable : Lose(records)
    <3>1. parted' \in BOOLEAN /\ stripped' \in BOOLEAN
      BY <1>0, <2>2, Zenon DEF Lose
    <3>2. signedIn' \in BOOLEAN
      BY <1>0, <2>2 DEF Lose, Stands
    <3>3. UNCHANGED <<kiro, waiting, frozen, reader>>
      BY <2>2 DEF Lose
    <3> QED
      BY <1>0, <2>1, <3>1, <3>2, <3>3
  <2>3. CASE \E to \in {"none", "own"} : SignInOrOut(to)
    <3>1. signedIn' \in BOOLEAN
      BY <1>0, <2>3 DEF SignInOrOut, Stands
    <3>2. UNCHANGED <<kiro, waiting, frozen, reader, stripped, parted>>
      BY <2>3 DEF SignInOrOut
    <3> QED
      BY <1>0, <2>1, <3>1, <3>2
  <2>4. CASE UNCHANGED history
    <3>1. signedIn' \in BOOLEAN /\ stripped' \in BOOLEAN /\ parted' \in BOOLEAN
      BY <1>0, <2>4
    <3>2. /\ kiro' \in {TRUE, FALSE, kiro} /\ waiting' \in {TRUE, FALSE, waiting}
          /\ frozen' \in {FALSE, frozen} /\ reader' \in {"off", reader}
      BY <1>5 DEF WriteFails, Environment, Crash, UpdateClient, StartKiro, CloseKiro,
         DownloadUpdate, LandUpdate, Reinstall, Unfreeze, SignInOrOut, AddProfile, RemoveProfile,
         EditFile, Lose
    <3> QED
      BY <1>0, <2>1, <3>1, <3>2
  <2> QED
    BY <1>5, <2>2, <2>3, <2>4 DEF WriteFails, Environment, Crash, UpdateClient, StartKiro, CloseKiro,
       DownloadUpdate, LandUpdate, Reinstall, Unfreeze, AddProfile, RemoveProfile, EditFile
<1> QED
  BY <1>1, <1>2, <1>3, <1>4, <1>5 DEF Next, Step

\* Together they are the types of the invariant.
LEMMA TypesFromParts ==
  TypesOK <=> FilesOK /\ RecordsOK /\ MaterialOK /\ FlagsOK /\ op \in Operation
BY DEF TypesOK, TypeOK, FilesOK, FileType, RecordsOK, SessionType, SnapshotType, MaterialOK,
       StateType, FlagsOK, Operation, Acts

\* Every step keeps the types.
LEMMA TypesStep ==
  ASSUME TypesOK, [Next]_vars
  PROVE  TypesOK'
<1>1. CASE Next
  <2>1. FilesOK' /\ RecordsOK' /\ MaterialOK' /\ FlagsOK'
    BY <1>1, FilesTyped, RecordsTyped, MaterialTyped, FlagsTyped
  <2>2. op' \in Operation
    BY <1>1, OperationStep DEF TypesOK
  <2> QED
    BY <2>1, <2>2 DEF TypesOK, TypeOK, FilesOK, FileType, RecordsOK, SessionType, SnapshotType,
       MaterialOK, StateType, FlagsOK, Operation, Acts
<1>2. CASE UNCHANGED vars
  BY <1>2 DEF vars, disk, history, TypesOK, TypeOK, VersionsAgree, At
<1> QED
  BY <1>1, <1>2

\* The initial states have them.
LEMMA TypesInit ==
  ASSUME Init
  PROVE  TypesOK
<1> USE TakeoverAssumption DEF Init
<1>1. op \in Operation
  BY IdleTyped
<1>2. FilesOK
  BY DEF FilesOK, FileType, Files
<1>3. RecordsOK
  BY DEF RecordsOK, SessionType, SnapshotType, NoSession, NoSnapshot
<1>4. MaterialOK
  BY DEF MaterialOK, VersionsAgree, OfVersion, Bundles, Official, NoBundle, NoState, StateType,
         NoBackup, Torn, At, Idle
<1>5. FlagsOK
  <2>1. events \in 0 .. MaxEvents
    OBVIOUS
  <2>2. signedIn \in BOOLEAN
    BY Zenon
  <2> QED
    BY <2>1, <2>2 DEF FlagsOK
<1> QED
  BY <1>1, <1>2, <1>3, <1>4, <1>5, TypesFromParts

-----------------------------------------------------------------------------
\* An idle client has no step to take.
LEMMA IdleWaits ==
  ASSUME op = Idle, Step \/ WriteFails
  PROVE  FALSE
<1>1. op.at = "idle" /\ op.act = "none"
  BY IdleTyped
<1> QED
  BY <1>1 DEF Step, WriteFails, At, Authenticate, stop_kiro_for_takeover, RecordSession, SaveToken,
     SaveAuthenticated, CaptureSnapshot, merge_byok, MergeProfile, Apply, WriteBackup,
     WritePatched, OpenKiro, Unbind, PlanRestore, Unpatch, DropMaterial, Revert, ForgetSnapshot,
     RestoreToken, RemoveSession, ScanLeftovers, Sweep

\* A balance read keeps every operation out, one under way keeps reads out, and
\* both let go of the session at their end.
LEMMA HandsStep ==
  ASSUME TypesOK, SignInStands, Next
  PROVE  Hands'
<1>a. /\ token \in {"none", "own", "gateway"} /\ Hands
      /\ ~NoSession.on
  BY TypesFromParts DEF RecordsOK, SignInStands, NoSession
<1>1. CASE StartUsage
  <2>1. reader' # "off" /\ op' = Idle /\ held'.on
    BY <1>a, <1>1 DEF StartUsage, LockFree, SignInStands
  <2> QED
    BY <2>1 DEF Hands
<1>2. CASE StartUnbind
  <2>1. reader' = "off" /\ op'.at = "unbinding"
    BY <1>2, IdleTyped DEF StartUnbind, LockFree, Idle
  <2> QED
    BY <2>1 DEF Hands, At
<1>3. CASE FinishUsage \/ Crash
  BY <1>a, <1>3 DEF FinishUsage, Crash, Hands
<1>4. CASE Unbind
  <2>1. reader' = reader /\ held' = NoSession /\ op # Idle
    BY <1>4, IdleTyped DEF Unbind, At
  <2> QED
    BY <1>a, <2>1 DEF Hands
<1>5. CASE UNCHANGED <<reader, held>> /\ ~StartUsage /\ ~StartUnbind /\ ~FinishUsage /\ ~Unbind
           /\ ~Crash
  <2>1. ASSUME op = Idle, reader # "off" PROVE op' = op
    <3>1. ~Step /\ ~WriteFails
      BY <2>1, IdleWaits
    <3>2. Environment
      BY <1>5, <2>1, <3>1 DEF Next, StartActivate, StartLaunch, StartRestore, LockFree
    <3> QED
      BY <1>5, <3>2 DEF Environment, UpdateClient, StartKiro, CloseKiro, DownloadUpdate, LandUpdate,
         Reinstall, Unfreeze, SignInOrOut, AddProfile, RemoveProfile, EditFile, Lose
  <2>2. ASSUME At("unbinding") PROVE op' = op
    <3>1. op # Idle
      BY <2>2, IdleTyped DEF At
    <3>2. ~Step /\ ~WriteFails
      BY <1>5, <2>2 DEF Step, WriteFails, At, Authenticate, stop_kiro_for_takeover, RecordSession,
         SaveToken, SaveAuthenticated, CaptureSnapshot, merge_byok, MergeProfile, Apply, WriteBackup,
         WritePatched, OpenKiro, PlanRestore, Unpatch, DropMaterial, Revert, ForgetSnapshot,
         RestoreToken, RemoveSession, ScanLeftovers, Sweep
    <3>3. Environment
      BY <1>5, <3>1, <3>2 DEF Next, StartActivate, StartLaunch, StartRestore, LockFree
    <3> QED
      BY <1>5, <3>3 DEF Environment, UpdateClient, StartKiro, CloseKiro, DownloadUpdate, LandUpdate,
         Reinstall, Unfreeze, SignInOrOut, AddProfile, RemoveProfile, EditFile, Lose
  <2> QED
    BY <1>a, <1>5, <2>1, <2>2 DEF Hands, At
<1> QED
  BY <1>1, <1>2, <1>3, <1>4, <1>5, Changes

\* A session in hand is the recorded one, as long as that is there; no sign-in
\* counts as the customer's own while only the hand has it.
LEMMA HandsMatchStep ==
  ASSUME TypesOK, SignInStands, Next
  PROVE  HandsMatch'
<1>a. Hands /\ HandsMatch /\ ~NoSession.on
  BY DEF SignInStands, NoSession
<1>1. CASE StartUsage \/ StartUnbind
  BY <1>1 DEF StartUsage, StartUnbind, HandsMatch, disk, history
<1>2. CASE FinishUsage \/ Unbind \/ Crash
  BY <1>a, <1>2 DEF FinishUsage, Unbind, Crash, HandsMatch
<1>3. CASE UNCHANGED held
  <2> SUFFICES ASSUME held.on
               PROVE  IF session'.on THEN held.prev = session'.prev ELSE ~signedIn'
    BY <1>3 DEF HandsMatch
  <2>1. op.at \in {"idle", "unbinding"}
    BY <1>a, IdleTyped DEF Hands, At
  <2>2. CASE \E records \in Losable : Lose(records)
    <3>1. CASE session' = session
      <4>1. signedIn' <=> signedIn
        BY <2>2, <3>1 DEF Lose
      <4> QED
        BY <1>a, <3>1, <4>1 DEF HandsMatch
    <3>2. CASE session' # session
      <4>1. session' = NoSession /\ ~signedIn'
        BY <2>2, <3>2 DEF Lose, Stands
      <4> QED
        BY <1>a, <4>1
    <3> QED
      BY <3>1, <3>2
  <2>3. CASE \E to \in {"none", "own"} : SignInOrOut(to)
    <3>1. session' = session /\ (~session.on => ~signedIn')
      BY <2>3 DEF SignInOrOut, Stands
    <3> QED
      BY <1>a, <3>1 DEF HandsMatch
  <2>4. CASE FinishUsage \/ Unbind
    BY <1>3, <1>a, <2>4 DEF FinishUsage, Unbind
  <2>5. CASE UNCHANGED <<session, signedIn>>
    BY <1>a, <2>5 DEF HandsMatch
  <2> QED
    BY <2>1, <2>2, <2>3, <2>4, <2>5, Changes DEF RecordSession, SaveAuthenticated, RemoveSession, At
<1> QED
  BY <1>1, <1>2, <1>3, Changes

\* The customer's sign-in is on record before the token is replaced, and goes
\* back before the record is removed.
LEMMA SignInStep ==
  ASSUME TypesOK, SignInStands, [Next]_vars
  PROVE  SignInStands'
<1>0. CASE UNCHANGED vars
  BY <1>0 DEF vars, disk, history, SignInStands, Hands, HandsMatch, At
<1> SUFFICES ASSUME Next PROVE SignInStands'
  BY <1>0
<1>a. TypeOK /\ op \in Operation
  BY DEF TypesOK
<1>b. session \in SessionType /\ held \in SessionType
  BY TypesFromParts DEF RecordsOK
<1>c. Hands' /\ HandsMatch'
  BY HandsStep, HandsMatchStep
<1>d. /\ op'.at = "authenticate" => op' = op \/ StartActivate
      /\ op'.at = "close" => op' = op \/ Authenticate
      /\ op'.at = "record" => op' = op \/ stop_kiro_for_takeover
      /\ op'.at = "token" => op' = op \/ RecordSession
      /\ op'.at = "flag" => op' = op \/ SaveToken
      /\ op'.at = "end session" => op' = op \/ RestoreToken
  BY <1>a, Arrivals
<1> USE DEF Beginning, Signing
<1>1. CASE RecordSession
  <2>1. /\ ~session.on /\ At("record") /\ UNCHANGED <<token, signedIn>>
        /\ op'.at \in {"token", "idle"}
        /\ \/ op'.at = "idle" /\ session' = session
           \/ op'.at = "token" /\ session'.on /\ session'.prev = token
    <3>1. At("record") /\ ~session.on
      BY <1>1 DEF RecordSession, SignInStands, At
    <3>2. CASE End /\ UNCHANGED session
      BY <1>1, <3>1, <3>2, IdleTyped DEF RecordSession, End, history
    <3>3. CASE Goto("token") /\ session' = [on |-> TRUE, prev |-> token, authenticated |-> FALSE]
      BY <1>1, <1>a, <3>1, <3>3, Moves DEF RecordSession, Places, history
    <3> QED
      BY <1>1, <3>1, <3>2, <3>3 DEF RecordSession
  <2> QED
    BY <1>c, <2>1 DEF SignInStands, At
<1>2. CASE SaveToken
  BY <1>2, <1>a, <1>c, Landings DEF SaveToken, SignInStands, At, On, history
<1>3. CASE SaveAuthenticated
  <2>1. /\ session'.on = session.on /\ session'.prev = session.prev /\ UNCHANGED <<token, signedIn>>
        /\ session'.authenticated => session.on
        /\ op'.at \in {"takeover", "plan", "idle"}
    BY <1>3, <1>a, <1>b, Landings DEF SaveAuthenticated, SessionType, SignInStands, At, On,
       history
  <2> QED
    BY <1>c, <2>1 DEF SignInStands, At
<1>e. ASSUME SaveHeld
      PROVE  /\ signedIn => session'.on = session.on /\ session'.prev = session.prev
             /\ session'.authenticated => session'.on
  <2>1. CASE held.on
    <3>1. session'.on /\ session'.prev = held.prev /\ ~session'.authenticated
      BY <1>b, <1>e, <2>1 DEF SaveHeld, SessionType
    <3> QED
      BY <2>1, <3>1 DEF SignInStands, HandsMatch
  <2>2. CASE ~held.on
    BY <1>e, <2>2 DEF SaveHeld, SignInStands
  <2> QED
    BY <2>1, <2>2
<1>11. CASE Unbind
  <2>1. /\ UNCHANGED <<token, signedIn>> /\ op'.at \in {"plan", "idle"}
        /\ session' = session \/ SaveHeld
    BY <1>11, <1>a, Landings DEF Unbind, On, history
  <2> QED
    BY <1>c, <1>e, <2>1 DEF SignInStands, At
<1>4. CASE RestoreToken
  <2>1. /\ UNCHANGED <<session, signedIn>> /\ op'.at \in {"end session", "leftovers", "idle"}
        /\ token' = token \/ (session.on /\ token' = session.prev)
    BY <1>4, <1>a, Landings DEF RestoreToken, On, history
  <2>2. op'.at = "end session" => session.on /\ token' = session.prev
    <3>1. CASE End \/ AfterRecords
      <4>1. "leftovers" \in Places
        BY DEF Places
      <4>2. Goto("leftovers") => op'.at = "leftovers"
        BY <1>a, <4>1, Moves
      <4>3. End => op'.at = "idle"
        BY IdleTyped DEF End
      <4>4. End \/ Goto("leftovers")
        BY <3>1 DEF AfterRecords
      <4> QED
        BY <4>2, <4>3, <4>4
    <3> QED
      BY <1>4, <3>1 DEF RestoreToken
  <2> QED
    BY <1>c, <2>1, <2>2 DEF SignInStands, At
<1>5. CASE RemoveSession
  <2>1. /\ session' = NoSession /\ UNCHANGED <<token, signedIn>> /\ At("end session")
        /\ op'.at \in {"leftovers", "idle"}
    BY <1>5, <1>a, Landings DEF RemoveSession, On, history
  <2>2. signedIn => token = "own"
    BY <2>1 DEF SignInStands
  <2> QED
    BY <1>c, <2>1, <2>2 DEF SignInStands, At, NoSession
<1>6. CASE Sweep
  <2>1. /\ token' = token \/ token # "own"
        /\ UNCHANGED <<session, signedIn>> /\ op'.at \in {"sweep", "idle"}
    BY <1>6, <1>a, Landings DEF Sweep, On, history
  <2> QED
    BY <1>c, <2>1 DEF SignInStands, At
<1>7. CASE FinishUsage
  <2>1. /\ UNCHANGED <<signedIn, op>> /\ op = Idle
        /\ session' = session \/ (SaveHeld /\ UNCHANGED token)
    BY <1>7 DEF FinishUsage, SignInStands, Hands, history
  <2>2. token' = token \/ (session' = session /\ (signedIn => session.on))
    BY <1>7 DEF FinishUsage, SignInStands, Hands, HandsMatch
  <2> QED
    BY <1>c, <1>e, <2>1, <2>2, IdleTyped DEF SignInStands, At
<1>8. CASE \E to \in {"none", "own"} : SignInOrOut(to)
  <2>1. /\ UNCHANGED <<session, op>> /\ op.at \in {"idle", "authenticate", "unbinding"}
        /\ session.on => (signedIn' <=> signedIn)
        /\ ~session.on /\ signedIn' => token' = "own"
    BY <1>8 DEF SignInOrOut, Stands, People
  <2>2. ~At("end session") /\ ~At("end session")'
    BY <2>1 DEF At
  <2> QED
    BY <1>c, <2>1, <2>2 DEF SignInStands
<1>9. CASE \E records \in Losable : Lose(records)
  <2>1. /\ UNCHANGED <<token, op>> /\ op.at \in {"idle", "authenticate", "unbinding"}
        /\ \/ session' = session /\ signedIn' = signedIn
           \/ session' = NoSession /\ (signedIn' => token = "own")
    BY <1>9 DEF Lose, Stands, People
  <2>2. ~NoSession.on /\ ~NoSession.authenticated
    BY DEF NoSession
  <2>3. CASE session' = session /\ signedIn' = signedIn
    BY <1>c, <2>1, <2>3 DEF SignInStands, At
  <2>4. CASE session' = NoSession /\ (signedIn' => token = "own")
    BY <1>c, <2>1, <2>2, <2>4 DEF SignInStands, At
  <2> QED
    BY <2>1, <2>3, <2>4
<1>10. CASE UNCHANGED <<token, session, signedIn>> /\ ~RecordSession /\ ~SaveToken /\ ~RestoreToken
  <2>1. op'.at \in Beginning => ~session.on
    BY <1>10, <1>d DEF SignInStands, At, StartActivate, recovery_pending, Records, Authenticate,
       stop_kiro_for_takeover
  <2>2. op'.at \in Signing \cup {"end session"} => op' = op
    BY <1>10, <1>d
  <2> QED
    BY <1>10, <1>c, <2>1, <2>2 DEF SignInStands, At
<1> QED
  BY <1>1, <1>2, <1>3, <1>4, <1>5, <1>6, <1>7, <1>8, <1>9, <1>10, <1>11, Changes

\* A bundle is patched only over complete material, and the material goes only
\* after the patch.
LEMMA MaterialStep ==
  ASSUME TypesOK, MaterialStands, [Next]_vars
  PROVE  MaterialStands'
<1>0. CASE UNCHANGED vars
  BY <1>0 DEF vars, disk, history, MaterialStands, PatchIsUndoable, Patched, MaterialFits, At
<1> SUFFICES ASSUME Next PROVE MaterialStands'
  BY <1>0
<1> USE DEF Patched
<1>a. TypeOK /\ op \in Operation /\ MaterialOK
  BY TypesFromParts DEF TypesOK
<1>b. /\ op'.at \in {"backup", "fill", "write"} => op' = op \/ Apply \/ WriteBackup
      /\ op'.at \in Dropping => op' = op \/ Unpatch \/ ScanLeftovers \/ DropMaterial
  BY <1>a, Arrivals DEF Dropping
<1>c. /\ ext.p \in Nat /\ ext # NoBundle /\ NoBundle.p = 0 /\ rules > 0
  BY <1>a DEF MaterialOK, VersionsAgree, Bundles, NoBundle, Official
<1>d. \A v : ext' = Official(v) => ~Patched'
  BY DEF Official
<1>f. \A v : ext = Official(v) => ~Patched
  BY DEF Official
<1>e. op'.at = "drop backup" => ~End /\ ~GotoWith("revert", snapshot.recs) /\ ~GotoWith("sweep", Redirected)
  <2>1. /\ "revert" \in Places /\ "sweep" \in Places
        /\ snapshot.recs \in SUBSET Files /\ Redirected \in SUBSET Files
    BY <1>a DEF Places, TypeOK, Redirected
  <2>2. GotoWith("revert", snapshot.recs) => op'.at = "revert"
    BY <1>a, <2>1, Moves
  <2>3. GotoWith("sweep", Redirected) => op'.at = "sweep"
    BY <1>a, <2>1, Moves
  <2>4. End => op'.at = "idle"
    BY IdleTyped DEF End
  <2> QED
    BY <2>2, <2>3, <2>4
<1>1. CASE Apply
  <2>1. /\ UNCHANGED <<ext, backup>> /\ op'.at \notin {"fill"} \cup Dropping
    BY <1>1, <1>a, Landings, IdleTyped DEF Apply, On, Undoes, Dropping
  <2>2. CASE Failed /\ UNCHANGED <<state, stripped>>
    <3>1. op'.at \notin {"backup", "fill", "write"}
      BY <1>a, <2>2, FailedMoves, IdleTyped DEF TypeOK
    <3> QED
      BY <2>1, <2>2, <3>1 DEF MaterialStands, PatchIsUndoable, MaterialFits, At
  <2>3. CASE ~Patched /\ state' = FreshState /\ op' = [op EXCEPT !.at = "backup", !.plan = ext]
    <3>1. op'.at = "backup" /\ op'.plan = ext
      BY <1>a, <2>3 DEF Operation
    <3>2. FreshState.orig = ext.v /\ FreshState.now.p = rules
      BY DEF FreshState
    <3> QED
      BY <1>c, <2>1, <2>3, <3>1, <3>2 DEF MaterialStands, PatchIsUndoable, At
  <2>4. CASE Patched /\ verify_patched_content /\ Goto("open") /\ UNCHANGED <<state, stripped>>
    <3>1. op'.at = "open"
      BY <1>a, <2>4, Moves DEF Places
    <3> QED
      BY <2>1, <2>4, <3>1 DEF MaterialStands, PatchIsUndoable, MaterialFits, At
  <2>5. CASE Patched /\ verify_patched_content /\ Goto("write") /\ state' = RepairState
    <3>1. op'.at = "write"
      BY <1>a, <2>5, Moves DEF Places, Redirecting, Patching
    <3>2. backup = state.orig
      BY <1>f, <2>5 DEF verify_patched_content, MaterialFits
    <3>3. RepairState.orig = state.orig /\ RepairState.prev = ext
      BY <1>a DEF RepairState, MaterialOK, StateType
    <3>4. state' # NoState
      BY <1>c, <2>5, <3>3 DEF NoState
    <3> QED
      BY <2>1, <2>5, <3>1, <3>2, <3>3, <3>4 DEF MaterialStands, PatchIsUndoable, MaterialFits, At
  <2> QED
    BY <1>1, <2>2, <2>3, <2>4, <2>5 DEF Apply
<1>2. CASE WriteBackup
  <2>1. /\ op.at \in {"backup", "fill"} /\ ~Patched /\ UNCHANGED <<ext, state, stripped>>
        /\ op.plan.v = state.orig /\ state.now.p > 0 /\ op'.plan = op.plan
        /\ \/ op'.at = "fill"
           \/ op'.at = "write" /\ backup' = op.plan.v
    BY <1>2, <1>a, Moves DEF WriteBackup, At, history, MaterialStands, Places, Redirecting, Patching
  <2>2. state # NoState
    BY <1>c, <2>1 DEF NoState
  <2> QED
    BY <2>1, <2>2 DEF MaterialStands, PatchIsUndoable, At, Dropping
<1>3. CASE WritePatched
  <2>1. /\ op'.at = "open" /\ UNCHANGED <<state, backup, stripped>> /\ ext' = state.now
        /\ state # NoState /\ backup = state.orig
    BY <1>3, <1>a, Moves DEF WritePatched, At, history, MaterialStands, Places
  <2> QED
    BY <2>1 DEF MaterialStands, PatchIsUndoable, MaterialFits, At, Dropping
<1>4. CASE Unpatch
  <2>1. /\ UNCHANGED <<state, backup, stripped>> /\ op'.at \in {"revert", "drop backup", "idle"}
    BY <1>4, <1>a, Landings DEF Unpatch, On, history
  <2>2. op'.at = "drop backup" => ~Patched'
    <3>1. CASE End \/ GotoWith("revert", snapshot.recs)
      BY <1>e, <3>1
    <3>2. CASE MayUnpatch /\ ext' = IF MaterialFits THEN Official(state.orig) ELSE ext
      <4>1. CASE MaterialFits
        BY <1>d, <3>2, <4>1
      <4>2. CASE ~MaterialFits
        BY <3>2, <4>2 DEF MayUnpatch, restore_material_is_lost
      <4> QED
        BY <4>1, <4>2
    <3> QED
      BY <1>4, <3>1, <3>2 DEF Unpatch
  <2>3. ext' = ext \/ ~Patched'
    BY <1>4, <1>d DEF Unpatch
  <2> QED
    BY <2>1, <2>2, <2>3 DEF MaterialStands, PatchIsUndoable, MaterialFits, At, Dropping
<1>5. CASE DropMaterial
  <2>1. ~Patched /\ UNCHANGED ext /\ op'.at \notin {"backup", "fill", "write"}
    BY <1>5, <1>a, Landings DEF DropMaterial, MaterialStands, At, Dropping, On
  <2> QED
    BY <2>1 DEF MaterialStands, PatchIsUndoable, At
<1>6. CASE ScanLeftovers
  <2>1. /\ UNCHANGED <<state, backup, stripped>> /\ op'.at \in {"drop backup", "sweep", "idle"}
        /\ ext' = ext \/ ~Patched'
    BY <1>6, <1>a, <1>d, Landings DEF ScanLeftovers, On, history
  <2>2. op'.at = "drop backup" => ~Patched'
    <3>1. CASE End \/ GotoWith("sweep", Redirected)
      BY <1>e, <3>1
    <3>2. CASE ext' = Official(state.orig)
      BY <1>d, <3>2
    <3> QED
      BY <1>6, <3>1, <3>2 DEF ScanLeftovers
  <2> QED
    BY <2>1, <2>2 DEF MaterialStands, PatchIsUndoable, MaterialFits, At, Dropping
<1>7. CASE LandUpdate \/ Reinstall
  <2>1. ~Patched' /\ UNCHANGED op /\ op.at \notin {"backup", "fill", "write"}
    BY <1>7, <1>d, IdleTyped DEF LandUpdate, Reinstall, Installs
  <2> QED
    BY <2>1 DEF MaterialStands, PatchIsUndoable, At
<1>8. CASE \E records \in Losable : Lose(records)
  <2>1. /\ UNCHANGED <<ext, op>> /\ op.at \in {"idle", "authenticate", "unbinding"}
        /\ ~stripped' => UNCHANGED <<state, backup>> /\ ~stripped
    BY <1>8 DEF Lose, People
  <2> QED
    BY <2>1 DEF MaterialStands, PatchIsUndoable, MaterialFits, At, Dropping
<1>9. CASE UNCHANGED <<ext, state, backup>> /\ ~Apply /\ ~WriteBackup /\ ~Unpatch /\ ~ScanLeftovers
           /\ ~DropMaterial /\ ~(\E records \in Losable : Lose(records))
  <2>1. UNCHANGED stripped
    BY <1>9, Changes DEF UpdateClient, history
  <2>2. op'.at \in {"backup", "fill", "write"} \cup Dropping => op' = op
    BY <1>9, <1>b
  <2> QED
    BY <1>9, <2>1, <2>2 DEF MaterialStands, PatchIsUndoable, MaterialFits, At, Dropping
<1> QED
  BY <1>1, <1>2, <1>3, <1>4, <1>5, <1>6, <1>7, <1>8, <1>9, Changes

\* Only a merge sends a file to the gateway, and only the patch's write
\* redirects the bundle.
LEMMA SentMoves ==
  ASSUME TypesOK, Next
  PROVE
  /\ Sent' \subseteq Sent \/ merge_byok \/ MergeProfile
  /\ merge_byok => Sent' \subseteq Sent \cup {Default} /\ files'[Default].to = "gateway"
                   /\ DOMAIN files' = DOMAIN files
  /\ MergeProfile => Sent' \subseteq Sent \cup op.todo /\ op'.todo \subseteq op.todo
                     /\ files'[Default].to \in {files[Default].to, "gateway"}
                     /\ DOMAIN files' = DOMAIN files
  /\ files'[Default].to \in {files[Default].to, "home"} \/ merge_byok \/ MergeProfile
  /\ Patched' => Patched \/ WritePatched
  /\ UNCHANGED files \/ op.at \in {"default", "profiles", "revert", "sweep"} \/ People
<1>0. /\ FilesOK /\ op \in Operation /\ Default \in DOMAIN files
      /\ \A f \in DOMAIN files : files[f] \in FileType
  BY TypesFromParts DEF FilesOK
<1>a. \A file \in FileType, to \in {"home", "gateway"} : [file EXCEPT !.to = to].to = to
  BY DEF FileType
<1>b. \A file \in FileType, text \in {"fine", "typo", "broken"} : [file EXCEPT !.text = text].to = file.to
  BY DEF FileType
<1> DEFINE Kept == Sent' \subseteq Sent /\ files'[Default].to \in {files[Default].to, "home"}
<1>1. ASSUME merge_byok
      PROVE  /\ Sent' \subseteq Sent \cup {Default} /\ files'[Default].to = "gateway"
             /\ DOMAIN files' = DOMAIN files
  BY <1>0, <1>a, <1>1 DEF merge_byok, Sent
<1>2. ASSUME MergeProfile
      PROVE  /\ Sent' \subseteq Sent \cup op.todo /\ op'.todo \subseteq op.todo
             /\ files'[Default].to \in {files[Default].to, "gateway"}
             /\ DOMAIN files' = DOMAIN files
  <2>1. CASE Goto("apply") /\ UNCHANGED files
    <3>1. op'.todo = op.todo
      BY <1>0, <2>1, Moves DEF Places, Redirecting, Patching
    <3> QED
      BY <2>1, <3>1 DEF Sent
  <2>2. CASE \E f \in op.todo : /\ GotoWith("profiles", op.todo \ {f})
                                /\ files' = [files EXCEPT ![f].to = "gateway"]
    <3>1. PICK f \in op.todo : /\ GotoWith("profiles", op.todo \ {f})
                               /\ files' = [files EXCEPT ![f] = [files[f] EXCEPT !.to = "gateway"]]
      BY <2>2
    <3>2. op'.todo = op.todo \ {f}
      <4>1. "profiles" \in Places /\ op.todo \ {f} \in SUBSET Files
        BY <1>0 DEF Places, Redirecting, Operation
      <4> QED
        BY <1>0, <3>1, <4>1, Moves
    <3>3. DOMAIN files' = DOMAIN files
      BY <3>1
    <3>4. \A g \in DOMAIN files : files'[g].to = IF g = f THEN "gateway" ELSE files[g].to
      BY <1>0, <1>a, <3>1
    <3> QED
      BY <1>0, <3>2, <3>3, <3>4 DEF Sent
  <2> QED
    BY <1>2, <2>1, <2>2 DEF MergeProfile
<1>3. ASSUME UNCHANGED files PROVE Kept
  BY <1>3 DEF Sent
<1>4. ASSUME Revert PROVE Kept
  <2>1. CASE UNCHANGED files
    BY <2>1 DEF Sent
  <2>2. CASE \E f \in op.todo : files' = [g \in DOMAIN files |->
               IF g = f THEN [files[g] EXCEPT !.to = "home"] ELSE files[g]]
    BY <1>0, <1>a, <2>2 DEF Sent
  <2> QED
    BY <1>4, <2>1, <2>2 DEF Revert
<1>5. ASSUME Sweep PROVE Kept
  <2>1. CASE UNCHANGED files
    BY <2>1 DEF Sent
  <2>2. CASE \E f \in op.todo : files' = [files EXCEPT ![f].to = "home"]
    BY <1>0, <1>a, <2>2 DEF Sent
  <2> QED
    BY <1>5, <2>1, <2>2 DEF Sweep
<1>6. ASSUME \E f \in Profiles : AddProfile(f) \/ RemoveProfile(f) PROVE Kept
  BY <1>0, <1>6, TakeoverAssumption DEF AddProfile, RemoveProfile, Sent, People
<1>7. ASSUME \E f \in Files, text \in {"fine", "typo", "broken"} : EditFile(f, text) PROVE Kept
  BY <1>0, <1>b, <1>7 DEF EditFile, Sent, People
<1>8. UNCHANGED files \/ op.at \in {"default", "profiles", "revert", "sweep"} \/ People
  BY Changes DEF merge_byok, MergeProfile, Revert, Sweep, AddProfile, RemoveProfile, EditFile, At
<1>9. Patched' => Patched \/ WritePatched
  <2>1. \A v : ext' = Official(v) => ~Patched'
    BY DEF Official, Patched
  <2>2. (\E v : ext' = Official(v)) \/ ext' = ext \/ WritePatched
    BY Changes DEF Apply, WriteBackup, Unpatch, DropMaterial, ScanLeftovers, LandUpdate, Reinstall,
       Installs, Lose
  <2> QED
    BY <2>1, <2>2 DEF Patched
<1> QED
  BY <1>1, <1>2, <1>3, <1>4, <1>5, <1>6, <1>7, <1>8, <1>9, Changes

\* What is clean stays so but for the steps that redirect.
LEMMA CleanStays ==
  ASSUME TypesOK, Next, Clean
  PROVE  /\ Clean' \/ merge_byok \/ MergeProfile \/ WritePatched
         /\ Clean' \/ op.at \in Redirecting
<1>1. Clean' \/ merge_byok \/ MergeProfile \/ WritePatched
  BY SentMoves DEF Clean
<1> QED
  BY <1>1 DEF merge_byok, MergeProfile, WritePatched, At, Redirecting, Patching

\* Only RecordSession opens a session.
LEMMA SessionStarts ==
  ASSUME TypesOK, Next, Open'
  PROVE  Open \/ RecordSession
<1>1. session \in SessionType /\ held \in SessionType /\ ~NoSession.on
  BY TypesFromParts DEF RecordsOK, NoSession
<1>2. held'.on => Open
  <2>1. held' \in {held, session, NoSession}
    BY Changes DEF StartUsage, StartUnbind, FinishUsage, Unbind, Crash
  <2> QED
    BY <1>1, <2>1 DEF Open
<1>3. session'.on => Open \/ RecordSession
  <2>1. \/ RecordSession
        \/ session' \in {session, [session EXCEPT !.authenticated = TRUE],
                         [held EXCEPT !.authenticated = FALSE], NoSession}
    BY Changes DEF SaveAuthenticated, Unbind, RemoveSession, FinishUsage, SaveHeld, Lose
  <2>2. /\ [session EXCEPT !.authenticated = TRUE].on = session.on
        /\ [held EXCEPT !.authenticated = FALSE].on = held.on
    BY <1>1 DEF SessionType
  <2> QED
    BY <1>1, <2>1, <2>2 DEF Open
<1> QED
  BY <1>2, <1>3 DEF Open

\* The takeover's record names a file before the file changes, and goes when
\* no file is redirected any more, unless a cleaner takes it.
LEMMA RecordsStep ==
  ASSUME TypesOK, SignInStands, HomeStands, [Next]_vars
  PROVE  RecordsCover'
<1>0. CASE UNCHANGED vars
  BY <1>0 DEF vars, disk, history, HomeStands, RecordsCover, Open, Clean, Sent, Patched, At
<1> SUFFICES ASSUME Next PROVE RecordsCover'
  BY <1>0
<1>a. /\ TypeOK /\ op \in Operation /\ RecordsCover /\ snapshot \in SnapshotType
      /\ session \in SessionType /\ Default \in DOMAIN files
  BY TypesFromParts DEF HomeStands, RecordsOK, FilesOK, TypesOK
<1>b. /\ op'.at = "default" => op' = op \/ CaptureSnapshot
      /\ op'.at = "profiles" => op' = op \/ merge_byok \/ MergeProfile
      /\ op'.at \in Patching => op' = op \/ MergeProfile \/ op.at \in Patching
      /\ op'.at = "unpatch" => op' = op \/ PlanRestore
  BY <1>a, Arrivals DEF Patching, Apply, WriteBackup, At
<1>1. CASE merge_byok \/ MergeProfile
  <2>1. /\ UNCHANGED <<snapshot, session, ext>> /\ snapshot.on /\ Default \in snapshot.recs
        /\ op.todo \subseteq snapshot.recs \cap DOMAIN files /\ Sent \subseteq snapshot.recs
        /\ files[Default].to # "copied"
    BY <1>1, <1>a DEF RecordsCover, Redirecting, At, merge_byok, MergeProfile
  <2>2. op'.at \in {"profiles", "apply"} /\ op'.todo \subseteq op.todo
    <3>1. merge_byok => op'.at = "profiles" /\ op'.todo = op.todo
      BY <1>a, Moves DEF merge_byok, Places, Redirecting
    <3> QED
      BY <1>1, <1>a, <3>1, SentMoves, Landings DEF On
  <2>3. Sent' \subseteq snapshot.recs /\ files'[Default].to # "copied" /\ DOMAIN files' = DOMAIN files
    BY <1>1, <2>1, SentMoves
  <2> QED
    BY <2>1, <2>2, <2>3 DEF RecordsCover, At
<1>2. CASE CaptureSnapshot
  <2>1. UNCHANGED <<files, session, held, parted, ext>>
    BY <1>2 DEF CaptureSnapshot, history
  <2>2. CASE Failed /\ UNCHANGED snapshot
    <3>1. op'.at \notin {"unpatch"} \cup Redirecting
      BY <1>a, <2>2, FailedMoves, IdleTyped DEF TypeOK, Redirecting, Patching
    <3> QED
      BY <1>a, <2>1, <2>2, <3>1 DEF RecordsCover, Open, Clean, Sent, Patched, At, Redirecting
  <2>3. CASE /\ snapshot'.on /\ snapshot'.recs = snapshot.recs \cup DOMAIN files
             /\ GotoWith("default", DOMAIN files \ {Default})
    <3>1. op'.at = "default" /\ op'.todo = DOMAIN files \ {Default}
      <4>1. "default" \in Places /\ DOMAIN files \ {Default} \in SUBSET Files
        BY <1>a DEF Places, Redirecting, TypeOK
      <4> QED
        BY <1>a, <2>3, <4>1, Moves
    <3>2. Sent' \subseteq DOMAIN files
      BY <2>1 DEF Sent
    <3> QED
      BY <1>a, <2>1, <2>3, <3>1, <3>2 DEF RecordsCover, At
  <2> QED
    BY <1>2, <2>2, <2>3 DEF CaptureSnapshot
<1>3. CASE ForgetSnapshot
  <2>1. /\ UNCHANGED <<files, session, held, parted, ext>> /\ op.at \in Closing
        /\ op'.at \in {"putback", "idle"}
        /\ snapshot' = snapshot \/ snapshot' = NoSnapshot
    BY <1>3, <1>a, Landings DEF ForgetSnapshot, At, Closing, On, history
  <2>2. ~NoSnapshot.on
    BY DEF NoSnapshot
  <2>3. Open /\ ~parted => Clean
    BY <2>1 DEF HomeStands, TokenReturnsLast
  <2> QED
    BY <1>a, <2>1, <2>2, <2>3 DEF RecordsCover, Open, Clean, Sent, Patched, At, Redirecting, Patching
<1>4. CASE \E records \in Losable : Lose(records)
  <2>1. /\ UNCHANGED <<files, ext, op>> /\ op.at \notin {"unpatch"} \cup Redirecting
        /\ snapshot' \in {snapshot, NoSnapshot} /\ session' \in {session, NoSession}
        /\ UNCHANGED held /\ parted' = (parted \/ (snapshot' # snapshot /\ Open'))
    BY <1>4 DEF Lose, Open, People, Redirecting, Patching
  <2>2. ~NoSnapshot.on /\ ~NoSession.on
    BY DEF NoSnapshot, NoSession
  <2>3. Open' => Open
    BY <2>1, <2>2 DEF Open
  <2>4. Open' /\ ~snapshot'.on /\ ~parted' => Clean'
    BY <1>a, <2>1, <2>3 DEF RecordsCover, Clean, Sent, Patched
  <2> QED
    BY <1>a, <2>1, <2>2, <2>4 DEF RecordsCover, Sent, At, Redirecting
<1>5. CASE /\ UNCHANGED snapshot /\ ~merge_byok /\ ~MergeProfile /\ ~CaptureSnapshot
           /\ ~(\E records \in Losable : Lose(records))
  <2>1. Sent' \subseteq Sent /\ files'[Default].to # "copied"
    BY <1>5, <1>a, SentMoves DEF RecordsCover
  <2>2. op'.at \in {"default", "profiles"} => op' = op
    BY <1>5, <1>b
  <2>3. op'.at \in Redirecting => op.at \in Redirecting
    BY <1>5, <1>b DEF Redirecting
  <2>4. Open' /\ ~snapshot.on /\ ~parted' => Clean'
    <3> SUFFICES ASSUME Open', ~snapshot.on, ~parted' PROVE Clean'
      OBVIOUS
    <3>1. op.at \notin Redirecting
      BY <1>a DEF RecordsCover
    <3>2. CASE Open /\ ~parted
      BY <1>a, <3>1, <3>2, CleanStays DEF RecordsCover
    <3>4. CASE StartActivate
      BY <3>4 DEF StartActivate, disk, recovery_pending, Leftovers, Redirected, Patched, Clean, Sent
    <3>3. CASE RecordSession
      <4>1. At("record") /\ Clean
        BY <3>3 DEF RecordSession, HomeStands, TokenLeavesFirst, Beginning, At
      <4> QED
        BY <3>1, <4>1, CleanStays
    <3> QED
      BY <1>5, <3>2, <3>3, <3>4, SessionStarts, Changes
  <2>5. op'.at \in {"default", "profiles"} => UNCHANGED files
    <3> SUFFICES ASSUME op'.at \in {"default", "profiles"} PROVE UNCHANGED files
      OBVIOUS
    <3>1. op' = op
      BY <2>2
    <3> QED
      BY <1>5, <3>1, Changes DEF Revert, Sweep, AddProfile, RemoveProfile, EditFile, People, At
  <2>6. op'.at = "unpatch" => snapshot.on
    <3>1. "putback" \in Places
      BY DEF Places, Closing
    <3>2. Goto("putback") => op'.at = "putback"
      BY <1>a, <3>1, Moves
    <3>3. End => op'.at = "idle"
      BY IdleTyped DEF End
    <3>4. PlanRestore => snapshot.on \/ End \/ Goto("putback")
      BY DEF PlanRestore
    <3> QED
      BY <1>a, <1>b, <3>2, <3>3, <3>4 DEF RecordsCover, At
  <2> QED
    BY <1>5, <1>a, <2>1, <2>2, <2>3, <2>4, <2>5, <2>6 DEF RecordsCover, At
<1> QED
  BY <1>1, <1>2, <1>3, <1>4, <1>5, Changes

\* Only an activation gets to where one begins, and it starts clean.
LEMMA LeavingStep ==
  ASSUME TypesOK, HomeStands, [Next]_vars
  PROVE  TokenLeavesFirst'
<1>0. CASE UNCHANGED vars
  BY <1>0 DEF vars, disk, history, HomeStands, TokenLeavesFirst, Clean, Sent, Patched, At
<1> SUFFICES ASSUME Next PROVE TokenLeavesFirst'
  BY <1>0
<1> DEFINE Outside == {"flag", "takeover"} \cup Redirecting
           Safe == token = "own" => files[Default].to = "gateway"
<1>a. /\ TypeOK /\ op \in Operation /\ TokenLeavesFirst
      /\ Default \in DOMAIN files /\ files[Default] \in FileType /\ files[Default].to # "copied"
  BY TypesFromParts DEF HomeStands, RecordsCover, TypesOK, FilesOK
<1>1. op'.at \in Beginning \cup Signing => op'.act = "activate"
  <2> SUFFICES ASSUME op'.at \in Beginning \cup Signing PROVE op'.act = "activate"
    OBVIOUS
  <2>1. \/ op' = op \/ StartActivate \/ Authenticate \/ stop_kiro_for_takeover
        \/ RecordSession \/ SaveToken
    BY <1>a, Arrivals DEF Beginning, Signing
  <2>2. CASE op' = op
    BY <1>a, <2>2 DEF TokenLeavesFirst
  <2>3. CASE StartActivate
    BY <2>3 DEF StartActivate
  <2>4. CASE Authenticate \/ stop_kiro_for_takeover \/ RecordSession \/ SaveToken
    <3>1. op.at \in Beginning \cup Signing
      BY <2>4 DEF Authenticate, stop_kiro_for_takeover, RecordSession, SaveToken, At, Beginning,
         Signing
    <3>2. op'.act = op.act
      BY <1>a, <2>4, Landings, IdleTyped DEF On, Beginning, Signing
    <3> QED
      BY <1>a, <3>1, <3>2 DEF TokenLeavesFirst
  <2> QED
    BY <2>1, <2>2, <2>3, <2>4
<1>2. op'.act = "activate" /\ op'.at # "open" => ~Patched'
  <2> SUFFICES ASSUME op'.act = "activate", op'.at # "open" PROVE ~Patched'
    OBVIOUS
  <2>1. CASE StartActivate
    BY <2>1 DEF StartActivate, disk, recovery_pending, Leftovers, Patched
  <2>2. CASE op.act = "activate" /\ op.at = "open"
    BY <2>2, OpenEnds, IdleTyped
  <2>3. CASE op.act = "activate" /\ op.at # "open"
    <3>1. ~Patched
      BY <1>a, <2>3 DEF TokenLeavesFirst, At
    <3>2. ~WritePatched
      BY <1>a, Landings, IdleTyped DEF On
    <3> QED
      BY <3>1, <3>2, SentMoves
  <2> QED
    BY <1>a, <2>1, <2>2, <2>3, Arrivals
<1>3. op'.act = "activate" /\ op'.at \in Beginning \cup Signing \cup {"takeover", "default"} => Clean'
  <2> SUFFICES ASSUME op'.act = "activate",
                      op'.at \in Beginning \cup Signing \cup {"takeover", "default"}
               PROVE  Clean'
    OBVIOUS
  <2>1. CASE StartActivate
    BY <2>1 DEF StartActivate, disk, recovery_pending, Leftovers, Redirected, Patched, Clean, Sent
  <2>2. CASE op.act = "activate"
    <3>1. op.at \in Beginning \cup Signing \cup {"takeover", "default"}
      <4>1. \/ op' = op \/ Authenticate \/ stop_kiro_for_takeover \/ RecordSession \/ SaveToken
            \/ SaveAuthenticated \/ CaptureSnapshot \/ StartActivate \/ StartLaunch
        BY <1>a, Arrivals DEF Beginning, Signing
      <4>2. ~StartActivate /\ ~StartLaunch
        BY <2>2, IdleTyped DEF StartActivate, StartLaunch, LockFree
      <4> QED
        BY <4>1, <4>2 DEF Authenticate, stop_kiro_for_takeover, RecordSession, SaveToken,
           SaveAuthenticated, CaptureSnapshot, At, Beginning, Signing
    <3>2. Clean
      BY <1>a, <2>2, <3>1 DEF TokenLeavesFirst
    <3>3. ~merge_byok /\ ~MergeProfile /\ ~WritePatched
      BY <1>a, Landings, IdleTyped DEF On, Beginning, Signing
    <3> QED
      BY <3>2, <3>3, CleanStays
  <2> QED
    BY <1>a, <2>1, <2>2, Arrivals
<1>4. op'.at \in Outside => Safe'
  <2> SUFFICES ASSUME op'.at \in Outside PROVE Safe'
    OBVIOUS
  <2>1. CASE SaveToken
    BY <2>1 DEF SaveToken
  <2>2. CASE StartLaunch
    <3>1. files[Default].to = "gateway" /\ UNCHANGED files
      BY <1>a, <2>2 DEF StartLaunch, disk, plan_takeover, check_records, FileType
    <3> QED
      BY <3>1
  <2>3. CASE op.at \in Outside
    <3>1. UNCHANGED token \/ token' = "gateway"
      <4>1. op # Idle /\ ~People
        BY <2>3, IdleTyped DEF People, Redirecting, Patching
      <4>2. ~RestoreToken /\ ~Sweep /\ \A to \in {"none", "own"} : ~SignInOrOut(to)
        BY <2>3, <4>1 DEF RestoreToken, Sweep, SignInOrOut, At, Redirecting, Patching
      <4> QED
        BY <4>2, Changes DEF SaveToken, FinishUsage, refresh
    <3>2. files'[Default].to \in {files[Default].to, "gateway"}
      <4>1. CASE merge_byok \/ MergeProfile
        BY <4>1, SentMoves
      <4>2. CASE ~merge_byok /\ ~MergeProfile
        <5>1. UNCHANGED files
          BY <2>3, <4>2, Changes DEF Revert, Sweep, AddProfile, RemoveProfile, EditFile, People, At,
             Redirecting, Patching
        <5> QED
          BY <5>1
      <4> QED
        BY <4>1, <4>2
    <3>3. Safe
      BY <1>a, <2>3 DEF TokenLeavesFirst
    <3> QED
      BY <3>1, <3>2, <3>3
  <2>4. SaveToken \/ StartLaunch \/ op.at \in Outside
    <3>1. \/ op' = op \/ SaveToken \/ SaveAuthenticated \/ StartLaunch \/ CaptureSnapshot
          \/ merge_byok \/ MergeProfile \/ Apply \/ WriteBackup
      BY <1>a, Arrivals DEF Redirecting, Patching
    <3> QED
      BY <3>1 DEF SaveAuthenticated, CaptureSnapshot, merge_byok, MergeProfile, Apply, WriteBackup,
         At,
         Redirecting, Patching
  <2> QED
    BY <2>1, <2>2, <2>3, <2>4
<1> QED
  BY <1>1, <1>2, <1>3, <1>4 DEF TokenLeavesFirst, At

\* The bundle, the files and the token come back in this order, from a failed
\* activation too.
LEMMA ReturningStep ==
  ASSUME TypesOK, SignInStands, MaterialStands, HomeStands, [Next]_vars
  PROVE  TokenReturnsLast'
<1>0. CASE UNCHANGED vars
  BY <1>0 DEF vars, disk, history, HomeStands, TokenReturnsLast, Open, Clean, Sent, Patched, At
<1> SUFFICES ASSUME Next PROVE TokenReturnsLast'
  BY <1>0
<1>a. /\ TypeOK /\ op \in Operation
      /\ RecordsCover /\ TokenLeavesFirst /\ TokenReturnsLast
  BY DEF HomeStands, TypesOK
<1>b. ASSUME Undone
      PROVE  /\ op.act = "activate" /\ op.at # "open" /\ UNCHANGED <<ext, files, session>>
             /\ op.at \in {"takeover"} \cup Redirecting /\ op'.todo = snapshot.recs
             /\ op'.at = IF op.at = "takeover" THEN "putback"
                         ELSE IF op.at = "default" THEN "forget" ELSE "revert"
  BY <1>b DEF Undone, Undoes, CaptureSnapshot, Apply, WriteFails, At, disk, Redirecting, Patching
<1>c. op'.at \in Closing \cup Dropping \cup {"revert"} => ~merge_byok /\ ~MergeProfile /\ ~WritePatched
  BY <1>a, Landings, IdleTyped DEF On, Closing, Dropping
<1>1. op'.at \in Dropping => ~Patched'
  BY MaterialStep DEF MaterialStands
<1>2. op'.at = "revert" => ~Patched'
  <2> SUFFICES ASSUME op'.at = "revert" PROVE ~Patched'
    OBVIOUS
  <2>1. ~Patched
    <3>1. op' = op \/ Undone \/ Unpatch \/ DropMaterial \/ Revert
      BY <1>a, Arrivals
    <3>2. CASE op' = op \/ DropMaterial \/ Revert
      BY <1>a, <3>2 DEF TokenReturnsLast, DropMaterial, Revert, At, Dropping
    <3>3. CASE Undone
      BY <1>a, <1>b, <3>3 DEF TokenLeavesFirst, At
    <3>4. CASE Unpatch
      <4>1. ~End /\ ~Goto("drop backup")
        <5>1. "drop backup" \in Places
          BY DEF Places, Dropping
        <5> QED
          BY <1>a, <5>1, Moves, IdleTyped DEF End
      <4> QED
        BY <3>4, <4>1 DEF Unpatch, NoMaterial
    <3> QED
      BY <3>1, <3>2, <3>3, <3>4
  <2> QED
    BY <1>c, <2>1, SentMoves
<1>3. op'.at = "revert" => Sent' \subseteq op'.todo
  <2> SUFFICES ASSUME op'.at = "revert" PROVE Sent' \subseteq op'.todo
    OBVIOUS
  <2>1. Sent' \subseteq Sent
    BY <1>c, SentMoves
  <2>2. CASE op' = op
    BY <1>a, <2>1, <2>2 DEF TokenReturnsLast, At
  <2>3. CASE Undone
    <3>1. snapshot.on
      BY <1>a, <1>b, <2>3 DEF RecordsCover
    <3> QED
      BY <1>a, <1>b, <2>1, <2>3, <3>1 DEF RecordsCover
  <2>4. CASE Unpatch \/ DropMaterial
    <3>1. snapshot.on /\ GotoWith("revert", snapshot.recs)
      <4>1. /\ "drop backup" \in Places /\ "drop state" \in Places /\ "sweep" \in Places
            /\ Redirected \in SUBSET Files
        BY <1>a DEF Places, Dropping, TypeOK, Redirected
      <4>2. ~End /\ ~Goto("drop backup") /\ ~Goto("drop state") /\ ~GotoWith("sweep", Redirected)
        BY <1>a, <4>1, Moves, IdleTyped DEF End
      <4> QED
        BY <1>a, <2>4, <4>2 DEF Unpatch, DropMaterial, RecordsCover, At
    <3>2. op'.todo = snapshot.recs
      <4>1. "revert" \in Places /\ snapshot.recs \in SUBSET Files
        BY <1>a DEF Places, TypeOK
      <4> QED
        BY <1>a, <3>1, <4>1, Moves
    <3> QED
      BY <1>a, <2>1, <3>1, <3>2 DEF RecordsCover
  <2>5. CASE Revert
    <3>1. "forget" \in Places
      BY DEF Places, Closing
    <3>2. ~End /\ ~Goto("forget")
      BY <1>a, <3>1, Moves, IdleTyped DEF End
    <3>3. PICK f \in op.todo :
            /\ GotoWith("revert", op.todo \ {f})
            /\ files' = [g \in DOMAIN files |->
                           IF g = f THEN [files[g] EXCEPT !.to = "home"] ELSE files[g]]
      BY <2>5, <3>2 DEF Revert
    <3>4. op'.todo = op.todo \ {f}
      <4>1. "revert" \in Places /\ op.todo \ {f} \in SUBSET Files
        BY <1>a DEF Places, Operation
      <4> QED
        BY <1>a, <3>3, <4>1, Moves
    <3>5. f \notin Sent'
      <4>1. f \in DOMAIN files => files'[f] = [files[f] EXCEPT !.to = "home"] /\ files[f] \in FileType
        BY <3>3, TypesFromParts DEF FilesOK
      <4>2. f \in DOMAIN files => files'[f].to = "home"
        BY <4>1 DEF FileType
      <4> QED
        BY <3>3, <4>2 DEF Sent
    <3> QED
      BY <1>a, <2>1, <2>5, <3>4, <3>5 DEF TokenReturnsLast, Revert, At
  <2> QED
    BY <1>a, <2>2, <2>3, <2>4, <2>5, Arrivals
<1>4. op'.at \in Closing /\ Open' /\ ~parted' => Clean'
  <2> SUFFICES ASSUME op'.at \in Closing, Open', ~parted' PROVE Clean'
    OBVIOUS
  <2>1. Open /\ ~parted
    <3>1. ~RecordSession /\ ~StartActivate
      BY <1>a, Landings, IdleTyped DEF On, Closing
    <3>2. ~parted
      BY <3>1, Changes DEF Lose
    <3> QED
      BY <3>1, <3>2, SessionStarts
  <2>2. Clean
    <3>1. op' = op \/ Undone \/ Revert \/ PlanRestore \/ ForgetSnapshot \/ RestoreToken
      BY <1>a, Arrivals DEF Closing
    <3>2. CASE op' = op \/ ForgetSnapshot \/ RestoreToken
      BY <1>a, <2>1, <3>2 DEF TokenReturnsLast, ForgetSnapshot, RestoreToken, At, Closing
    <3>3. CASE Undone
      <4>1. op.at \in {"takeover", "default"}
        BY <1>b, <3>3 DEF Closing
      <4> QED
        BY <1>a, <1>b, <3>3, <4>1 DEF TokenLeavesFirst
    <3>4. CASE Revert
      <4>1. ~End /\ \A todo \in SUBSET Files : ~GotoWith("revert", todo)
        <5>1. "revert" \in Places
          BY DEF Places
        <5> QED
          BY <1>a, <5>1, Moves, IdleTyped DEF End, Closing
      <4>2. \A f : op.todo \ {f} \in SUBSET Files
        BY <1>a DEF Operation
      <4>3. op.todo = {} /\ At("revert")
        BY <3>4, <4>1, <4>2 DEF Revert
      <4> QED
        BY <1>a, <4>3 DEF TokenReturnsLast, Clean, At
    <3>5. CASE PlanRestore
      <4>1. ~End /\ ~Goto("unpatch")
        <5>1. "unpatch" \in Places
          BY DEF Places
        <5> QED
          BY <1>a, <5>1, Moves, IdleTyped DEF End, Closing
      <4> QED
        BY <1>a, <2>1, <3>5, <4>1 DEF PlanRestore, RecordsCover
    <3> QED
      BY <3>1, <3>2, <3>3, <3>4, <3>5
  <2> QED
    BY <1>c, <2>2, CleanStays
<1> QED
  BY <1>1, <1>2, <1>3, <1>4 DEF TokenReturnsLast, At

\* No step of an operation exposes the customer's token: a step that redirects
\* finds another one in the file, or Default redirected already; and what puts it
\* back finds nothing redirected, unless the takeover's record was lost.
LEMMA StepExposesNothing ==
  ASSUME TypesOK, HomeStands, Step, Exposed', ~parted
  PROVE  Exposed
<1>a. /\ RecordsCover /\ TokenLeavesFirst /\ TokenReturnsLast /\ Next
      /\ Default \in DOMAIN files /\ op \in Operation
  BY TypesFromParts DEF HomeStands, FilesOK, Next
<1>b. /\ Exposed <=> token = "own" /\ (Patched \/ Sent # {})
      /\ Exposed' <=> token' = "own" /\ (Patched' \/ Sent' # {})
  BY DEF Exposed, Sent
<1>c. token' = token \/ SaveToken \/ RestoreToken \/ Sweep
  BY DEF Step, disk, Authenticate, stop_kiro_for_takeover, RecordSession,
     SaveAuthenticated, CaptureSnapshot, merge_byok, MergeProfile, Apply, WriteBackup, WritePatched,
     OpenKiro, Unbind, PlanRestore, Unpatch, DropMaterial, Revert, ForgetSnapshot, RemoveSession,
     ScanLeftovers
<1>1. CASE merge_byok \/ MergeProfile \/ WritePatched
  <2>1. token' = token /\ op.at \in Redirecting
    BY <1>1 DEF merge_byok, MergeProfile, WritePatched, At, Redirecting, Patching
  <2>2. files[Default].to = "gateway"
    BY <1>a, <1>b, <2>1 DEF TokenLeavesFirst
  <2> QED
    BY <1>a, <1>b, <2>1, <2>2 DEF Sent
<1>2. CASE ~merge_byok /\ ~MergeProfile /\ ~WritePatched
  <2>1. Sent # {} \/ Patched
    BY <1>a, <1>b, <1>2, SentMoves
  <2>2. token' = token \/ (RestoreToken /\ session.on)
    BY <1>b, <1>c DEF SaveToken, RestoreToken, Sweep
  <2>3. CASE RestoreToken /\ session.on
    BY <1>a, <2>1, <2>3 DEF RestoreToken, TokenReturnsLast, Open, Clean, At, Closing
  <2> QED
    BY <1>b, <2>1, <2>2, <2>3
<1> QED
  BY <1>1, <1>2

\* It all stands before anything was taken over.
LEMMA InitStands ==
  ASSUME Init
  PROVE  SignInStands /\ MaterialStands /\ HomeStands
<1> USE IdleTyped
<1>1. /\ ~session.on /\ ~session.authenticated /\ ~held.on /\ ~snapshot.on /\ reader = "off"
      /\ op.at = "idle" /\ op.act = "none" /\ ~Patched
  BY DEF Init, NoSession, NoSnapshot, Patched, Official
<1>2. signedIn => token = "own"
  BY Zenon DEF Init
<1>3. Sent = {} /\ files[Default].to # "copied"
  <2>1. PICK fs \in SUBSET Profiles :
          files = [f \in {Default} \cup fs |-> [to |-> "home", text |-> "fine"]]
    BY DEF Init
  <2>2. \A f \in DOMAIN files : files[f].to = "home"
    BY <2>1
  <2>3. Default \in DOMAIN files
    BY <2>1
  <2> QED
    BY <2>2, <2>3 DEF Sent
<1>4. SignInStands
  BY <1>1, <1>2 DEF SignInStands, Hands, HandsMatch, Beginning, Signing, At
<1>5. MaterialStands
  BY <1>1 DEF MaterialStands, PatchIsUndoable, Dropping, At
<1>6. HomeStands
  BY <1>1, <1>3 DEF HomeStands, RecordsCover, Open, TokenLeavesFirst, TokenReturnsLast, Beginning,
     Signing,
     Redirecting, Patching, Dropping, Closing, At
<1> QED
  BY <1>4, <1>5, <1>6

-----------------------------------------------------------------------------
\* What sign-in, material and the order of a takeover and a restore stand on,
\* whatever a cleaner takes.
THEOREM TakeoverInvariance == Spec => []IInv
<1>1. Init => IInv
  BY TypesInit, InitStands DEF IInv
<1>2. IInv /\ [Next]_vars => IInv'
  BY TypesStep, SignInStep, MaterialStep, RecordsStep, LeavingStep, ReturningStep
     DEF IInv, HomeStands
<1> QED
  BY <1>1, <1>2, PTL DEF Spec

\* The types of the installation, the records and the operation under way.
THEOREM TakeoverTypes == Spec => []TypeOK
<1>1. IInv => TypeOK
  BY DEF IInv, TypesOK
<1> QED
  BY <1>1, TakeoverInvariance, PTL

\* The customer's own sign-in is in Kiro's file or on the session's record,
\* whatever dies, fails or answers late (the property SignInKept).
THEOREM SignInIsKept == Spec => []SignInKept
<1>1. IInv => SignInKept
  BY DEF IInv, SignInStands, SignInKept
<1> QED
  BY <1>1, TakeoverInvariance, PTL

\* A live patch nobody stripped of its material can be rolled back, whenever
\* the client died (the property PatchIsUndoable).
THEOREM PatchesAreUndoable == Spec => []PatchIsUndoable
<1>1. IInv => PatchIsUndoable
  BY DEF IInv, MaterialStands
<1> QED
  BY <1>1, TakeoverInvariance, PTL

\* No step of the client exposes the customer's own token (the property
\* OwnTokenStaysHome), whatever a cleaner takes: but for what is left of a takeover
\* whose record it took while the session's stayed, or was in hand.
THEOREM OwnTokenIsHome == Spec => OwnTokenStaysHome
<1>1. IInv /\ [Next]_vars => [Step /\ Exposed' => Exposed \/ parted]_vars
  BY StepExposesNothing DEF IInv
<1> QED
  BY <1>1, TakeoverInvariance, PTL DEF Spec, OwnTokenStaysHome
=============================================================================
