------------------------------ MODULE Takeover ------------------------------
(***************************************************************************)
(* The desktop client's takeover of one Kiro installation: it puts the     *)
(* gateway's token in Kiro's token file, points settings.json of Default   *)
(* and of every profile at the gateway, freezes Kiro's updater and patches *)
(* extension.js; a restore or an unbind undoes it from two records (the    *)
(* desktop session and the snapshot), from the patch's own material, or,   *)
(* when the records are lost, from what the files show.                    *)
(*                                                                         *)
(* Every step is one file write of the client; it may die after any of     *)
(* them, a write of an activation may fail, and Kiro may be started, be    *)
(* updated or be edited by its user around them.                           *)
(*   - One installation, one gateway, one client: a bundle's hash is the   *)
(*     bundle itself, a file that redirects names this gateway.            *)
(*   - People act while the client is idle or waits for the network; an    *)
(*     update does not land between apply's read of the bundle and its     *)
(*     write (patch.rs checks nothing there).                              *)
(*   - A prior state is recorded as "redirects nowhere": an activation is  *)
(*     refused while a file names the gateway, and a profile's record is   *)
(*     stripped of it.                                                     *)
(***************************************************************************)
EXTENDS Naturals, FiniteSets

CONSTANTS
  Default,      \* Kiro's Default profile
  Profiles,     \* its other profiles
  MaxVersion,   \* bound: Kiro's versions
  MaxRules,     \* bound: versions of the patch rules (client updates)
  MaxEvents,    \* bound: crashes, failed writes and disturbing acts of people
  Losable,      \* the sets of records a cleaner may delete together
  SeesUpdates   \* a waiting update can be seen (on Windows only)

ASSUME TakeoverAssumption ==
  /\ Default \notin Profiles
  /\ MaxVersion \in Nat \ {0} /\ MaxRules \in Nat \ {0} /\ MaxEvents \in Nat
  /\ SeesUpdates \in BOOLEAN
  /\ Losable \subseteq SUBSET {"snapshot", "session", "state", "backup"}

VARIABLES
  kiro,      \* Kiro runs
  waiting,   \* an update of Kiro is downloaded and installs once Kiro closes
  ext,       \* extension.js: Kiro version v patched by rules p, 0 if official
  state,     \* .kpatch-state: what the patch was made from, is and was
  backup,    \* .kpatch-backup: the version it holds, or none, or a torn one
  files,     \* settings.json by profile: where it points Kiro and how it reads
  frozen,    \* update.mode in Default's file is "none"
  token,     \* Kiro's token file
  session,   \* the desktop session's record
  snapshot,  \* the takeover's rollback record
  op,        \* the client's operation under way
  reader,    \* the token a balance read holding the session lock found, or off
  held,      \* the session that read, or an unbind, has loaded before the network
  rules,     \* the patch rules of the installed client
  signedIn,  \* history: the customer's own sign-in outside any takeover stands
  stripped,  \* history: the live patch's material was deleted by another
  parted,    \* history: so was a takeover's snapshot, but not its session
  events     \* disturbances so far

disk == <<ext, state, backup, files, frozen, token, session, snapshot>>
history == <<signedIn, stripped, parted>>
vars == <<kiro, waiting, disk, op, reader, held, rules, history, events>>

Files == {Default} \cup Profiles
NoBackup == 0
Torn == MaxVersion + 1
Bundles == [v: 0 .. MaxVersion, p: 0 .. MaxRules]
Official(v) == [v |-> v, p |-> 0]
NoBundle == Official(0)
NoState == [orig |-> 0, now |-> NoBundle, prev |-> NoBundle]
NoSession == [on |-> FALSE, prev |-> "none", authenticated |-> FALSE]
NoSnapshot == [on |-> FALSE, recs |-> {}, froze |-> FALSE]
Idle == [act |-> "none", at |-> "idle", todo |-> {}, plan |-> NoBundle]

TypeOK ==
  /\ kiro \in BOOLEAN /\ waiting \in BOOLEAN /\ frozen \in BOOLEAN
  /\ reader \in {"off", "none", "own", "gateway"}
  /\ signedIn \in BOOLEAN /\ stripped \in BOOLEAN /\ parted \in BOOLEAN
  /\ ext \in Bundles /\ backup \in 0 .. Torn
  /\ state \in [orig: 0 .. MaxVersion, now: Bundles, prev: Bundles]
  /\ DOMAIN files \subseteq Files /\ Default \in DOMAIN files
  /\ files \in [DOMAIN files -> [to: {"home", "gateway", "copied"},
                                 text: {"fine", "typo", "broken"}]]
  /\ token \in {"none", "own", "gateway"}
  /\ {session, held} \subseteq [on: BOOLEAN, prev: {"none", "own", "gateway"},
                               authenticated: BOOLEAN]
  /\ snapshot \in [on: BOOLEAN, recs: SUBSET Files, froze: BOOLEAN]
  /\ op.act \in {"none", "activate", "launch", "undo", "restore", "unbind"}
  /\ op.todo \subseteq Files /\ op.plan \in Bundles
  /\ rules \in 1 .. MaxRules /\ events \in 0 .. MaxEvents

-----------------------------------------------------------------------------
(* What the client reads from the files.                                   *)

Patched == ext.p > 0
Redirected == {f \in DOMAIN files : files[f].to # "home"}
Broken(fs) == \E f \in fs \cap DOMAIN files : files[f].text = "broken"

\* The material proves itself: the live file is the original, or the backup
\* is the original and the live file is what the patch wrote.
MaterialFits ==
  /\ state # NoState
  /\ \/ ext = Official(state.orig)
     \/ backup = state.orig /\ ext \in {state.now, state.prev}
NoMaterial == state = NoState /\ backup = NoBackup /\ ~Patched
restore_material_is_lost == Patched /\ ~MaterialFits
verify_patched_content ==
  state # NoState /\ ext \in {state.now, state.prev} /\ MaterialFits

\* Other platforms show no sign of a waiting update.
update_waiting == SeesUpdates /\ waiting

Records == session.on \/ snapshot.on
Leftovers == Patched \/ Redirected # {} \/ token = "gateway"
recovery_pending == Records \/ Leftovers

\* A repeat starts from the recorded takeover, a first one from an official
\* bundle with no backup beside it.
check_records ==
  IF snapshot.on
  THEN /\ files[Default].to # "home" /\ files[Default].text = "fine"
       /\ verify_patched_content
  ELSE ~Patched /\ backup = NoBackup
plan_settings == \A f \in DOMAIN files : files[f].text = "fine"
plan_takeover == check_records /\ plan_settings
confirm_plan == plan_takeover /\ ext = op.plan

-----------------------------------------------------------------------------
At(step) == op.at = step
Goto(step) == op' = [op EXCEPT !.at = step]
GotoWith(step, todo) == op' = [op EXCEPT !.at = step, !.todo = todo]
End == op' = Idle

\* One operation at a time, and none while a balance read holds the lock.
LockFreeOfOperations == op = Idle
LockFree == op = Idle /\ reader = "off"

\* The first of the files still to do: Default, then the profiles.
Todo(f) == f \in op.todo /\ (Default \in op.todo => f = Default)

\* A failed step of an activation puts back what it has done so far; of any
\* other operation, it ends the operation with an error.
Failed ==
  IF op.act # "activate" THEN End
  ELSE op' = [op EXCEPT !.act = "undo", !.todo = snapshot.recs,
                        !.at = CASE At("takeover") -> "putback"
                                 [] At("default") -> "forget"
                                 [] OTHER -> "revert"]

-----------------------------------------------------------------------------
(* Activation and relaunch.                                                *)

\* Everything is planned while Kiro is still open and nothing is written.
StartActivate ==
  /\ LockFree /\ ~recovery_pending /\ plan_takeover /\ ~update_waiting
  /\ op' = [act |-> "activate", at |-> "authenticate", todo |-> {},
            plan |-> ext]
  /\ parted' = FALSE
  /\ UNCHANGED <<kiro, waiting, disk, reader, held, rules, signedIn, stripped,
                 events>>

Authenticate ==
  /\ At("authenticate")
  /\ Goto("close") \/ End
  /\ UNCHANGED <<kiro, waiting, disk, reader, held, rules, history, events>>

\* Kiro closes, or stays open and ends the activation.
stop_kiro_for_takeover ==
  /\ At("close")
  /\ \/ kiro' = FALSE /\ Goto("record")
     \/ kiro /\ End /\ UNCHANGED kiro
  /\ UNCHANGED <<waiting, disk, reader, held, rules, history, events>>

\* The plan must still hold; the token found goes on record before the
\* gateway's replaces it.
RecordSession ==
  /\ At("record")
  /\ IF update_waiting \/ kiro \/ ~confirm_plan
     THEN End /\ UNCHANGED session
     ELSE /\ Goto("token")
          /\ session' = IF session.on THEN session
                        ELSE [on |-> TRUE, prev |-> token,
                              authenticated |-> FALSE]
  /\ UNCHANGED <<kiro, waiting, ext, state, backup, files, frozen, token,
                 snapshot, reader, held, rules, history, events>>

SaveToken ==
  /\ At("token") /\ Goto("flag")
  /\ token' = "gateway"
  /\ UNCHANGED <<kiro, waiting, ext, state, backup, files, frozen, session,
                 snapshot, reader, held, rules, history, events>>

SaveAuthenticated ==
  /\ At("flag") /\ Goto("takeover")
  /\ session' = [session EXCEPT !.authenticated = TRUE]
  /\ UNCHANGED <<kiro, waiting, ext, state, backup, files, frozen, token,
                 snapshot, reader, held, rules, history, events>>

StartLaunch ==
  /\ LockFree /\ ~kiro /\ session.authenticated /\ token # "none"
  /\ snapshot.on /\ plan_takeover
  /\ op' = [act |-> "launch", at |-> "takeover", todo |-> {}, plan |-> ext]
  /\ UNCHANGED <<kiro, waiting, disk, reader, held, rules, history, events>>

\* The rollback record, with every file not on it yet, is durable before any
\* of them changes.
CaptureSnapshot ==
  /\ At("takeover")
  /\ IF kiro \/ ~confirm_plan
     THEN Failed /\ UNCHANGED snapshot
     ELSE /\ snapshot' = [on |-> TRUE,
                          recs |-> snapshot.recs \cup DOMAIN files,
                          froze |-> IF snapshot.on THEN snapshot.froze
                                    ELSE frozen]
          /\ GotoWith("default", DOMAIN files \ {Default})
  /\ UNCHANGED <<kiro, waiting, ext, state, backup, files, frozen, token,
                 session, reader, held, rules, history, events>>

merge_byok ==
  /\ At("default") /\ Goto("profiles")
  /\ files' = [files EXCEPT ![Default].to = "gateway"]
  /\ frozen' = TRUE
  /\ UNCHANGED <<kiro, waiting, ext, state, backup, token, session, snapshot,
                 reader, held, rules, history, events>>

MergeProfile ==
  /\ At("profiles")
  /\ \/ op.todo = {} /\ Goto("apply") /\ UNCHANGED files
     \/ \E f \in op.todo :
          /\ GotoWith("profiles", op.todo \ {f})
          /\ files' = [files EXCEPT ![f].to = "gateway"]
  /\ UNCHANGED <<kiro, waiting, ext, state, backup, frozen, token, session,
                 snapshot, reader, held, rules, history, events>>

\* What a patched bundle should become under the client's rules.
updated_patch == IF backup = state.orig THEN [v |-> state.orig, p |-> rules]
                 ELSE ext

\* The patch's state is written first: with the bundle it repairs, which it
\* still recognises, or with the official one about to be backed up.
RepairForgetsPrevious == [state EXCEPT !.now = updated_patch]
RepairState == [state EXCEPT !.now = updated_patch, !.prev = ext]
FreshState == [orig |-> ext.v, now |-> [v |-> ext.v, p |-> rules],
               prev |-> NoBundle]

Apply ==
  /\ At("apply")
  /\ IF kiro \/ (Patched /\ ~verify_patched_content)
             \/ (~Patched /\ backup # NoBackup)
     THEN Failed /\ UNCHANGED <<state, stripped>>
     ELSE IF ~Patched
     THEN /\ state' = FreshState
          /\ stripped' = FALSE
          /\ op' = [op EXCEPT !.at = "backup", !.plan = ext]
     ELSE /\ UNCHANGED stripped
          /\ IF updated_patch = ext
             THEN Goto("open") /\ UNCHANGED state
             ELSE Goto("write") /\ state' = RepairState
  /\ UNCHANGED <<kiro, waiting, ext, backup, files, frozen, token, session,
                 snapshot, reader, held, rules, signedIn, parted,
                 events>>

\* The backup is created, then filled and synced, before the bundle changes.
WriteBackup ==
  /\ At("backup") \/ At("fill")
  /\ IF At("backup") THEN backup' = Torn /\ Goto("fill")
                     ELSE backup' = op.plan.v /\ Goto("write")
  /\ UNCHANGED <<kiro, waiting, ext, state, files, frozen, token, session,
                 snapshot, reader, held, rules, history, events>>

WritePatched ==
  /\ At("write") /\ Goto("open")
  /\ ext' = state.now
  /\ UNCHANGED <<kiro, waiting, state, backup, files, frozen, token, session,
                 snapshot, reader, held, rules, history, events>>

\* The takeover is complete; Kiro is started, or fails to start.
OpenKiro ==
  /\ At("open") /\ End
  /\ kiro' \in {TRUE, kiro}
  /\ UNCHANGED <<waiting, disk, reader, held, rules, history, events>>

\* A write of the takeover fails (a full disk, a locked file).
WriteFails ==
  /\ op.act = "activate" /\ events < MaxEvents
  /\ op.at \in {"takeover", "default", "profiles", "apply", "backup", "fill",
                "write"}
  /\ Failed /\ events' = events + 1
  /\ UNCHANGED <<kiro, waiting, disk, reader, held, rules, history>>

-----------------------------------------------------------------------------
(* Restore, unbind, and the rollback of a failed activation.               *)

\* Kiro is closed first, by force once its user has confirmed that.
StartRestore ==
  /\ LockFree /\ recovery_pending
  /\ kiro' = FALSE
  /\ op' = [Idle EXCEPT !.act = "restore",
                        !.at = IF Records THEN "plan" ELSE "leftovers"]
  /\ UNCHANGED <<waiting, disk, reader, held, rules, history, events>>

StartUnbind ==
  /\ LockFree /\ Records
  /\ kiro' = FALSE
  /\ op' = [Idle EXCEPT !.act = "unbind", !.at = "unbinding"]
  /\ held' = session
  /\ UNCHANGED <<waiting, disk, reader, rules, history, events>>

\* The session loaded before the network is saved after it, as signed out,
\* even where its record is gone by then.
SaveHeld ==
  session' = IF held.on THEN [held EXCEPT !.authenticated = FALSE] ELSE session

Unbind ==
  /\ At("unbinding") /\ held' = NoSession
  /\ \/ End /\ UNCHANGED session
     \/ Goto("plan") /\ SaveHeld
  /\ UNCHANGED <<kiro, waiting, ext, state, backup, files, frozen, token,
                 snapshot, reader, rules, history, events>>

\* Settings that cannot be rolled back fail a restore before it writes.
PlanRestore ==
  /\ At("plan")
  /\ IF snapshot.on
     THEN IF kiro \/ Broken(snapshot.recs) THEN End ELSE Goto("unpatch")
     ELSE IF kiro /\ op.act = "restore" THEN End ELSE Goto("putback")
  /\ UNCHANGED <<kiro, waiting, disk, reader, held, rules, history, events>>

\* The patch goes first. Material that no longer fits is dropped when the
\* bundle is provably official; under a live patch only a reinstall helps.
MayUnpatchLive == ~kiro
MayUnpatchFitting == ~kiro /\ (MaterialFits \/ NoMaterial)
MayUnpatch == ~kiro /\ ~restore_material_is_lost
Unpatch ==
  /\ At("unpatch")
  /\ IF ~MayUnpatch THEN End /\ UNCHANGED ext
     ELSE IF NoMaterial THEN GotoWith("revert", snapshot.recs) /\ UNCHANGED ext
     ELSE /\ Goto("drop backup")
          /\ ext' = IF MaterialFits THEN Official(state.orig) ELSE ext
  /\ UNCHANGED <<kiro, waiting, state, backup, files, frozen, token, session,
                 snapshot, reader, held, rules, history, events>>

\* The backup is removed before the state, which vouches for the original.
DropMaterial ==
  /\ At("drop backup") \/ At("drop state")
  /\ IF At("drop backup")
     THEN backup' = NoBackup /\ Goto("drop state") /\ UNCHANGED state
     ELSE /\ state' = NoState /\ UNCHANGED backup
          /\ IF snapshot.on THEN GotoWith("revert", snapshot.recs)
                            ELSE GotoWith("sweep", Redirected)
  /\ UNCHANGED <<kiro, waiting, ext, files, frozen, token, session, snapshot,
                 reader, held, rules, history, events>>

\* The redirection always returns to what it was; the freeze only while it
\* is still there. A profile removed since is passed over.
Revert ==
  /\ At("revert")
  /\ \/ op.todo = {} /\ Goto("forget") /\ UNCHANGED <<files, frozen>>
     \/ \E f \in op.todo :
          /\ Todo(f)
          /\ IF Broken({f}) THEN End /\ UNCHANGED <<files, frozen>>
             ELSE /\ GotoWith("revert", op.todo \ {f})
                  /\ files' = [g \in DOMAIN files |->
                                 IF g = f THEN [files[g] EXCEPT !.to = "home"]
                                 ELSE files[g]]
                  /\ frozen' = IF f = Default THEN frozen /\ snapshot.froze
                               ELSE frozen
  /\ UNCHANGED <<kiro, waiting, ext, state, backup, token, session, snapshot,
                 reader, held, rules, history, events>>

\* A failed activation keeps its record while a backup is left.
ForgetSnapshot ==
  /\ At("forget")
  /\ IF op.act = "undo" /\ backup # NoBackup
     THEN End /\ UNCHANGED snapshot
     ELSE Goto("putback") /\ snapshot' = NoSnapshot
  /\ UNCHANGED <<kiro, waiting, ext, state, backup, files, frozen, token,
                 session, reader, held, rules, history, events>>

AfterRecords == IF op.act = "restore" THEN Goto("leftovers") ELSE End

\* The token that was there goes back last, and then its record goes.
RestoreToken ==
  /\ At("putback")
  /\ IF op.act = "undo" /\ snapshot.on THEN End /\ UNCHANGED token
     ELSE IF ~session.on THEN AfterRecords /\ UNCHANGED token
     ELSE Goto("end session") /\ token' = session.prev
  /\ UNCHANGED <<kiro, waiting, ext, state, backup, files, frozen, session,
                 snapshot, reader, held, rules, history, events>>

RemoveSession ==
  /\ At("end session") /\ AfterRecords
  /\ session' = NoSession
  /\ UNCHANGED <<kiro, waiting, ext, state, backup, files, frozen, token,
                 snapshot, reader, held, rules, history, events>>

\* What the records did not cover, or all of it when they are lost. While a
\* patch that cannot be rolled back is live, settings and token stay.
ScanLeftovers ==
  /\ At("leftovers")
  /\ IF ~Leftovers \/ kiro \/ Broken(Redirected) \/ restore_material_is_lost
     THEN End /\ UNCHANGED ext
     ELSE IF Patched
     THEN ext' = Official(state.orig) /\ Goto("drop backup")
     ELSE GotoWith("sweep", Redirected) /\ UNCHANGED ext
  /\ UNCHANGED <<kiro, waiting, state, backup, files, frozen, token, session,
                 snapshot, reader, held, rules, history, events>>

Sweep ==
  /\ At("sweep")
  /\ \/ /\ op.todo = {} /\ End
        /\ token' = IF token = "gateway" THEN "none" ELSE token
        /\ UNCHANGED <<files, frozen>>
     \/ \E f \in op.todo :
          /\ Todo(f) /\ GotoWith("sweep", op.todo \ {f})
          /\ files' = [files EXCEPT ![f].to = "home"]
          /\ frozen' = (frozen /\ f # Default)
          /\ UNCHANGED token
  /\ UNCHANGED <<kiro, waiting, ext, state, backup, session, snapshot, reader,
                 held, rules, history, events>>

-----------------------------------------------------------------------------
(* The balance read: it holds the session lock across the network, and may *)
(* save a refreshed token or find the authorization rejected.              *)

StartUsage ==
  /\ LockFree /\ session.authenticated
  /\ reader' = token /\ held' = session
  /\ UNCHANGED <<kiro, waiting, disk, op, rules, history, events>>

refresh == reader = "gateway" /\ token' = "gateway"

FinishUsage ==
  /\ reader # "off" /\ reader' = "off" /\ held' = NoSession
  /\ \/ UNCHANGED <<token, session>>
     \/ refresh /\ UNCHANGED session
     \/ SaveHeld /\ UNCHANGED token
  /\ UNCHANGED <<kiro, waiting, ext, state, backup, files, frozen, snapshot,
                 op, rules, history, events>>

-----------------------------------------------------------------------------
(* What is not the client's doing.                                         *)

People == op.at \in {"idle", "authenticate", "unbinding"}
Disturb == events < MaxEvents /\ events' = events + 1

Crash ==
  /\ op # Idle \/ reader # "off"
  /\ Disturb
  /\ End /\ reader' = "off" /\ held' = NoSession
  /\ UNCHANGED <<kiro, waiting, disk, rules, history>>

\* The next client may bring other patch rules.
UpdateClient ==
  /\ LockFree /\ rules < MaxRules /\ rules' = rules + 1
  /\ UNCHANGED <<kiro, waiting, disk, op, reader, held, history, events>>

StartKiro ==
  /\ ~kiro /\ Disturb /\ kiro' = TRUE
  /\ UNCHANGED <<waiting, disk, op, reader, held, rules, history>>

CloseKiro ==
  /\ kiro /\ kiro' = FALSE
  /\ UNCHANGED <<waiting, disk, op, reader, held, rules, history, events>>

DownloadUpdate ==
  /\ kiro /\ ~frozen /\ ~waiting /\ ext.v < MaxVersion /\ Disturb
  /\ waiting' = TRUE
  /\ UNCHANGED <<kiro, disk, op, reader, held, rules, history>>

\* An installation replaces the bundle and may or may not clear what the
\* client keeps beside it.
Installs(v) ==
  /\ ext' = Official(v)
  /\ \/ UNCHANGED <<state, backup>>
     \/ state' = NoState /\ backup' = NoBackup

LandUpdate ==
  /\ ~kiro /\ waiting /\ waiting' = FALSE
  /\ op.at \notin {"backup", "fill", "write"}
  /\ Installs(ext.v + 1)
  /\ UNCHANGED <<kiro, files, frozen, token, session, snapshot, op, reader,
                 held, rules, history, events>>

\* Told that only a reinstall helps, the customer reinstalls Kiro.
Reinstall ==
  /\ op = Idle /\ ~kiro /\ restore_material_is_lost
  /\ Installs(ext.v)
  /\ UNCHANGED <<kiro, waiting, files, frozen, token, session, snapshot, op,
                 reader, held, rules, history, events>>

\* The customer's own sign-in is in Kiro's file, and no takeover is recorded or
\* in the hands of a read or an unbind.
Stands(to) == to = "own" /\ ~held.on

\* A sign-in goes through the portal the settings name, so one with the
\* customer's own account needs settings that do not redirect.
SignInOrOut(to) ==
  /\ kiro /\ People /\ Disturb /\ token' = to /\ token # to
  /\ to = "own" => files[Default].to = "home"
  /\ signedIn' = IF session.on THEN signedIn ELSE Stands(to)
  /\ UNCHANGED <<kiro, waiting, ext, state, backup, files, frozen, session,
                 snapshot, op, reader, held, rules, stripped, parted>>

\* A profile made in Kiro starts as a copy of Default.
AddProfile(f) ==
  /\ kiro /\ People /\ Disturb /\ f \notin DOMAIN files
  /\ files' = [g \in DOMAIN files \cup {f} |->
                 IF g # f THEN files[g]
                 ELSE [to |-> IF files[Default].to = "home" THEN "home"
                              ELSE "copied",
                       text |-> files[Default].text]]
  /\ UNCHANGED <<kiro, waiting, ext, state, backup, frozen, token, session,
                 snapshot, op, reader, held, rules, history>>

RemoveProfile(f) ==
  /\ kiro /\ People /\ Disturb /\ f \in DOMAIN files \ {Default}
  /\ files' = [g \in DOMAIN files \ {f} |-> files[g]]
  /\ UNCHANGED <<kiro, waiting, ext, state, backup, frozen, token, session,
                 snapshot, op, reader, held, rules, history>>

\* A typo Kiro reads past, or one it stops at; and its repair.
EditFile(f, text) ==
  /\ People /\ f \in DOMAIN files /\ files[f].text # text
  /\ IF text = "fine" THEN UNCHANGED events ELSE Disturb
  /\ files' = [files EXCEPT ![f].text = text]
  /\ UNCHANGED <<kiro, waiting, ext, state, backup, frozen, token, session,
                 snapshot, op, reader, held, rules, history>>

Unfreeze ==
  /\ kiro /\ People /\ frozen /\ Disturb /\ frozen' = FALSE
  /\ UNCHANGED <<kiro, waiting, ext, state, backup, files, token, session,
                 snapshot, op, reader, held, rules, history>>

\* A cleaner deletes records; a sign-in kept only there is gone.
Lose(records) ==
  /\ People /\ Disturb
  /\ snapshot' = IF "snapshot" \in records THEN NoSnapshot ELSE snapshot
  /\ session' = IF "session" \in records THEN NoSession ELSE session
  /\ state' = IF "state" \in records THEN NoState ELSE state
  /\ backup' = IF "backup" \in records THEN NoBackup ELSE backup
  /\ signedIn' = IF session' = session THEN signedIn ELSE Stands(token)
  /\ stripped' = (stripped \/ <<state, backup>>' # <<state, backup>>)
  /\ parted' = (parted \/ (snapshot' # snapshot /\ (session'.on \/ held.on)))
  /\ UNCHANGED <<kiro, waiting, ext, files, frozen, token, op, reader, held,
                 rules>>

-----------------------------------------------------------------------------
Init ==
  /\ kiro = FALSE /\ waiting = FALSE /\ ext = Official(1)
  /\ state = NoState /\ backup = NoBackup
  /\ \E fs \in SUBSET Profiles :
       files = [f \in {Default} \cup fs |-> [to |-> "home", text |-> "fine"]]
  /\ frozen = FALSE /\ token \in {"none", "own"}
  /\ session = NoSession /\ snapshot = NoSnapshot
  /\ op = Idle /\ reader = "off" /\ held = NoSession /\ rules = 1
  /\ signedIn = (token = "own") /\ stripped = FALSE /\ parted = FALSE
  /\ events = 0

\* The steps of an operation under way.
Step ==
  \/ Authenticate \/ stop_kiro_for_takeover \/ RecordSession \/ SaveToken
  \/ SaveAuthenticated \/ CaptureSnapshot \/ merge_byok \/ MergeProfile
  \/ Apply \/ WriteBackup \/ WritePatched \/ OpenKiro
  \/ Unbind \/ PlanRestore \/ Unpatch \/ DropMaterial \/ Revert
  \/ ForgetSnapshot \/ RestoreToken \/ RemoveSession \/ ScanLeftovers
  \/ Sweep

Environment ==
  \/ Crash \/ UpdateClient \/ StartKiro \/ CloseKiro \/ DownloadUpdate
  \/ LandUpdate \/ Reinstall \/ Unfreeze
  \/ \E to \in {"none", "own"} : SignInOrOut(to)
  \/ \E f \in Profiles : AddProfile(f) \/ RemoveProfile(f)
  \/ \E f \in Files, text \in {"fine", "typo", "broken"} : EditFile(f, text)
  \/ \E records \in Losable : Lose(records)

Next ==
  \/ StartActivate \/ StartLaunch \/ StartRestore \/ StartUnbind
  \/ StartUsage \/ FinishUsage \/ Step \/ WriteFails \/ Environment

Spec == Init /\ [][Next]_vars

\* An operation goes on, a balance read ends. The customer repeats a restore
\* while one is pending, and does what it tells them to: repairs settings
\* that cannot be rolled back, closes Kiro, reinstalls it.
Fairness ==
  /\ WF_vars(Step) /\ WF_vars(FinishUsage) /\ WF_vars(CloseKiro)
  /\ SF_vars(StartRestore) /\ SF_vars(Reinstall)
  /\ SF_vars(\E f \in Files : EditFile(f, "fine"))

FairSpec == Spec /\ Fairness

-----------------------------------------------------------------------------
(* Properties.                                                             *)

\* The customer's own token sits in Kiro's file while a live patch, or a file
\* the client redirected, sends Kiro's traffic to the gateway.
Exposed ==
  token = "own" /\ (Patched \/ \E f \in DOMAIN files : files[f].to = "gateway")

\* No step of the client exposes the customer's own token: it changes first
\* in a takeover and last in a restore, failed ones included (snapshot.rs:
\* under a live patch "the customer's own token would go to the gateway"). But
\* for a takeover whose snapshot was lost while its session stayed on disk, or
\* in the hands of an unbind or a read that may save it again.
OwnTokenStaysHome == [][Step /\ Exposed' => Exposed \/ parted]_vars

\* The customer's own sign-in is in Kiro's file or on the session's record,
\* whatever dies, fails or answers late (desktop.rs lock and restore_token).
SignInKept ==
  signedIn => token = "own" \/ (session.on /\ session.prev = "own")

\* A live patch nobody stripped of its material can be rolled back, whenever
\* the client died (patch.rs apply_checked, restore_material).
PatchIsUndoable == Patched /\ ~stripped => MaterialFits

\* Whatever a takeover left on the machine is eventually undone by restores
\* (backend.rs recovery_pending, leftovers.rs remove).
RecoveryCompletes == recovery_pending ~> ~recovery_pending
=============================================================================
