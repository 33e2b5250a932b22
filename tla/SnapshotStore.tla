---------------------------- MODULE SnapshotStore ----------------------------
(***************************************************************************)
(* How the billing engine saves its state (persist_snapshot_to_file) and   *)
(* finds it again (load_from_file): a generation file, then the anchor     *)
(* that names it and commits it, then a mirror under the configured path,  *)
(* then the pruning of old generations.  Each file is replaced atomically  *)
(* (a temporary file renamed); each write may fail, and the process may    *)
(* die between any two.  The persistence lock allows one save at a time.   *)
(*                                                                         *)
(* A file's content is the snapshot's sequence number and its state, here  *)
(* the number of the save that made it; its checksum is the content, so    *)
(* the anchor, which holds sequence and checksum, is the content too.      *)
(***************************************************************************)
EXTENDS Integers, Functions

CONSTANTS
  MaxSaves,       \* bound: the saves attempted
  LegacySequence  \* the sequence of a state file older than anchors, if any

ASSUME BoundsAssumption == MaxSaves \in Nat /\ LegacySequence \in Nat

Snapshots == [seq : Nat, state : Nat]
NoFile == [seq |-> -1, state |-> -1]

VARIABLES
  generations,  \* the generation files, by sequence
  anchor,       \* <state>.anchor
  mirror,       \* the state file itself
  up,           \* the process is running
  step,         \* where the save under way is
  candidate,    \* what it saves
  sequence,     \* snapshot_sequence
  memory,       \* the state in memory
  saves         \* saves begun so far

vars == <<generations, anchor, mirror, up, step, candidate, sequence, memory, saves>>
files == <<generations, anchor, mirror>>
process == <<up, step, candidate, sequence, memory, saves>>

Steps == {"idle", "generation", "anchor", "mirror", "prune", "publish"}

TypeOK ==
  /\ generations \in [DOMAIN generations -> Snapshots]
  /\ DOMAIN generations \subseteq Nat
  /\ anchor \in Snapshots \cup {NoFile}
  /\ mirror \in Snapshots \cup {NoFile}
  /\ up \in BOOLEAN
  /\ step \in Steps
  /\ candidate \in Snapshots \cup {NoFile}
  /\ sequence \in Nat
  /\ memory \in Nat \cup {NoFile.state}
  /\ saves \in Nat

-----------------------------------------------------------------------------
\* Saving.

Begin ==
  /\ up /\ step = "idle" /\ saves < MaxSaves
  /\ saves' = saves + 1
  /\ candidate' = [seq |-> sequence + 1, state |-> saves + 1]
  /\ step' = "generation"
  /\ UNCHANGED <<files, up, sequence, memory>>

\* An error before the commit point ends the save; the next one uses the same
\* sequence again and overwrites what this one left.
Fail ==
  /\ up /\ step \in {"generation", "anchor"}
  /\ step' = "idle" /\ candidate' = NoFile
  /\ UNCHANGED <<files, up, sequence, memory, saves>>

WriteGeneration ==
  /\ up /\ step = "generation"
  /\ generations' = [s \in DOMAIN generations \cup {candidate.seq} |->
                       IF s = candidate.seq THEN candidate ELSE generations[s]]
  /\ step' = "anchor"
  /\ UNCHANGED <<anchor, mirror, up, candidate, sequence, memory, saves>>

\* The commit point.
WriteAnchor ==
  /\ up /\ step = "anchor"
  /\ anchor' = candidate
  /\ step' = "mirror"
  /\ UNCHANGED <<generations, mirror, up, candidate, sequence, memory, saves>>

\* A mirror that cannot be written is reported, and the save goes on.
WriteMirror ==
  /\ up /\ step = "mirror"
  /\ mirror' \in {mirror, candidate}
  /\ step' = "prune"
  /\ UNCHANGED <<generations, anchor, up, candidate, sequence, memory, saves>>

\* Mutant: the generation just committed is pruned too.
PruneEveryGeneration ==
  /\ up /\ step = "prune"
  /\ generations' = Restrict(generations, {})
  /\ step' = "publish"
  /\ UNCHANGED <<anchor, mirror, up, candidate, sequence, memory, saves>>

\* Any removal may fail, and its error is ignored.
PruneOldGenerations ==
  /\ up /\ step = "prune"
  /\ \E removed \in SUBSET {s \in DOMAIN generations : s < candidate.seq - 1} :
       generations' = Restrict(generations, DOMAIN generations \ removed)
  /\ step' = "publish"
  /\ UNCHANGED <<anchor, mirror, up, candidate, sequence, memory, saves>>

\* Mutant: the next save reuses the sequence committed.
PublishStateOnly ==
  /\ up /\ step = "publish"
  /\ memory' = candidate.state
  /\ step' = "idle" /\ candidate' = NoFile
  /\ UNCHANGED <<files, up, sequence, saves>>

Publish ==
  /\ up /\ step = "publish"
  /\ sequence' = candidate.seq
  /\ memory' = candidate.state
  /\ step' = "idle" /\ candidate' = NoFile
  /\ UNCHANGED <<files, up, saves>>

-----------------------------------------------------------------------------
\* Stopping and starting.

Crash ==
  /\ up /\ up' = FALSE
  /\ step' = "idle" /\ candidate' = NoFile
  /\ sequence' = 0 /\ memory' = NoFile.state
  /\ UNCHANGED <<files, saves>>

\* Where the anchored content is found.
InMirror == mirror = anchor
InGeneration == anchor.seq \in DOMAIN generations /\ generations[anchor.seq] = anchor

Start(content) ==
  /\ up' = TRUE
  /\ sequence' = content.seq /\ memory' = content.state
  /\ UNCHANGED <<generations, anchor, step, candidate, saves>>

\* Mutant: a new installation takes the sequence of the file it has not got.
StartFromNoFile ==
  /\ ~up /\ anchor = NoFile /\ mirror = NoFile
  /\ mirror' = mirror /\ Start(mirror)

\* Neither state file nor anchor: a new installation.
StartEmpty ==
  /\ ~up /\ anchor = NoFile /\ mirror = NoFile
  /\ mirror' = mirror /\ Start([seq |-> 0, state |-> 0])

\* A state file of a release without anchors.
LoadLegacy ==
  /\ ~up /\ anchor = NoFile /\ mirror # NoFile
  /\ mirror' = mirror /\ Start(mirror)

\* Mutant: the state file is loaded without being compared to the anchor.
LoadAnyMirror ==
  /\ ~up /\ anchor # NoFile /\ mirror # NoFile
  /\ mirror' = mirror /\ Start(mirror)

LoadMirror ==
  /\ ~up /\ anchor # NoFile /\ InMirror
  /\ mirror' = mirror /\ Start(mirror)

\* The generation replaces a mirror a crash or an error left behind; that
\* write may fail too.
LoadGeneration ==
  /\ ~up /\ anchor # NoFile /\ ~InMirror /\ InGeneration
  /\ mirror' \in {mirror, generations[anchor.seq]}
  /\ Start(generations[anchor.seq])

Load == StartEmpty \/ LoadLegacy \/ LoadMirror \/ LoadGeneration

-----------------------------------------------------------------------------

Init ==
  /\ generations = [s \in {} |-> NoFile] /\ anchor = NoFile
  /\ mirror \in {NoFile, [seq |-> LegacySequence, state |-> 0]}
  /\ up = FALSE /\ step = "idle" /\ candidate = NoFile
  /\ sequence = 0 /\ memory = NoFile.state
  /\ saves = 0

Next ==
  \/ Begin \/ Fail
  \/ WriteGeneration \/ WriteAnchor \/ WriteMirror
  \/ PruneOldGenerations \/ Publish
  \/ Crash \/ Load

Spec == Init /\ [][Next]_vars

-----------------------------------------------------------------------------

\* The loader always finds the committed state, or a new installation,
\* whatever write failed or was never reached.
Recoverable == anchor # NoFile => InMirror \/ InGeneration

\* The committed sequence only moves forward, one save at a time, and a
\* committed sequence never changes its content.
NoRollback ==
  [][anchor' # anchor /\ anchor # NoFile => anchor'.seq = anchor.seq + 1]_vars

\* The files implement the register the engine relies on: what the anchor
\* names is durable, and the other files never show.
Durable == IF anchor # NoFile THEN anchor.state ELSE 0

Register == INSTANCE CommitRegister WITH
  Values <- Nat, NoValue <- NoFile.state,
  durable <- Durable, memory <- memory, candidate <- candidate.state, up <- up

ImplementsRegister == Register!Spec
=============================================================================
