----------------------------- MODULE BooksProofs -----------------------------
(***************************************************************************)
(* What the saved state guarantees: its files (SnapshotStore), for any     *)
(* number of saves and any legacy sequence, the fixed answers it charges   *)
(* for (Templates), for any attempts, invocations, prices, limits and      *)
(* restarts, and the balances of cards (Cards), for any cards, codes,      *)
(* orders, requests, adjustments and prices.                               *)
(*                                                                         *)
(* SnapshotStore always finds what was committed, and implements           *)
(* CommitRegister: memory and the newest file are what was committed, up   *)
(* to the one save that is under way (SaveInv, MemoryInv).                 *)
(*                                                                         *)
(* Templates.  An invocation is answered with a template once because the  *)
(* index has every template's charge, wherever the entry is kept           *)
(* (Indexed), and whoever charges or holds asks the index.  That a model   *)
(* does not answer it as well takes the other direction: who is being      *)
(* served holds its invocation alone, and the index does not have it       *)
(* (HeldApart).                                                            *)
(*                                                                         *)
(* Cards.  The books stand (CardsInv): every card is what all its entries, *)
(* archived or live, give and take (Reconciled), a key has one entry and   *)
(* that one is an adjustment (KeyedOnce), the cards have left what was     *)
(* issued, topped up and given less what was charged (LeftStands), and the *)
(* summary is what including every archived entry makes it, so that a      *)
(* start which makes it anew changes nothing.  The sums are folds, and one *)
(* more entry is one more step of each of them (SumProofs); what an        *)
(* operation books and what it does to its card are the same amount.       *)
(*                                                                         *)
(* Requests are made up for once (CompensationInv) because the index in    *)
(* memory is that of all entries, archived or live, which is the one a     *)
(* start builds from the live ones and the summary (StartIndex): it counts *)
(* commutatively, and a key is used once.  An entry that may come is in    *)
(* order with those there are (MayCome), and what a call was told before   *)
(* it waited for the lock stays so, since a charged request is not charged *)
(* again (LookedUp).                                                       *)
(***************************************************************************)
EXTENDS SnapshotStore, Templates, Cards, SumProofs

Before == {"generation", "anchor"}       \* before the commit point
After == {"mirror", "prune", "publish"}  \* after it

\* While a save is under way the candidate is the newest state there is, one
\* sequence ahead of the anchor until the anchor is it.
SaveInv ==
  /\ step = "idle" <=> candidate = NoFile
  /\ step # "idle" => up /\ candidate \in Snapshots /\ candidate.state = saves
  /\ step \in Before => /\ candidate.seq = sequence + 1
                        /\ Durable < saves
  /\ step \in {"anchor"} \cup After =>
       /\ candidate.seq \in DOMAIN generations
       /\ generations[candidate.seq] = candidate
  /\ step \in After => anchor = candidate
  /\ Durable <= saves
  /\ saves = 0 => anchor = NoFile

\* Between saves, and before the commit point, memory is what is durable.
MemoryInv ==
  /\ ~up => memory = NoFile.state /\ candidate = NoFile
  /\ up => memory \in Nat
  /\ up /\ step \notin After => memory = Durable
  /\ up /\ step \notin After /\ anchor # NoFile => sequence = anchor.seq

\* A state file without an anchor is the one the installation began with.
LegacyInv == anchor = NoFile /\ mirror # NoFile => mirror.state = 0

IInv == TypeOK /\ SaveInv /\ MemoryInv /\ LegacyInv /\ Recoverable

\* The invariant holds at first, with or without a legacy file.
LEMMA InitIInv == Init => IInv
<1> SUFFICES ASSUME Init PROVE IInv
  OBVIOUS
<1> USE DEF Init, NoFile, Snapshots
<1>1. TypeOK
  <2>1. DOMAIN generations = {} /\ generations \in [{} -> Snapshots]
    OBVIOUS
  <2>2. mirror \in Snapshots \cup {NoFile}
    BY BoundsAssumption
  <2> QED
    BY <2>1, <2>2 DEF TypeOK, Steps
<1>2. SaveInv
  BY DEF SaveInv, Before, After, Durable
<1>3. MemoryInv
  BY DEF MemoryInv, After, Durable
<1>4. LegacyInv /\ Recoverable
  BY BoundsAssumption DEF LegacyInv, Recoverable
<1> QED
  BY <1>1, <1>2, <1>3, <1>4 DEF IInv

\* Every step keeps the invariant: only the generation below the anchor is
\* ever removed, and only one above it ever overwritten.
LEMMA NextIInv == IInv /\ [Next]_vars => IInv'
<1> SUFFICES ASSUME IInv, [Next]_vars PROVE IInv'
  OBVIOUS
<1> USE DEF IInv, Before, After, Durable, NoFile, Snapshots, Steps
<1>1. CASE Begin
  BY <1>1 DEF Begin, files, TypeOK, SaveInv, MemoryInv, LegacyInv, Recoverable,
              InMirror, InGeneration
<1>2. CASE Fail
  BY <1>2 DEF Fail, files, TypeOK, SaveInv, MemoryInv, LegacyInv, Recoverable,
              InMirror, InGeneration
<1>3. CASE WriteGeneration
  BY <1>3 DEF WriteGeneration, TypeOK, SaveInv, MemoryInv, LegacyInv, Recoverable,
              InMirror, InGeneration
<1>4. CASE WriteAnchor
  BY <1>4 DEF WriteAnchor, TypeOK, SaveInv, MemoryInv, LegacyInv, Recoverable,
              InMirror, InGeneration
<1>5. CASE WriteMirror
  BY <1>5 DEF WriteMirror, TypeOK, SaveInv, MemoryInv, LegacyInv, Recoverable,
              InMirror, InGeneration
<1>6. CASE PruneOldGenerations
  BY <1>6 DEF PruneOldGenerations, Restrict, TypeOK, SaveInv, MemoryInv, LegacyInv,
              Recoverable, InMirror, InGeneration
<1>7. CASE Publish
  BY <1>7 DEF Publish, files, TypeOK, SaveInv, MemoryInv, LegacyInv, Recoverable,
              InMirror, InGeneration
<1>8. CASE Crash
  BY <1>8 DEF Crash, files, TypeOK, SaveInv, MemoryInv, LegacyInv, Recoverable,
              InMirror, InGeneration
<1>9. CASE Load
  <2> USE DEF Start, TypeOK, SaveInv, MemoryInv, LegacyInv, Recoverable,
              InMirror, InGeneration
  <2>1. CASE StartEmpty
    BY <2>1 DEF StartEmpty
  <2>2. CASE LoadLegacy
    BY <2>2 DEF LoadLegacy
  <2>3. CASE LoadMirror
    BY <2>3 DEF LoadMirror
  <2>4. CASE LoadGeneration
    BY <2>4 DEF LoadGeneration
  <2> QED
    BY <1>9, <2>1, <2>2, <2>3, <2>4 DEF Load
<1>10. CASE UNCHANGED vars
  BY <1>10 DEF vars, TypeOK, SaveInv, MemoryInv, LegacyInv, Recoverable,
               InMirror, InGeneration
<1> QED
  BY <1>1, <1>2, <1>3, <1>4, <1>5, <1>6, <1>7, <1>8, <1>9, <1>10 DEF Next

\* The state the loader needs is always there.
THEOREM SnapshotAlwaysRecoverable == Spec => []Recoverable
<1>1. Init => IInv
  BY InitIInv
<1>2. IInv /\ [Next]_vars => IInv'
  BY NextIInv
<1>3. IInv => Recoverable
  BY DEF IInv
<1> QED
  BY <1>1, <1>2, <1>3, PTL DEF Spec

\* Every variable keeps its type.
THEOREM SnapshotStoreTypes == Spec => []TypeOK
<1>1. Init => IInv
  BY InitIInv
<1>2. IInv /\ [Next]_vars => IInv'
  BY NextIInv
<1>3. IInv => TypeOK
  BY DEF IInv
<1> QED
  BY <1>1, <1>2, <1>3, PTL DEF Spec

\* A committed sequence is only ever followed by its successor.
THEOREM CommittedNeverRollsBack == Spec => NoRollback
<1> DEFINE Forward == anchor' # anchor /\ anchor # NoFile => anchor'.seq = anchor.seq + 1
<1>1. IInv /\ [Next]_vars => Forward
  BY DEF IInv, SaveInv, MemoryInv, Before, After, Next, vars, files, Begin, Fail,
         WriteGeneration, WriteAnchor, WriteMirror, PruneOldGenerations, Publish,
         Crash, Load, StartEmpty, LoadLegacy, LoadMirror, LoadGeneration, Start
<1>2. Init => IInv
  BY InitIInv
<1>3. IInv /\ [Next]_vars => IInv'
  BY NextIInv
<1>4. IInv /\ [Next]_vars => [Forward]_vars
  BY <1>1
<1> QED
  BY <1>2, <1>3, <1>4, PTL DEF Spec, NoRollback

-----------------------------------------------------------------------------
\* The refinement.

\* The initial states map to initial states of the register.
LEMMA InitRefines == Init => Register!Init
BY DEF Init, Register!Init, Durable, NoFile

\* Begin begins, the anchor installs, publishing acknowledges, an error gives
\* up, a load recovers; writing the other files changes nothing that shows.
LEMMA NextRefines ==
  IInv /\ IInv' /\ [Next]_vars
    => [Register!Next]_<<Durable, memory, candidate.state, up>>
<1> SUFFICES ASSUME IInv, IInv', [Next]_vars
             PROVE [Register!Next]_<<Durable, memory, candidate.state, up>>
  OBVIOUS
<1> USE DEF IInv, TypeOK, SaveInv, MemoryInv, Durable, Snapshots, NoFile, Before, After
<1>1. CASE Begin
  <2>1. Register!Begin
    BY <1>1 DEF Begin, files, Register!Begin
  <2> QED
    BY <2>1 DEF Register!Next
<1>2. CASE Fail
  <2>1. Register!GiveUp
    BY <1>2 DEF Fail, files, Register!GiveUp
  <2> QED
    BY <2>1 DEF Register!Next
<1>3. CASE WriteAnchor
  <2>1. Register!Install
    BY <1>3 DEF WriteAnchor, Register!Install
  <2> QED
    BY <2>1 DEF Register!Next
<1>4. CASE Publish
  <2>1. Register!Acknowledge
    BY <1>4 DEF Publish, files, Register!Acknowledge
  <2> QED
    BY <2>1 DEF Register!Next
<1>5. CASE Crash
  <2>1. Register!Crash
    BY <1>5 DEF Crash, files, Register!Crash
  <2> QED
    BY <2>1 DEF Register!Next
<1>6. CASE Load
  <2>1. Register!Recover
    BY <1>6 DEF Load, StartEmpty, LoadLegacy, LoadMirror, LoadGeneration, Start,
                InMirror, InGeneration, LegacyInv, Register!Recover
  <2> QED
    BY <2>1 DEF Register!Next
<1>7. CASE WriteGeneration \/ WriteMirror \/ PruneOldGenerations \/ UNCHANGED vars
  BY <1>7 DEF WriteGeneration, WriteMirror, PruneOldGenerations, vars
<1> QED
  BY <1>1, <1>2, <1>3, <1>4, <1>5, <1>6, <1>7 DEF Next

\* Saving through the files behaves as the atomic register.
THEOREM FilesImplementRegister == Spec => ImplementsRegister
<1>1. Init => IInv /\ Register!Init
  BY InitIInv, InitRefines
<1>2. IInv /\ [Next]_vars => IInv'
  BY NextIInv
<1>3. IInv /\ IInv' /\ [Next]_vars
        => [Register!Next]_<<Durable, memory, candidate.state, up>>
  BY NextRefines
<1> QED
  BY <1>1, <1>2, <1>3, PTL DEF Spec, ImplementsRegister, Register!Spec

-----------------------------------------------------------------------------
(* Templates.                                                              *)

Charges == {"template", "model"}

EntryType == [inv : Invocations \cup OldInvocations, kind : Charges, price : Nat]

ReceiptType == [inv : Invocations \cup OldInvocations, price : Nat, live : BOOLEAN]

BookType ==
  [offer : Nat, revision : Nat, receipts : SUBSET ReceiptType, ledger : Seq(EntryType),
   archives : Seq(EntryType), tombstones : SUBSET (Invocations \cup OldInvocations),
   complete : {TRUE}, used : Nat, active : BOOLEAN]

Places ==
  {"new", "respond", "matched", "waiting", "answering", "model", "serving", "over"}

Lanes == {"free", "busy", "done"}

TemplatesTypeOK ==
  /\ saved \in BookType
  /\ records \in [Invocations -> {"none", "held", "settled"}]
  /\ lanes \in [Invocations -> Lanes]
  /\ attempts \in [Attempts -> [pc : Places, price : Nat, revision : Nat]]

\* The index knows every template's charge, live and archived.
Indexed(s) ==
  \A j \in DOMAIN EntriesOf(s) :
    EntriesOf(s)[j].kind = "template" => EntriesOf(s)[j].inv \in s.tombstones

\* An invocation's template is its last charge, and its only live one.
ChargedLast(s) ==
  /\ \A j, k \in DOMAIN EntriesOf(s) :
       j < k /\ EntriesOf(s)[j].kind = "template" => EntriesOf(s)[k].inv # EntriesOf(s)[j].inv
  /\ \A j, k \in DOMAIN s.ledger :
       s.ledger[k].kind = "template" /\ s.ledger[j].inv = s.ledger[k].inv => j = k

\* Whatever is written, now or once, was charged.
ReceiptsPaid(s) ==
  /\ \A a, b \in s.receipts : a.inv = b.inv => a = b
  /\ \A w \in s.receipts \cup sent :
       Charged(w.inv, "template", w.price) \in Range(EntriesOf(s))

\* Whoever is served by a model holds its invocation alone, which no template answered.
HeldApart ==
  /\ Held \cap saved.tombstones = {}
  /\ \A r \in Attempts : At(r, "serving") =>
       /\ Inv(r) \in Held
       /\ \A q \in Attempts : At(q, "serving") /\ Inv(q) = Inv(r) => q = r

TemplatesInv ==
  /\ TemplatesTypeOK
  /\ Indexed(saved) /\ ChargedLast(saved) /\ ReceiptsPaid(saved)
  /\ HeldApart

\* The archives come first, then the ledger.
LEMMA EntriesFacts ==
  ASSUME NEW s \in BookType
  PROVE  /\ s.archives \in Seq(EntryType) /\ s.ledger \in Seq(EntryType)
         /\ Len(s.archives) \in Nat /\ Len(s.ledger) \in Nat
         /\ DOMAIN s.ledger = 1 .. Len(s.ledger)
         /\ EntriesOf(s) \in Seq(EntryType)
         /\ DOMAIN EntriesOf(s) = 1 .. Len(s.archives) + Len(s.ledger)
         /\ \A j \in 1 .. Len(s.archives) : EntriesOf(s)[j] = s.archives[j]
         /\ \A m \in 1 .. Len(s.ledger) : EntriesOf(s)[Len(s.archives) + m] = s.ledger[m]
<1> DEFINE a == s.archives
           l == s.ledger
<1>1. a \in Seq(EntryType) /\ l \in Seq(EntryType) /\ EntriesOf(s) = a \o l
  BY DEF BookType, EntriesOf
<1> HIDE DEF a, l
<1>2. /\ a \o l \in Seq(EntryType) /\ DOMAIN (a \o l) = 1 .. Len(a) + Len(l)
      /\ \A j \in 1 .. Len(a) : (a \o l)[j] = a[j]
      /\ \A m \in 1 .. Len(l) : (a \o l)[Len(a) + m] = l[m]
      /\ Len(a) \in Nat /\ Len(l) \in Nat /\ DOMAIN l = 1 .. Len(l)
  BY <1>1
<1> QED
  BY <1>1, <1>2 DEF a, l

\* A book with the same entries, and nothing less in the index, stands as well.
LEMMA SameEntries ==
  ASSUME NEW s, NEW t, EntriesOf(t) = EntriesOf(s),
         s.tombstones \subseteq t.tombstones, t.ledger = s.ledger \/ t.ledger = <<>>,
         Indexed(s), ChargedLast(s)
  PROVE  Indexed(t) /\ ChargedLast(t)
<1>1. Indexed(t)
  BY DEF Indexed
<1>2. ASSUME NEW j \in DOMAIN t.ledger, NEW k \in DOMAIN t.ledger,
             t.ledger[k].kind = "template", t.ledger[j].inv = t.ledger[k].inv
      PROVE  j = k
  <2>1. CASE t.ledger = s.ledger
    BY <1>2, <2>1 DEF ChargedLast
  <2>2. CASE t.ledger = <<>>
    BY <2>2
  <2> QED
    BY <2>1, <2>2
<1> QED
  BY <1>1, <1>2 DEF ChargedLast

\* So does one with another charge of what the index does not have.
LEMMA OneMoreEntry ==
  ASSUME NEW s \in BookType, NEW t \in BookType, NEW e \in EntryType,
         t.archives = s.archives, t.ledger = Append(s.ledger, e),
         s.tombstones \subseteq t.tombstones, e.inv \notin s.tombstones,
         e.kind = "template" => /\ e.inv \in t.tombstones
                                /\ \A m \in DOMAIN s.ledger : s.ledger[m].inv # e.inv,
         Indexed(s), ChargedLast(s)
  PROVE  /\ Indexed(t) /\ ChargedLast(t)
         /\ Range(EntriesOf(s)) \subseteq Range(EntriesOf(t)) /\ e \in Range(EntriesOf(t))
<1> DEFINE n == Len(s.archives) + Len(s.ledger)
           all == EntriesOf(s)
           now == EntriesOf(t)
           old == Len(s.archives)
           live == Len(s.ledger)
<1>1. /\ n \in Nat /\ Len(s.ledger) \in Nat /\ Len(s.archives) \in Nat
      /\ DOMAIN s.ledger = 1 .. Len(s.ledger)
  <2>1. old \in Nat /\ live \in Nat /\ DOMAIN s.ledger = 1 .. live /\ n = old + live
    BY EntriesFacts
  <2> HIDE DEF old, live, n
  <2>2. n \in Nat
    BY <2>1
  <2> QED
    BY <2>1, <2>2 DEF old, live
<1>2. /\ DOMAIN t.ledger = 1 .. Len(s.ledger) + 1 /\ Len(t.ledger) = Len(s.ledger) + 1
      /\ t.ledger[Len(s.ledger) + 1] = e
      /\ \A m \in 1 .. Len(s.ledger) : t.ledger[m] = s.ledger[m]
  <2> DEFINE l == s.ledger
  <2>1. l \in Seq(EntryType) /\ t.ledger = Append(l, e)
    BY EntriesFacts
  <2> HIDE DEF l
  <2> QED
    BY <2>1 DEF l
<1>3. DOMAIN all = 1 .. n /\ DOMAIN now = 1 .. n + 1
  <2>1. DOMAIN all = 1 .. n
    BY EntriesFacts
  <2>2. DOMAIN now = 1 .. old + (live + 1)
    BY <1>2, EntriesFacts
  <2>3. old \in Nat /\ live \in Nat /\ n = old + live
    BY <1>1
  <2> HIDE DEF old, live, n
  <2> QED
    BY <2>1, <2>2, <2>3
<1>4. now[n + 1] = e
  <2>1. Len(s.ledger) + 1 \in 1 .. Len(t.ledger)
    BY <1>1, <1>2
  <2>2. now[Len(t.archives) + (Len(s.ledger) + 1)] = t.ledger[Len(s.ledger) + 1]
    BY <2>1, EntriesFacts
  <2>3. Len(t.archives) + (Len(s.ledger) + 1) = n + 1
    <3>1. old \in Nat /\ live \in Nat
      BY <1>1
    <3> HIDE DEF old, live
    <3>2. old + (live + 1) = (old + live) + 1
      BY <3>1
    <3> QED
      BY <3>2 DEF old, live
  <2> QED
    BY <2>2, <2>3, <1>2
<1>5. \A j \in 1 .. n : now[j] = all[j]
  <2> TAKE j \in 1 .. n
  <2>1. CASE j \in 1 .. Len(s.archives)
    <3>1. all[j] = s.archives[j]
      BY <2>1, EntriesFacts
    <3>2. now[j] = t.archives[j]
      BY <2>1, EntriesFacts
    <3> QED
      BY <3>1, <3>2
  <2>2. CASE j \notin 1 .. Len(s.archives)
    <3> DEFINE m == j - Len(s.archives)
    <3>1. m \in 1 .. Len(s.ledger) /\ m \in 1 .. Len(t.ledger) /\ j = Len(s.archives) + m
      <4>1. old \in Nat /\ live \in Nat /\ j \in 1 .. old + live /\ j \notin 1 .. old
            /\ m = j - old /\ Len(t.ledger) = live + 1
        BY <1>1, <1>2, <2>2
      <4> HIDE DEF old, live, m
      <4>2. m \in 1 .. live /\ m \in 1 .. live + 1 /\ j = old + m
        BY <4>1
      <4> QED
        BY <4>1, <4>2 DEF old, live
    <3> HIDE DEF m
    <3>2. all[Len(s.archives) + m] = s.ledger[m] /\ now[Len(t.archives) + m] = t.ledger[m]
      BY <3>1, EntriesFacts
    <3> QED
      BY <3>1, <3>2, <1>2
  <2> QED
    BY <2>1, <2>2
<1>6. \A j \in 1 .. n : all[j].kind = "template" => all[j].inv \in s.tombstones
  BY <1>3 DEF Indexed
<1> HIDE DEF n, all, now
<1>7. \A j \in 1 .. n + 1 : j \in 1 .. n \/ j = n + 1
  BY <1>1
<1>8. \A j \in DOMAIN now : now[j].kind = "template" => now[j].inv \in t.tombstones
  BY <1>3, <1>4, <1>5, <1>6, <1>7
<1>9. \A j, k \in DOMAIN now : j < k /\ now[j].kind = "template" => now[k].inv # now[j].inv
  <2>1. \A j, k \in 1 .. n : j < k /\ all[j].kind = "template" => all[k].inv # all[j].inv
    BY <1>3 DEF ChargedLast, all
  <2>2. \A j, k \in 1 .. n + 1 : j < k => j \in 1 .. n
    BY <1>1
  <2> QED
    BY <1>3, <1>4, <1>5, <1>6, <1>7, <2>1, <2>2
<1>10. ASSUME NEW j \in DOMAIN t.ledger, NEW k \in DOMAIN t.ledger,
              t.ledger[k].kind = "template", t.ledger[j].inv = t.ledger[k].inv
       PROVE  j = k
  <2> DEFINE l == live
  <2>1. /\ j \in 1 .. l \/ j = l + 1
        /\ k \in 1 .. l \/ k = l + 1
    BY <1>1, <1>2
  <2>2. CASE j \in 1 .. l /\ k \in 1 .. l
    BY <1>1, <1>2, <1>10, <2>2 DEF ChargedLast
  <2>3. CASE j \in 1 .. l /\ k = l + 1
    BY <1>1, <1>2, <1>10, <2>3
  <2>4. CASE j = l + 1 /\ k \in 1 .. l
    <3>1. s.ledger[k].kind = "template" /\ s.ledger[k].inv = e.inv
      BY <1>2, <1>10, <2>4
    <3>2. Len(s.archives) + k \in 1 .. n
      <4>1. old \in Nat /\ live \in Nat /\ k \in 1 .. live
        BY <1>1, <2>4
      <4> HIDE DEF old, live
      <4>2. old + k \in 1 .. old + live
        BY <4>1
      <4> QED
        BY <4>2 DEF old, live, n
    <3>3. all[Len(s.archives) + k] = s.ledger[k]
      BY <2>4, EntriesFacts DEF all
    <3> QED
      BY <1>6, <3>1, <3>2, <3>3
  <2> QED
    BY <2>1, <2>2, <2>3, <2>4
<1>11. Range(all) \subseteq Range(now) /\ e \in Range(now)
  <2>1. \A x \in Range(all) : \E j \in 1 .. n : x = all[j]
    BY <1>3 DEF Range
  <2>2. \A j \in 1 .. n + 1 : now[j] \in Range(now)
    BY <1>3 DEF Range
  <2>3. n + 1 \in 1 .. n + 1 /\ \A j \in 1 .. n : j \in 1 .. n + 1
    BY <1>1
  <2> QED
    BY <1>4, <1>5, <2>1, <2>2, <2>3
<1> QED
  BY <1>8, <1>9, <1>10, <1>11 DEF Indexed, ChargedLast, all, now

-----------------------------------------------------------------------------
\* Steps.

\* What an attempt is, and what it may become.
LEMMA AttemptsTyped ==
  ASSUME TemplatesTypeOK, NEW r \in Attempts
  PROVE  /\ \A pc \in Places : Goes(r, pc) =>
              /\ attempts' \in [Attempts -> [pc : Places, price : Nat, revision : Nat]]
              /\ attempts'[r].pc = pc
              /\ \A q \in Attempts : q # r => attempts'[q] = attempts[q]
         /\ attempts[r].price \in Nat /\ attempts[r].pc \in Places
         /\ Inv(r) \in Invocations
         /\ \A lane \in Lanes : Ends(r, lane) => lanes' \in [Invocations -> Lanes]
<1>1. attempts[r] \in [pc : Places, price : Nat, revision : Nat] /\ Inv(r) \in Invocations
  BY DEF TemplatesTypeOK, Inv, Invocations
<1>3. \A lane \in Lanes : Ends(r, lane) => lanes' \in [Invocations -> Lanes]
  BY DEF TemplatesTypeOK, Ends
<1>2. ASSUME NEW pc \in Places, Goes(r, pc)
      PROVE  /\ attempts' \in [Attempts -> [pc : Places, price : Nat, revision : Nat]]
             /\ attempts'[r].pc = pc
             /\ \A q \in Attempts : q # r => attempts'[q] = attempts[q]
  <2> DEFINE a == [attempts[r] EXCEPT !.pc = pc]
  <2>1. a \in [pc : Places, price : Nat, revision : Nat] /\ a.pc = pc
    BY <1>1
  <2>2. attempts' = [attempts EXCEPT ![r] = a]
    BY <1>2 DEF Goes
  <2> HIDE DEF a
  <2> QED
    BY <2>1, <2>2 DEF TemplatesTypeOK
<1> QED
  BY <1>1, <1>2, <1>3

\* A step that books and reserves nothing, serves nobody, and writes what a receipt
\* is for.
LEMMA NothingBooked ==
  ASSUME TemplatesInv, UNCHANGED <<saved, records>>,
         attempts' \in [Attempts -> [pc : Places, price : Nat, revision : Nat]],
         \A r \in Attempts : At(r, "serving")' => At(r, "serving"),
         lanes' \in [Invocations -> Lanes],
         sent' \subseteq sent \cup saved.receipts
  PROVE  TemplatesInv'
<1>1. TemplatesTypeOK' /\ HeldApart'
  BY DEF TemplatesInv, TemplatesTypeOK, HeldApart, Held, Inv
<1>2. Indexed(saved') /\ ChargedLast(saved')
  BY DEF TemplatesInv
<1>3. ReceiptsPaid(saved)'
  BY DEF TemplatesInv, ReceiptsPaid
<1> QED
  BY <1>1, <1>2, <1>3 DEF TemplatesInv

\* So do an attempt's steps up to its wait, and when its answer was read.
LEMMA AttemptKeeps ==
  ASSUME TemplatesInv, NEW r \in Attempts,
         Arrive(r) \/ Respond(r) \/ BeginResponseTemplateWait(r) \/ Answered(r)
  PROVE  TemplatesInv'
<1>1. TemplatesTypeOK /\ UNCHANGED <<saved, records>>
  BY DEF TemplatesInv, Arrive, Respond, BeginResponseTemplateWait, Answered
<1>2. sent' \subseteq sent \cup saved.receipts /\ lanes' \in [Invocations -> Lanes]
  <2>1. ReceiptFor(Inv(r)) \subseteq saved.receipts
    BY DEF ReceiptFor
  <2>2. /\ lanes \in [Invocations -> Lanes] /\ Inv(r) \in Invocations
        /\ "free" \in Lanes /\ "busy" \in Lanes /\ "done" \in Lanes
    BY <1>1, AttemptsTyped DEF TemplatesTypeOK, Lanes
  <2>3. lanes[Inv(r)] \in {"free", "busy", "done"}
    BY <2>2 DEF Lanes
  <2>4. CASE Arrive(r)
    BY <2>1, <2>2, <2>3, <2>4 DEF Arrive
  <2>5. CASE Respond(r)
    BY <1>1, <2>1, <2>2, <2>5, AttemptsTyped DEF Respond
  <2>6. CASE BeginResponseTemplateWait(r)
    BY <2>2, <2>6 DEF BeginResponseTemplateWait
  <2>7. CASE Answered(r)
    BY <1>1, <2>2, <2>7, AttemptsTyped DEF Answered
  <2> QED
    BY <2>4, <2>5, <2>6, <2>7
<1>3. \/ \E pc \in Places \ {"serving"} : Goes(r, pc)
      \/ \E a \in [pc : Places \ {"serving"}, price : Nat, revision : Nat] :
           attempts' = [attempts EXCEPT ![r] = a]
  <2>1. CASE Arrive(r)
    <3>1. lanes[Inv(r)] \in {"free", "busy", "done"}
      BY <1>1, AttemptsTyped DEF TemplatesTypeOK, Lanes
    <3>2. Goes(r, "respond") \/ Goes(r, "over")
      BY <2>1, <3>1 DEF Arrive
    <3> QED
      BY <3>2 DEF Places
  <2>2. CASE Respond(r)
    <3>1. CASE ReceiptFor(Inv(r)) # {}
      BY <2>2, <3>1 DEF Respond, Ends, Places
    <3>2. CASE ReceiptFor(Inv(r)) = {}
      <4> DEFINE a == [pc |-> IF saved.offer = Off THEN "model" ELSE "matched",
                       price |-> saved.offer, revision |-> saved.revision]
      <4>1. attempts' = [attempts EXCEPT ![r] = a]
        BY <2>2, <3>2 DEF Respond
      <4>2. saved.offer \in Nat /\ saved.revision \in Nat
        BY <1>1 DEF TemplatesTypeOK, BookType
      <4>3. a \in [pc : Places \ {"serving"}, price : Nat, revision : Nat]
        BY <4>2 DEF Places
      <4> QED
        BY <4>1, <4>3
    <3> QED
      BY <3>1, <3>2
  <2>3. CASE BeginResponseTemplateWait(r)
    BY <2>3 DEF BeginResponseTemplateWait, Places
  <2>4. CASE Answered(r)
    BY <2>4 DEF Answered, Ends, Places
  <2> QED
    BY <2>1, <2>2, <2>3, <2>4
<1>4. /\ attempts' \in [Attempts -> [pc : Places, price : Nat, revision : Nat]]
      /\ attempts'[r].pc # "serving"
      /\ \A q \in Attempts : q # r => attempts'[q] = attempts[q]
  <2>1. CASE \E pc \in Places \ {"serving"} : Goes(r, pc)
    BY <1>1, <2>1, AttemptsTyped
  <2>2. CASE \E a \in [pc : Places \ {"serving"}, price : Nat, revision : Nat] :
               attempts' = [attempts EXCEPT ![r] = a]
    <3>1. PICK a \in [pc : Places \ {"serving"}, price : Nat, revision : Nat] :
                 attempts' = [attempts EXCEPT ![r] = a]
      BY <2>2
    <3> QED
      BY <1>1, <3>1 DEF TemplatesTypeOK
  <2> QED
    BY <1>3, <2>1, <2>2
<1>5. \A q \in Attempts : At(q, "serving")' => At(q, "serving")
  BY <1>4 DEF At
<1> QED
  BY <1>1, <1>2, <1>4, <1>5, NothingBooked

\* What is charged for a write, and its receipt.
LEMMA DebitFacts ==
  ASSUME saved \in BookType, NEW receipt \in ReceiptType
  PROVE  /\ Debit(receipt) \in BookType
         /\ Debit(receipt).archives = saved.archives
         /\ Debit(receipt).ledger = Append(saved.ledger,
                                           Charged(receipt.inv, "template", receipt.price))
         /\ Debit(receipt).receipts = Kept \cup {receipt}
         /\ Debit(receipt).tombstones = saved.tombstones \cup {receipt.inv}
<1> DEFINE s == saved
           e == Charged(receipt.inv, "template", receipt.price)
           used == s.used + receipt.price
           ledger == Append(s.ledger, e)
           receipts == Kept \cup {receipt}
           tombstones == s.tombstones \cup {receipt.inv}
           d == [s EXCEPT !.used = used, !.ledger = ledger, !.receipts = receipts,
                          !.tombstones = tombstones]
<1>1. Debit(receipt) = d
  BY DEF Debit
<1>2. e \in EntryType
  BY DEF ReceiptType, EntryType, Charged, Charges
<1>3. used \in Nat /\ receipts \in SUBSET ReceiptType
  BY DEF BookType, ReceiptType, Kept
<1>4. tombstones \in SUBSET (Invocations \cup OldInvocations)
  BY DEF BookType, ReceiptType
<1>5. ledger \in Seq(EntryType)
  <2> HIDE DEF e
  <2> QED
    BY <1>2 DEF BookType
<1>6. saved \in BookType
  OBVIOUS
<1> HIDE DEF used, ledger, receipts, tombstones, s
<1>7. s \in BookType
  BY <1>6 DEF s
<1>8. /\ d \in BookType /\ d.archives = s.archives /\ d.ledger = ledger
      /\ d.receipts = receipts /\ d.tombstones = tombstones
  BY <1>3, <1>4, <1>5, <1>7 DEF BookType
<1> QED
  BY <1>1, <1>8 DEF s, ledger, receipts, tombstones

\* The write is charged: the index did not have the invocation, nor did the ledger.
LEMMA SendWriteKeeps ==
  ASSUME TemplatesInv, NEW r \in Attempts, SendWrite(r)
  PROVE  TemplatesInv'
<1> DEFINE i == Inv(r)
           receipt == [inv |-> i, price |-> attempts[r].price, live |-> TRUE]
           e == Charged(i, "template", receipt.price)
<1>1. /\ TemplatesTypeOK /\ MayDebit(receipt, attempts[r].revision)
      /\ saved' = Debit(receipt) /\ sent' = sent \cup {receipt} /\ Goes(r, "answering")
      /\ UNCHANGED <<records, lanes>>
  BY DEF TemplatesInv, SendWrite
<1>2. i \in Invocations /\ attempts[r].price \in Nat
  BY <1>1, AttemptsTyped
<1>3. /\ receipt \in ReceiptType /\ e \in EntryType /\ e.kind = "template" /\ e.inv = i
      /\ e = Charged(receipt.inv, "template", receipt.price) /\ receipt.inv = i
  BY <1>2 DEF ReceiptType, EntryType, Charged, Charges
<1>4. /\ i \notin Held /\ i \notin saved.tombstones
      /\ \A m \in DOMAIN saved.ledger : saved.ledger[m].inv # i
      /\ \A x \in saved.receipts : x.inv # i
  BY <1>1 DEF MayDebit, AnsweredBefore, Held, Range
<1> HIDE DEF receipt, e, i
<1>5. /\ saved \in BookType /\ saved' \in BookType /\ saved'.archives = saved.archives
      /\ saved'.ledger = Append(saved.ledger, e) /\ saved'.receipts = Kept \cup {receipt}
      /\ saved'.tombstones = saved.tombstones \cup {i}
  <2>1. saved \in BookType
    BY <1>1 DEF TemplatesTypeOK
  <2> QED
    BY <2>1, <1>1, <1>3, DebitFacts
<1>6. /\ Indexed(saved') /\ ChargedLast(saved')
      /\ Range(EntriesOf(saved)) \subseteq Range(EntriesOf(saved')) /\ e \in Range(EntriesOf(saved'))
  <2>1. Indexed(saved) /\ ChargedLast(saved)
    BY DEF TemplatesInv
  <2>2. e.inv \notin saved.tombstones /\ e.inv \in saved'.tombstones
    BY <1>3, <1>4, <1>5
  <2>3. /\ \A m \in DOMAIN saved.ledger : saved.ledger[m].inv # e.inv
        /\ saved.tombstones \subseteq saved'.tombstones
    BY <1>3, <1>4, <1>5
  <2> QED
    BY <1>3, <1>5, <2>1, <2>2, <2>3, OneMoreEntry
<1>7. ReceiptsPaid(saved)'
  <2>1. \A a, b \in saved'.receipts : a.inv = b.inv => a = b
    BY <1>3, <1>4, <1>5 DEF TemplatesInv, ReceiptsPaid, Kept
  <2>2. \A w \in saved'.receipts \cup sent' : w \in saved.receipts \cup sent \/ w = receipt
    BY <1>1, <1>5 DEF Kept, receipt, i
  <2>3. \A w \in saved.receipts \cup sent :
          Charged(w.inv, "template", w.price) \in Range(EntriesOf(saved'))
    BY <1>6 DEF TemplatesInv, ReceiptsPaid
  <2>4. Charged(receipt.inv, "template", receipt.price) \in Range(EntriesOf(saved'))
    BY <1>3, <1>6
  <2> QED
    BY <2>1, <2>2, <2>3, <2>4 DEF ReceiptsPaid
<1>8. /\ attempts' \in [Attempts -> [pc : Places, price : Nat, revision : Nat]]
      /\ attempts'[r].pc = "answering"
      /\ \A q \in Attempts : q # r => attempts'[q] = attempts[q]
  BY <1>1, AttemptsTyped DEF Places
<1>9. TemplatesTypeOK'
  BY <1>1, <1>5, <1>8 DEF TemplatesTypeOK
<1>10. HeldApart'
  <2>1. Held' = Held
    BY <1>1 DEF Held
  <2>2. \A q \in Attempts : At(q, "serving")' => At(q, "serving")
    BY <1>8 DEF At
  <2> QED
    BY <1>4, <1>5, <2>1, <2>2 DEF TemplatesInv, HeldApart, Inv
<1> QED
  BY <1>6, <1>7, <1>9, <1>10 DEF TemplatesInv

\* A hold is refused to what the index has, and to what is held.
LEMMA TryReserveKeeps ==
  ASSUME TemplatesInv, NEW r \in Attempts, TryReserve(r)
  PROVE  TemplatesInv'
<1>1. /\ TemplatesTypeOK /\ Inv(r) \in Invocations /\ Inv(r) \notin Held
      /\ Inv(r) \notin saved.tombstones /\ Goes(r, "serving")
      /\ records' = [records EXCEPT ![Inv(r)] = "held"] /\ UNCHANGED <<saved, sent, lanes>>
  BY AttemptsTyped DEF TemplatesInv, TryReserve, Held
<1>2. /\ attempts' \in [Attempts -> [pc : Places, price : Nat, revision : Nat]]
      /\ attempts'[r].pc = "serving"
      /\ \A q \in Attempts : q # r => attempts'[q] = attempts[q]
  BY <1>1, AttemptsTyped DEF Places
<1>3. Held' = Held \cup {Inv(r)} /\ records' \in [Invocations -> {"none", "held", "settled"}]
  BY <1>1 DEF Held, TemplatesTypeOK
<1>4. TemplatesTypeOK'
  BY <1>1, <1>2, <1>3 DEF TemplatesTypeOK
<1>5. HeldApart'
  <2>1. \A q \in Attempts : At(q, "serving")' => q = r \/ (At(q, "serving") /\ Inv(q) # Inv(r))
    BY <1>1, <1>2 DEF At, TemplatesInv, HeldApart
  <2> QED
    BY <1>1, <1>3, <2>1 DEF TemplatesInv, HeldApart, Inv
<1>6. Indexed(saved') /\ ChargedLast(saved')
  BY <1>1 DEF TemplatesInv
<1>7. ReceiptsPaid(saved)'
  BY <1>1 DEF TemplatesInv, ReceiptsPaid
<1> QED
  BY <1>4, <1>5, <1>6, <1>7 DEF TemplatesInv

\* The model's answer is charged: its invocation was held, so no template answered it.
LEMMA ModelAnswersKeeps ==
  ASSUME TemplatesInv, NEW r \in Attempts, ModelAnswers(r)
  PROVE  TemplatesInv'
<1> DEFINE i == Inv(r)
           e == Charged(i, "model", ModelPrice)
<1>1. /\ TemplatesTypeOK /\ At(r, "serving") /\ Goes(r, "over")
      /\ records' = [records EXCEPT ![i] = "settled"] /\ lanes' \in [Invocations -> Lanes]
      /\ saved' = [saved EXCEPT !.used = @ + ModelPrice, !.ledger = Append(@, e)]
      /\ UNCHANGED sent
  BY AttemptsTyped DEF TemplatesInv, ModelAnswers, Ends, Lanes
<1>2. i \in Invocations /\ i \in Held /\ i \notin saved.tombstones
  BY <1>1 DEF TemplatesInv, HeldApart, Held
<1>3. e \in EntryType /\ e.kind = "model" /\ e.inv = i
  BY <1>2, TemplateAssumption DEF EntryType, Charged, Charges
<1> HIDE DEF e, i
<1>4. /\ saved \in BookType /\ saved' \in BookType /\ saved'.archives = saved.archives
      /\ saved'.ledger = Append(saved.ledger, e) /\ saved'.receipts = saved.receipts
      /\ saved'.tombstones = saved.tombstones
  <2> DEFINE used == saved.used + ModelPrice
             ledger == Append(saved.ledger, e)
  <2>1. saved \in BookType /\ saved' = [saved EXCEPT !.used = used, !.ledger = ledger]
    BY <1>1 DEF TemplatesTypeOK
  <2>2. used \in Nat /\ ledger \in Seq(EntryType)
    BY <2>1, <1>3, TemplateAssumption DEF BookType
  <2> HIDE DEF used, ledger
  <2>3. /\ saved' \in BookType /\ saved'.archives = saved.archives
        /\ saved'.ledger = ledger /\ saved'.receipts = saved.receipts
        /\ saved'.tombstones = saved.tombstones
    BY <2>1, <2>2 DEF BookType
  <2> QED
    BY <2>1, <2>3 DEF ledger
<1>5. /\ Indexed(saved') /\ ChargedLast(saved')
      /\ Range(EntriesOf(saved)) \subseteq Range(EntriesOf(saved'))
  <2>1. Indexed(saved) /\ ChargedLast(saved)
    BY DEF TemplatesInv
  <2>2. e.inv \notin saved.tombstones /\ saved.tombstones \subseteq saved'.tombstones
        /\ e.kind # "template"
    BY <1>2, <1>3, <1>4
  <2> QED
    BY <1>3, <1>4, <2>1, <2>2, OneMoreEntry
<1>6. ReceiptsPaid(saved)'
  BY <1>1, <1>4, <1>5 DEF TemplatesInv, ReceiptsPaid
<1>7. /\ attempts' \in [Attempts -> [pc : Places, price : Nat, revision : Nat]]
      /\ attempts'[r].pc = "over"
      /\ \A q \in Attempts : q # r => attempts'[q] = attempts[q]
  BY <1>1, AttemptsTyped DEF Places
<1>8. Held' = Held \ {i} /\ records' \in [Invocations -> {"none", "held", "settled"}]
  BY <1>1 DEF Held, TemplatesTypeOK
<1>9. TemplatesTypeOK'
  BY <1>1, <1>4, <1>7, <1>8 DEF TemplatesTypeOK
<1>10. HeldApart'
  <2>1. \A q \in Attempts : At(q, "serving")' => At(q, "serving") /\ Inv(q) # i
    BY <1>1, <1>7 DEF At, TemplatesInv, HeldApart, i
  <2> QED
    BY <1>4, <1>8, <2>1 DEF TemplatesInv, HeldApart, Inv
<1> QED
  BY <1>5, <1>6, <1>9, <1>10 DEF TemplatesInv

\* The index has what is live in the ledger, so to load it again adds nothing.
LEMMA LiveIndexed ==
  ASSUME NEW s \in BookType, Indexed(s)
  PROVE  /\ s.tombstones \cup TemplateCharges(s.ledger) = s.tombstones
         /\ RestoreTemplateInvocations(s) = s
<1> DEFINE known == s.tombstones \cup TemplateCharges(s.ledger)
<1>1. \A m \in DOMAIN s.ledger :
        s.ledger[m].kind = "template" => s.ledger[m].inv \in s.tombstones
  <2> TAKE m \in DOMAIN s.ledger
  <2> DEFINE j == Len(s.archives) + m
             old == Len(s.archives)
             live == Len(s.ledger)
  <2>1. old \in Nat /\ live \in Nat /\ m \in 1 .. live
    BY EntriesFacts
  <2>2. j = old + m
    OBVIOUS
  <2> HIDE DEF old, live, j
  <2>3. j \in 1 .. old + live
    BY <2>1, <2>2
  <2>4. j \in DOMAIN EntriesOf(s) /\ EntriesOf(s)[j] = s.ledger[m]
    BY <2>1, <2>2, <2>3, EntriesFacts DEF old, live
  <2> QED
    BY <2>4 DEF Indexed
<1>2. known = s.tombstones
  BY <1>1 DEF TemplateCharges, Range
<1>3. RestoreTemplateInvocations(s) = [s EXCEPT !.tombstones = known, !.complete = TRUE]
  BY DEF RestoreTemplateInvocations, BookType
<1> HIDE DEF known
<1>4. [s EXCEPT !.tombstones = s.tombstones, !.complete = TRUE] = s
  BY DEF BookType
<1> QED
  BY <1>2, <1>3, <1>4 DEF known

\* Whoever leaves gives its hold back.
LEMMA LeavesKeeps ==
  ASSUME TemplatesInv, NEW r \in Attempts, Leaves(r)
  PROVE  TemplatesInv'
<1>1. /\ TemplatesTypeOK /\ Goes(r, "over") /\ lanes' \in [Invocations -> Lanes]
      /\ records' = IF At(r, "serving") THEN [records EXCEPT ![Inv(r)] = "none"] ELSE records
      /\ UNCHANGED <<saved, sent>>
  BY AttemptsTyped DEF TemplatesInv, Leaves, Ends, Lanes
<1>2. /\ attempts' \in [Attempts -> [pc : Places, price : Nat, revision : Nat]]
      /\ attempts'[r].pc = "over"
      /\ \A q \in Attempts : q # r => attempts'[q] = attempts[q]
  BY <1>1, AttemptsTyped DEF Places
<1>3. records' \in [Invocations -> {"none", "held", "settled"}]
  BY <1>1 DEF TemplatesTypeOK
<1>4. TemplatesTypeOK'
  BY <1>1, <1>2, <1>3 DEF TemplatesTypeOK
<1>5. HeldApart'
  <2>1. \A q \in Attempts : At(q, "serving")' =>
          /\ q # r /\ At(q, "serving")
          /\ At(r, "serving") => Inv(q) # Inv(r)
    BY <1>2 DEF At, TemplatesInv, HeldApart
  <2>2. Held' = IF At(r, "serving") THEN Held \ {Inv(r)} ELSE Held
    BY <1>1 DEF Held, TemplatesTypeOK
  <2> QED
    BY <1>1, <2>1, <2>2 DEF TemplatesInv, HeldApart, Inv
<1>6. Indexed(saved') /\ ChargedLast(saved')
  BY <1>1 DEF TemplatesInv
<1>7. ReceiptsPaid(saved)'
  BY <1>1 DEF TemplatesInv, ReceiptsPaid
<1> QED
  BY <1>4, <1>5, <1>6, <1>7 DEF TemplatesInv

\* The books with other rules, another status, or the ledger archived.
LEMMA BooksFacts ==
  ASSUME NEW s \in BookType
  PROVE  /\ \A offer, revision \in Nat :
              /\ [s EXCEPT !.offer = offer, !.revision = revision] \in BookType
              /\ EntriesOf([s EXCEPT !.offer = offer, !.revision = revision]) = EntriesOf(s)
         /\ \A active \in BOOLEAN :
              /\ [s EXCEPT !.active = active] \in BookType
              /\ EntriesOf([s EXCEPT !.active = active]) = EntriesOf(s)
         /\ \A receipts \in SUBSET ReceiptType :
              /\ [s EXCEPT !.receipts = receipts] \in BookType
              /\ EntriesOf([s EXCEPT !.receipts = receipts]) = EntriesOf(s)
         /\ \A all \in Seq(EntryType) :
            \A known \in SUBSET (Invocations \cup OldInvocations) :
              [s EXCEPT !.ledger = <<>>, !.archives = all, !.tombstones = known] \in BookType
<1> USE DEF BookType, EntriesOf
<1>1. <<>> \in Seq(EntryType)
  OBVIOUS
<1>2. \A offer, revision \in Nat :
        /\ [s EXCEPT !.offer = offer, !.revision = revision] \in BookType
        /\ EntriesOf([s EXCEPT !.offer = offer, !.revision = revision]) = EntriesOf(s)
  OBVIOUS
<1>3. \A active \in BOOLEAN :
        /\ [s EXCEPT !.active = active] \in BookType
        /\ EntriesOf([s EXCEPT !.active = active]) = EntriesOf(s)
  OBVIOUS
<1>4. \A receipts \in SUBSET ReceiptType :
        /\ [s EXCEPT !.receipts = receipts] \in BookType
        /\ EntriesOf([s EXCEPT !.receipts = receipts]) = EntriesOf(s)
  OBVIOUS
<1>5. \A all \in Seq(EntryType), known \in SUBSET (Invocations \cup OldInvocations) :
        [s EXCEPT !.ledger = <<>>, !.archives = all, !.tombstones = known] \in BookType
  BY <1>1
<1> QED
  BY <1>2, <1>3, <1>4, <1>5

\* A step of nobody that leaves every entry where it was, or moves all of them.
LEMMA BooksMove ==
  ASSUME TemplatesInv, saved' \in BookType,
         EntriesOf(saved') = EntriesOf(saved), saved'.tombstones = saved.tombstones,
         saved'.ledger = saved.ledger \/ saved'.ledger = <<>>,
         \A a, b \in saved'.receipts : a.inv = b.inv => a = b,
         \A a \in saved'.receipts : \E b \in saved.receipts : a.inv = b.inv /\ a.price = b.price,
         UNCHANGED <<records, attempts, lanes, sent>>
  PROVE  TemplatesInv'
<1>1. TemplatesTypeOK'
  BY DEF TemplatesInv, TemplatesTypeOK
<1>2. HeldApart'
  BY DEF TemplatesInv, HeldApart, Held, At, Inv
<1>3. Indexed(saved') /\ ChargedLast(saved')
  BY SameEntries DEF TemplatesInv
<1>4. ReceiptsPaid(saved)'
  <2>1. \A w \in saved'.receipts \cup sent' :
          Charged(w.inv, "template", w.price) \in Range(EntriesOf(saved))
    BY DEF TemplatesInv, ReceiptsPaid
  <2> QED
    BY <2>1 DEF ReceiptsPaid
<1> QED
  BY <1>1, <1>2, <1>3, <1>4 DEF TemplatesInv

\* The operator's steps, and what passes with time.
LEMMA AroundTemplatesKeeps ==
  ASSUME TemplatesInv,
         \/ \E offer \in Prices \cup {Off} : PublishTemplates(offer)
         \/ \E receipt \in saved.receipts : Expires(receipt)
         \/ ArchiveLedger \/ Suspend
  PROVE  TemplatesInv'
<1> USE DEF TemplatesInv
<1>1. saved \in BookType
  BY DEF TemplatesTypeOK
<1>2. \A a, b \in saved.receipts : a.inv = b.inv => a = b
  BY DEF ReceiptsPaid
<1>3. ASSUME NEW offer \in Prices \cup {Off}, PublishTemplates(offer) PROVE TemplatesInv'
  <2> DEFINE revision == saved.revision + 1
  <2>1. /\ saved' = [saved EXCEPT !.offer = offer, !.revision = revision]
        /\ UNCHANGED <<records, attempts, lanes, sent>>
    BY <1>3 DEF PublishTemplates
  <2>2. offer \in Nat /\ revision \in Nat
    BY <1>1, TemplateAssumption DEF BookType, Off
  <2> HIDE DEF revision
  <2>3. saved' \in BookType /\ EntriesOf(saved') = EntriesOf(saved)
    BY <1>1, <2>1, <2>2, BooksFacts
  <2>4. /\ saved'.tombstones = saved.tombstones /\ saved'.ledger = saved.ledger
        /\ saved'.receipts = saved.receipts
    BY <1>1, <2>1 DEF BookType
  <2> QED
    BY <1>2, <2>1, <2>3, <2>4, BooksMove
<1>4. ASSUME NEW receipt \in saved.receipts, Expires(receipt) PROVE TemplatesInv'
  <2> DEFINE spent == [receipt EXCEPT !.live = FALSE]
             receipts == (saved.receipts \ {receipt}) \cup {spent}
  <2>1. /\ saved' = [saved EXCEPT !.receipts = receipts]
        /\ UNCHANGED <<records, attempts, lanes, sent>>
    BY <1>4 DEF Expires
  <2>2. /\ spent \in ReceiptType /\ spent.inv = receipt.inv /\ spent.price = receipt.price
        /\ saved.receipts \subseteq ReceiptType
    BY <1>1 DEF BookType, ReceiptType
  <2> HIDE DEF spent
  <2>3. receipts \in SUBSET ReceiptType
    BY <2>2
  <2>4. /\ \A a, b \in receipts : a.inv = b.inv => a = b
        /\ \A a \in receipts : \E b \in saved.receipts : a.inv = b.inv /\ a.price = b.price
    BY <1>2, <2>2
  <2> HIDE DEF receipts
  <2>5. saved' \in BookType /\ EntriesOf(saved') = EntriesOf(saved)
    BY <1>1, <2>1, <2>3, BooksFacts
  <2>6. /\ saved'.tombstones = saved.tombstones /\ saved'.ledger = saved.ledger
        /\ saved'.receipts = receipts
    BY <1>1, <2>1 DEF BookType
  <2> QED
    BY <2>1, <2>4, <2>5, <2>6, BooksMove
<1>5. ASSUME ArchiveLedger PROVE TemplatesInv'
  <2> DEFINE all == EntriesOf(saved)
             known == saved.tombstones \cup TemplateCharges(saved.ledger)
  <2>1. /\ saved' = [saved EXCEPT !.ledger = <<>>, !.archives = all, !.tombstones = known]
        /\ UNCHANGED <<records, attempts, lanes, sent>>
    BY <1>5 DEF ArchiveLedger
  <2>2. known = saved.tombstones
    BY <1>1, LiveIndexed
  <2>3. all \in Seq(EntryType) /\ known \in SUBSET (Invocations \cup OldInvocations)
    BY <1>1, <2>2, EntriesFacts DEF BookType
  <2> HIDE DEF all, known
  <2>4. saved' \in BookType
    BY <1>1, <2>1, <2>3, BooksFacts
  <2>5. /\ saved'.tombstones = known /\ saved'.ledger = <<>> /\ saved'.archives = all
        /\ saved'.receipts = saved.receipts
    BY <1>1, <2>1 DEF BookType
  <2>6. EntriesOf(saved') = EntriesOf(saved)
    <3>1. all \o <<>> = all
      BY <2>3
    <3> QED
      BY <2>5, <3>1 DEF EntriesOf, all
  <2> QED
    BY <1>2, <2>1, <2>2, <2>4, <2>5, <2>6, BooksMove
<1>6. ASSUME Suspend PROVE TemplatesInv'
  <2> DEFINE active == ~saved.active
  <2>1. /\ saved' = [saved EXCEPT !.active = active]
        /\ UNCHANGED <<records, attempts, lanes, sent>>
    BY <1>6 DEF Suspend
  <2>2. active \in BOOLEAN
    OBVIOUS
  <2> HIDE DEF active
  <2>3. saved' \in BookType /\ EntriesOf(saved') = EntriesOf(saved)
    BY <1>1, <2>1, <2>2, BooksFacts
  <2>4. /\ saved'.tombstones = saved.tombstones /\ saved'.ledger = saved.ledger
        /\ saved'.receipts = saved.receipts
    BY <1>1, <2>1 DEF BookType
  <2> QED
    BY <1>2, <2>1, <2>3, <2>4, BooksMove
<1> QED
  BY <1>3, <1>4, <1>5, <1>6

\* Forgetting what is done, and starting again, take no hold and book nothing.
LEMMA ForgetKeeps ==
  ASSUME TemplatesInv, (\E i \in Invocations : Forget(i)) \/ RestartTemplates
  PROVE  TemplatesInv'
<1> USE DEF TemplatesInv
<1>1. saved \in BookType
  BY DEF TemplatesTypeOK
<1>2. /\ UNCHANGED <<saved, sent>>
      /\ records' \in [Invocations -> {"none", "held", "settled"}]
      /\ lanes' \in [Invocations -> Lanes]
  <2>1. CASE \E i \in Invocations : Forget(i)
    BY <2>1 DEF Forget, TemplatesTypeOK, Lanes
  <2>2. CASE RestartTemplates
    BY <1>1, <2>2, LiveIndexed DEF RestartTemplates, Lanes
  <2> QED
    BY <2>1, <2>2
<1>3. /\ attempts' \in [Attempts -> [pc : Places, price : Nat, revision : Nat]]
      /\ \A r \in Attempts : At(r, "serving")' => /\ At(r, "serving")
                                                  /\ UNCHANGED attempts /\ Held' = Held
      /\ Held' \subseteq Held
  <2>1. CASE \E i \in Invocations : Forget(i)
    <3>1. PICK i \in Invocations : Forget(i)
      BY <2>1
    <3>2. UNCHANGED attempts
      BY <3>1 DEF Forget
    <3>3. Held' = Held
      BY <3>1 DEF Forget, Held, TemplatesTypeOK
    <3> QED
      BY <3>2, <3>3 DEF TemplatesTypeOK, At
  <2>2. CASE RestartTemplates
    <3>1. \A r \in Attempts :
            /\ attempts'[r] \in [pc : Places, price : Nat, revision : Nat]
            /\ attempts'[r].pc # "serving"
      BY <2>2 DEF RestartTemplates, TemplatesTypeOK, At, Places
    <3>2. attempts' = [r \in Attempts |-> attempts'[r]]
      BY <2>2 DEF RestartTemplates
    <3>3. attempts' \in [Attempts -> [pc : Places, price : Nat, revision : Nat]]
      BY <3>1, <3>2
    <3>4. Held' = {}
      BY <2>2 DEF RestartTemplates, Held
    <3> QED
      BY <3>1, <3>3, <3>4 DEF At
  <2> QED
    BY <2>1, <2>2
<1>4. TemplatesTypeOK'
  BY <1>2, <1>3 DEF TemplatesTypeOK
<1>5. HeldApart'
  BY <1>2, <1>3 DEF HeldApart, At, Inv
<1>6. Indexed(saved') /\ ChargedLast(saved')
  BY <1>2
<1>7. ReceiptsPaid(saved)'
  BY <1>2 DEF ReceiptsPaid
<1> QED
  BY <1>4, <1>5, <1>6, <1>7

\* A new installation has no entry, the state of an older release one, which the load
\* puts in the index.
LEMMA InitTemplates == TemplatesInit => TemplatesInv
<1> SUFFICES ASSUME TemplatesInit PROVE TemplatesInv
  OBVIOUS
<1>1. /\ records \in [Invocations -> {"none", "held", "settled"}]
      /\ lanes \in [Invocations -> Lanes] /\ Held = {} /\ sent = {}
      /\ attempts \in [Attempts -> [pc : Places, price : Nat, revision : Nat]]
      /\ \A r \in Attempts : ~At(r, "serving")
  BY DEF TemplatesInit, Held, At, Lanes, Places, Off
<1>2. HeldApart
  BY <1>1 DEF HeldApart
<1>3. CASE saved = Fresh
  <2>1. <<>> \in Seq(EntryType)
    OBVIOUS
  <2>2. saved \in BookType /\ saved.archives = <<>> /\ saved.ledger = <<>> /\ saved.receipts = {}
    BY <1>3, <2>1 DEF Fresh, BookType, Off
  <2>3. EntriesOf(saved) = <<>>
    BY <2>2 DEF EntriesOf
  <2>4. Indexed(saved) /\ ChargedLast(saved)
    BY <2>2, <2>3 DEF Indexed, ChargedLast
  <2>5. ReceiptsPaid(saved)
    BY <1>1, <2>2 DEF ReceiptsPaid
  <2> QED
    BY <1>1, <1>2, <2>2, <2>4, <2>5 DEF TemplatesInv, TemplatesTypeOK
<1>4. ASSUME NEW i \in OldInvocations, NEW live \in BOOLEAN,
             NEW receipts \in {{}, {[inv |-> i, price |-> OldPrice, live |-> live]}},
             saved = RestoreTemplateInvocations(Older(i, OldPrice, receipts))
      PROVE  TemplatesInv
  <2> DEFINE e == Charged(i, "template", OldPrice)
  <2>1. e \in EntryType /\ e.kind = "template" /\ e.inv = i
    BY TemplateAssumption DEF EntryType, Charged, Charges
  <2>2. /\ receipts \in SUBSET ReceiptType
        /\ \A w \in receipts : w.inv = i /\ w.price = OldPrice
        /\ \A a, b \in receipts : a = b
    BY TemplateAssumption DEF ReceiptType
  <2>3. \A w \in receipts : Charged(w.inv, "template", w.price) = e
    BY <2>2
  <2> HIDE DEF e
  <2> DEFINE Book == [offer : Nat, revision : Nat, receipts : SUBSET ReceiptType,
                      ledger : Seq(EntryType), archives : Seq(EntryType),
                      tombstones : SUBSET (Invocations \cup OldInvocations),
                      complete : BOOLEAN, used : Nat, active : BOOLEAN]
             u == Older(i, OldPrice, receipts)
             known == (IF u.complete THEN u.tombstones ELSE TemplateCharges(u.archives))
                        \cup TemplateCharges(u.ledger)
  <2>4. /\ u \in Book /\ u.receipts = receipts /\ u.archives = <<e>> /\ u.ledger = <<>>
        /\ ~u.complete
    <3> DEFINE archives == <<e>>
               f == Fresh
    <3>1. u = [f EXCEPT !.archives = archives, !.complete = FALSE,
                        !.receipts = receipts, !.used = OldPrice]
      BY DEF Older, e
    <3>2. archives \in Seq(EntryType) /\ <<>> \in Seq(EntryType)
      BY <2>1
    <3>3. f \in Book /\ f.ledger = <<>>
      BY <3>2 DEF Fresh, Off
    <3> HIDE DEF archives, f, u
    <3>4. /\ u \in Book /\ u.receipts = receipts /\ u.archives = archives
          /\ u.ledger = f.ledger /\ u.complete = FALSE
      BY <2>2, <3>1, <3>2, <3>3, TemplateAssumption
    <3> QED
      BY <3>3, <3>4 DEF archives
  <2> HIDE DEF u
  <2>5. known = {i}
    <3>1. TemplateCharges(<<e>>) = {i} /\ TemplateCharges(<<>>) = {}
      BY <2>1 DEF TemplateCharges, Range
    <3> QED
      BY <2>4, <3>1
  <2>6. saved = [u EXCEPT !.tombstones = known, !.complete = TRUE]
    BY <1>4 DEF RestoreTemplateInvocations, u
  <2> HIDE DEF known
  <2>7. known \in SUBSET (Invocations \cup OldInvocations)
    BY <2>5
  <2>8. /\ saved \in BookType /\ saved.receipts = receipts /\ saved.archives = <<e>>
        /\ saved.ledger = <<>> /\ saved.tombstones = {i}
    <3>1. /\ saved \in BookType /\ saved.receipts = u.receipts /\ saved.archives = u.archives
          /\ saved.ledger = u.ledger /\ saved.tombstones = known
      BY <2>4, <2>6, <2>7 DEF BookType
    <3> QED
      BY <2>4, <2>5, <3>1
  <2>9. EntriesOf(saved) = <<e>>
    BY <2>1, <2>8 DEF EntriesOf
  <2>10. Indexed(saved) /\ ChargedLast(saved)
    <3>1. DOMAIN EntriesOf(saved) = {1} /\ EntriesOf(saved)[1] = e
      BY <2>9
    <3>2. saved.ledger = <<>> /\ saved.tombstones = {i}
      BY <2>8
    <3> QED
      BY <2>1, <3>1, <3>2 DEF Indexed, ChargedLast
  <2>11. ReceiptsPaid(saved)
    <3>1. e \in Range(EntriesOf(saved))
      BY <2>9 DEF Range
    <3>2. saved.receipts = receipts
      BY <2>8
    <3> QED
      BY <1>1, <2>2, <2>3, <3>1, <3>2 DEF ReceiptsPaid
  <2> QED
    BY <1>1, <1>2, <2>8, <2>10, <2>11 DEF TemplatesInv, TemplatesTypeOK
<1> QED
  BY <1>3, <1>4 DEF TemplatesInit

\* No step breaks the invariant.
LEMMA TemplatesKeep == TemplatesInv /\ [TemplatesNext]_templateVars => TemplatesInv'
<1> SUFFICES ASSUME TemplatesInv, [TemplatesNext]_templateVars PROVE TemplatesInv'
  OBVIOUS
<1>1. CASE UNCHANGED templateVars
  <2>1. UNCHANGED <<saved, records, lanes, attempts, sent>>
    BY <1>1 DEF templateVars
  <2> QED
    BY <2>1, NothingBooked DEF TemplatesInv, TemplatesTypeOK, At
<1> QED
  BY <1>1, AttemptKeeps, SendWriteKeeps, TryReserveKeeps, ModelAnswersKeeps, LeavesKeeps,
     AroundTemplatesKeeps, ForgetKeeps DEF TemplatesNext

\* The invariant is of every behaviour: whatever is answered, refused, given up,
\* published, expired, archived and restarted.
THEOREM TemplatesInvariance == TemplatesSpec => []TemplatesInv
BY InitTemplates, TemplatesKeep, PTL DEF TemplatesSpec

\* From the invariant: every receipt's charge is where a load looks for it.
LEMMA BooksLoad == TemplatesInv => ReceiptsLoad
<1> SUFFICES ASSUME TemplatesInv PROVE ReceiptsLoad
  OBVIOUS
<1> USE DEF TemplatesInv
<1>1. saved \in BookType
  BY DEF TemplatesTypeOK
<1>2. ASSUME NEW receipt \in saved.receipts
      PROVE  LET live == {e \in Range(saved.ledger) : e.inv = receipt.inv} IN
             IF live # {}
             THEN \A e \in live : e.kind = "template" /\ e.price = receipt.price
             ELSE receipt.inv \in saved.tombstones
  <2> DEFINE all == EntriesOf(saved)
             old == Len(saved.archives)
             live == Len(saved.ledger)
             c == Charged(receipt.inv, "template", receipt.price)
  <2>1. /\ old \in Nat /\ live \in Nat /\ DOMAIN all = 1 .. old + live
        /\ DOMAIN saved.ledger = 1 .. live
        /\ \A m \in 1 .. live : all[old + m] = saved.ledger[m]
    BY <1>1, EntriesFacts
  <2>2. c.inv = receipt.inv /\ c.kind = "template" /\ c.price = receipt.price
    BY DEF Charged
  <2>3. PICK j \in DOMAIN all : all[j] = c
    BY DEF ReceiptsPaid, Range
  <2>4. receipt.inv \in saved.tombstones
    BY <2>2, <2>3 DEF Indexed
  <2>5. \A k \in DOMAIN all : j < k => all[k].inv # c.inv
    BY <2>2, <2>3 DEF ChargedLast
  <2>6. \A m, n \in DOMAIN saved.ledger :
          /\ saved.ledger[n].kind = "template" /\ saved.ledger[m].inv = saved.ledger[n].inv
          => m = n
    BY DEF ChargedLast
  <2> HIDE DEF all, old, live, c
  <2>7. ASSUME NEW m \in DOMAIN saved.ledger, saved.ledger[m].inv = receipt.inv
        PROVE  saved.ledger[m] = c
    <3>1. old + m \in DOMAIN all /\ all[old + m].inv = c.inv
      BY <2>1, <2>2, <2>7
    <3>2. ~ (j < old + m)
      BY <2>5, <3>1
    <3> DEFINE n == j - old
    <3>3. n \in 1 .. live /\ j = old + n
      BY <2>1, <2>3, <3>2
    <3> HIDE DEF n
    <3>4. saved.ledger[n] = c
      BY <2>1, <2>3, <3>3
    <3> QED
      BY <2>1, <2>2, <2>6, <2>7, <3>3, <3>4
  <2>8. \A e \in Range(saved.ledger) :
          e.inv = receipt.inv => e.kind = "template" /\ e.price = receipt.price
    BY <2>2, <2>7 DEF Range
  <2> QED
    BY <2>4, <2>8
<1>3. ValidReceipts(saved)
  BY <1>2 DEF ValidReceipts, ReceiptsPaid
<1>4. RestoreTemplateInvocations(saved) = saved
  BY <1>1, LiveIndexed
<1> QED
  BY <1>3, <1>4 DEF ReceiptsLoad

\* What a template answered is charged once and held by nobody, writes are sent after
\* their charge, and what is saved can be loaded.
THEOREM TemplatesAlwaysPaidOnce == TemplatesSpec => []TemplatesArePaidOnce
<1>1. TemplatesInv => TemplatesArePaidOnce
  <2> SUFFICES ASSUME TemplatesInv PROVE TemplatesArePaidOnce
    OBVIOUS
  <2>1. ReceiptsLoad
    BY BooksLoad
  <2>2. WritesArePaid
    BY DEF TemplatesInv, ReceiptsPaid, WritesArePaid
  <2>3. TemplateEndsInvocation
    BY DEF TemplatesInv, Indexed, ChargedLast, HeldApart, TemplateEndsInvocation
  <2> QED
    BY <2>1, <2>2, <2>3 DEF TemplatesArePaidOnce
<1> QED
  BY <1>1, TemplatesInvariance, PTL

-----------------------------------------------------------------------------
(* Cards.                                                                  *)

CardStatuses == {"unactivated", "active", "frozen", "banned", "voided"}

CardType ==
  [status : CardStatuses, frozenFrom : {"none", "unactivated", "active"},
   archived : BOOLEAN, activated : BOOLEAN, until : Nat, duration : Nat,
   total : Nat, used : Nat]

EntryKeys == {"none"} \cup CardRequests \cup TopupCodes \cup CardIds \cup Keys

BookedType ==
  [card : CardIds, kind : {"usage", "topup", "adjustment"}, credits : Int, key : EntryKeys,
   names : Seq(CardRequests), charged : Seq(Nat), again : BOOLEAN]

\* An entry of the ledger: only an adjustment takes credit.
Booked == {e \in BookedType : e.kind # "adjustment" => e.credits \in Nat}

Adjusted == UNION {[D -> Booked] : D \in SUBSET EntryKeys}

SummaryType == [given : [CardIds -> Int], taken : [CardIds -> Int], adjustments : Adjusted]

SummaryOf(s) == FoldLeft(Include, NoSummary, s)

-----------------------------------------------------------------------------
\* What an entry adds to sums.

GivenBy(c) ==
  [e \in Booked |-> IF e.card = c /\ e.kind # "usage" /\ e.credits > 0 THEN e.credits ELSE 0]

TakenBy(c) ==
  [e \in Booked |-> IF e.card # c THEN 0 ELSE IF e.kind = "usage" THEN e.credits
                    ELSE IF e.credits < 0 THEN -e.credits ELSE 0]

MadeBy == [e \in Booked |-> IF e.key \in Keys THEN e.credits
                            ELSE IF e.kind = "usage" THEN -e.credits ELSE 0]

GivenIn(s, c) ==
  TotalOf(s, LAMBDA e : IF e.card = c /\ e.kind # "usage" /\ e.credits > 0 THEN e.credits ELSE 0)

TakenIn(s, c) ==
  TotalOf(s, LAMBDA e : IF e.card # c THEN 0 ELSE IF e.kind = "usage" THEN e.credits
                        ELSE IF e.credits < 0 THEN -e.credits ELSE 0)

MadeIn(s) ==
  TotalOf(s, LAMBDA e : IF e.key \in Keys THEN e.credits
                        ELSE IF e.kind = "usage" THEN -e.credits ELSE 0)

\* They are integers.
LEMMA WeightsTyped ==
  /\ MadeBy \in [Booked -> Int]
  /\ \A c \in CardIds : GivenBy(c) \in [Booked -> Int] /\ TakenBy(c) \in [Booked -> Int]
<1>1. \A e \in Booked : e.credits \in Int
  BY DEF Booked, BookedType
<1> QED
  BY <1>1 DEF MadeBy, GivenBy, TakenBy

GivenPeels(g, s, c) ==
  g = [t \in SUBSET DOMAIN s |->
         IF t = {} THEN 0
         ELSE g[t \ {Max(t)}]
                + (IF s[Max(t)].card = c /\ s[Max(t)].kind # "usage" /\ s[Max(t)].credits > 0
                   THEN s[Max(t)].credits ELSE 0)]

\* What was given is a sum.
LEMMA GivenIsTally ==
  ASSUME NEW s \in Seq(Booked), NEW c \in CardIds
  PROVE  GivenIn(s, c) = Tally(GivenBy(c), Booked, s)
<1> DEFINE w == GivenBy(c)
           h == CHOOSE g : GivenPeels(g, s, c)
<1>1. GivenIn(s, c) = h[DOMAIN s]
  BY DEF GivenIn, TotalOf, FoldLeft, MapThenFoldSet, GivenPeels
<1>2. w \in [Booked -> Int]
  BY WeightsTyped
<1>3. \A g : GivenPeels(g, s, c) <=> TallyPeels(g, w, s)
  <2> TAKE g
  <2>1. ASSUME NEW t \in SUBSET DOMAIN s, t # {}
        PROVE  w[s[Max(t)]] = (IF s[Max(t)].card = c /\ s[Max(t)].kind # "usage" /\ s[Max(t)].credits > 0
                   THEN s[Max(t)].credits ELSE 0)
    <3>1. DOMAIN s = 1 .. Len(s) /\ Len(s) \in Nat /\ \A i \in 1 .. Len(s) : s[i] \in Booked
      OBVIOUS
    <3>2. Max(t) \in 1 .. Len(s)
      BY <2>1, <3>1, LastOfSet
    <3>3. s[Max(t)] \in Booked
      BY <3>1, <3>2
    <3> QED
      BY <3>3 DEF GivenBy
  <2> HIDE DEF w
  <2>2. [t \in SUBSET DOMAIN s |->
           IF t = {} THEN 0
           ELSE g[t \ {Max(t)}]
                  + (IF s[Max(t)].card = c /\ s[Max(t)].kind # "usage" /\ s[Max(t)].credits > 0
                   THEN s[Max(t)].credits ELSE 0)]
        = [t \in SUBSET DOMAIN s |->
             IF t = {} THEN 0 ELSE g[t \ {Max(t)}] + w[s[Max(t)]]]
    BY <2>1
  <2> QED
    BY <2>2, Zenon DEF GivenPeels, TallyPeels
<1>4. \E g : GivenPeels(g, s, c)
  BY <1>2, <1>3, PeelingTallies
<1> HIDE DEF w
<1>5. TallyPeels(h, w, s)
  BY <1>3, <1>4
<1> HIDE DEF h
<1>6. h[DOMAIN s] = Tally(w, Booked, s)
  BY <1>2, <1>5, PeelingTallies
<1> QED
  BY <1>1, <1>6 DEF w

TakenPeels(g, s, c) ==
  g = [t \in SUBSET DOMAIN s |->
         IF t = {} THEN 0
         ELSE g[t \ {Max(t)}]
                + (IF s[Max(t)].card # c THEN 0 ELSE IF s[Max(t)].kind = "usage" THEN s[Max(t)].credits
                   ELSE IF s[Max(t)].credits < 0 THEN -s[Max(t)].credits ELSE 0)]

\* What was taken is a sum.
LEMMA TakenIsTally ==
  ASSUME NEW s \in Seq(Booked), NEW c \in CardIds
  PROVE  TakenIn(s, c) = Tally(TakenBy(c), Booked, s)
<1> DEFINE w == TakenBy(c)
           h == CHOOSE g : TakenPeels(g, s, c)
<1>1. TakenIn(s, c) = h[DOMAIN s]
  BY DEF TakenIn, TotalOf, FoldLeft, MapThenFoldSet, TakenPeels
<1>2. w \in [Booked -> Int]
  BY WeightsTyped
<1>3. \A g : TakenPeels(g, s, c) <=> TallyPeels(g, w, s)
  <2> TAKE g
  <2>1. ASSUME NEW t \in SUBSET DOMAIN s, t # {}
        PROVE  w[s[Max(t)]] = (IF s[Max(t)].card # c THEN 0 ELSE IF s[Max(t)].kind = "usage" THEN s[Max(t)].credits
                   ELSE IF s[Max(t)].credits < 0 THEN -s[Max(t)].credits ELSE 0)
    <3>1. DOMAIN s = 1 .. Len(s) /\ Len(s) \in Nat /\ \A i \in 1 .. Len(s) : s[i] \in Booked
      OBVIOUS
    <3>2. Max(t) \in 1 .. Len(s)
      BY <2>1, <3>1, LastOfSet
    <3>3. s[Max(t)] \in Booked
      BY <3>1, <3>2
    <3> QED
      BY <3>3 DEF TakenBy
  <2> HIDE DEF w
  <2>2. [t \in SUBSET DOMAIN s |->
           IF t = {} THEN 0
           ELSE g[t \ {Max(t)}]
                  + (IF s[Max(t)].card # c THEN 0 ELSE IF s[Max(t)].kind = "usage" THEN s[Max(t)].credits
                   ELSE IF s[Max(t)].credits < 0 THEN -s[Max(t)].credits ELSE 0)]
        = [t \in SUBSET DOMAIN s |->
             IF t = {} THEN 0 ELSE g[t \ {Max(t)}] + w[s[Max(t)]]]
    BY <2>1
  <2> QED
    BY <2>2, Zenon DEF TakenPeels, TallyPeels
<1>4. \E g : TakenPeels(g, s, c)
  BY <1>2, <1>3, PeelingTallies
<1> HIDE DEF w
<1>5. TallyPeels(h, w, s)
  BY <1>3, <1>4
<1> HIDE DEF h
<1>6. h[DOMAIN s] = Tally(w, Booked, s)
  BY <1>2, <1>5, PeelingTallies
<1> QED
  BY <1>1, <1>6 DEF w

MadePeels(g, s) ==
  g = [t \in SUBSET DOMAIN s |->
         IF t = {} THEN 0
         ELSE g[t \ {Max(t)}]
                + (IF s[Max(t)].key \in Keys THEN s[Max(t)].credits
                   ELSE IF s[Max(t)].kind = "usage" THEN -s[Max(t)].credits ELSE 0)]

\* What was made under keys, less what was charged, is a sum.
LEMMA MadeIsTally ==
  ASSUME NEW s \in Seq(Booked)
  PROVE  MadeIn(s) = Tally(MadeBy, Booked, s)
<1> DEFINE w == MadeBy
           h == CHOOSE g : MadePeels(g, s)
<1>1. MadeIn(s) = h[DOMAIN s]
  BY DEF MadeIn, TotalOf, FoldLeft, MapThenFoldSet, MadePeels
<1>2. w \in [Booked -> Int]
  BY WeightsTyped
<1>3. \A g : MadePeels(g, s) <=> TallyPeels(g, w, s)
  <2> TAKE g
  <2>1. ASSUME NEW t \in SUBSET DOMAIN s, t # {}
        PROVE  w[s[Max(t)]] = (IF s[Max(t)].key \in Keys THEN s[Max(t)].credits
                   ELSE IF s[Max(t)].kind = "usage" THEN -s[Max(t)].credits ELSE 0)
    <3>1. DOMAIN s = 1 .. Len(s) /\ Len(s) \in Nat /\ \A i \in 1 .. Len(s) : s[i] \in Booked
      OBVIOUS
    <3>2. Max(t) \in 1 .. Len(s)
      BY <2>1, <3>1, LastOfSet
    <3>3. s[Max(t)] \in Booked
      BY <3>1, <3>2
    <3> QED
      BY <3>3 DEF MadeBy
  <2> HIDE DEF w
  <2>2. [t \in SUBSET DOMAIN s |->
           IF t = {} THEN 0
           ELSE g[t \ {Max(t)}]
                  + (IF s[Max(t)].key \in Keys THEN s[Max(t)].credits
                   ELSE IF s[Max(t)].kind = "usage" THEN -s[Max(t)].credits ELSE 0)]
        = [t \in SUBSET DOMAIN s |->
             IF t = {} THEN 0 ELSE g[t \ {Max(t)}] + w[s[Max(t)]]]
    BY <2>1
  <2> QED
    BY <2>2, Zenon DEF MadePeels, TallyPeels
<1>4. \E g : MadePeels(g, s)
  BY <1>2, <1>3, PeelingTallies
<1> HIDE DEF w
<1>5. TallyPeels(h, w, s)
  BY <1>3, <1>4
<1> HIDE DEF h
<1>6. h[DOMAIN s] = Tally(w, Booked, s)
  BY <1>2, <1>5, PeelingTallies
<1> QED
  BY <1>1, <1>6 DEF w

-----------------------------------------------------------------------------
\* The summary of archived entries.

\* A summary with one more entry.
LEMMA IncludeFacts ==
  ASSUME NEW sum \in SummaryType, NEW e \in Booked
  PROVE  /\ Include(sum, e) \in SummaryType
         /\ \A c \in CardIds :
              /\ Include(sum, e).given[c] = sum.given[c] + GivenBy(c)[e]
              /\ Include(sum, e).taken[c] = sum.taken[c] + TakenBy(c)[e]
         /\ e.kind = "adjustment" /\ e.key # "none" =>
              /\ DOMAIN Include(sum, e).adjustments = DOMAIN sum.adjustments \cup {e.key}
              /\ Include(sum, e).adjustments[e.key] = e
              /\ \A k \in DOMAIN sum.adjustments :
                   k # e.key => Include(sum, e).adjustments[k] = sum.adjustments[k]
         /\ ~(e.kind = "adjustment" /\ e.key # "none") =>
              Include(sum, e).adjustments = sum.adjustments
<1> DEFINE g == IF e.kind # "usage" /\ e.credits > 0 THEN e.credits ELSE 0
           u == IF e.kind = "usage" THEN e.credits
                ELSE IF e.credits < 0 THEN -e.credits ELSE 0
           adj == IF e.kind = "adjustment" /\ e.key # "none"
                  THEN [k \in DOMAIN sum.adjustments \cup {e.key} |->
                          IF k = e.key THEN e ELSE sum.adjustments[k]]
                  ELSE sum.adjustments
           given == [sum.given EXCEPT ![e.card] = @ + g]
           taken == [sum.taken EXCEPT ![e.card] = @ + u]
<1>1. /\ e.card \in CardIds /\ e.credits \in Int /\ e.key \in EntryKeys /\ g \in Int /\ u \in Int
      /\ sum.given \in [CardIds -> Int] /\ sum.taken \in [CardIds -> Int]
      /\ sum = [given |-> sum.given, taken |-> sum.taken, adjustments |-> sum.adjustments]
      /\ sum.adjustments \in Adjusted
  BY DEF Booked, BookedType, SummaryType
<1>2. PICK D \in SUBSET EntryKeys : sum.adjustments \in [D -> Booked]
  BY <1>1 DEF Adjusted
<1>3. Include(sum, e) = [given |-> given, taken |-> taken, adjustments |-> adj]
  <2> DEFINE G == sum.given  T == sum.taken  J == sum.adjustments
  <2>1. sum = [given |-> G, taken |-> T, adjustments |-> J]
    BY <1>1
  <2>2. Include(sum, e) =
          [sum EXCEPT !.given[e.card] = @ + g, !.taken[e.card] = @ + u,
                      !.adjustments = IF e.kind = "adjustment" /\ e.key # "none"
                                      THEN [k \in DOMAIN @ \cup {e.key} |->
                                              IF k = e.key THEN e ELSE @[k]]
                                      ELSE @]
    BY Zenon DEF Include
  <2>3. given = [G EXCEPT ![e.card] = @ + g] /\ taken = [T EXCEPT ![e.card] = @ + u]
    OBVIOUS
  <2>4. adj = IF e.kind = "adjustment" /\ e.key # "none"
              THEN [k \in DOMAIN J \cup {e.key} |-> IF k = e.key THEN e ELSE J[k]] ELSE J
    OBVIOUS
  <2> HIDE DEF g, u, given, taken, adj
  <2> DEFINE x == [sum EXCEPT !.given[e.card] = @ + g]
             y == [x EXCEPT !.taken[e.card] = @ + u]
  <2> HIDE DEF G, T, J
  <2>5. x = [given |-> given, taken |-> T, adjustments |-> J]
    BY <2>1, <2>3
  <2>6. y = [given |-> given, taken |-> taken, adjustments |-> J]
    <3> HIDE DEF x
    <3> QED
      BY <2>5, <2>3
  <2>7. Include(sum, e) =
          [y EXCEPT !.adjustments = IF e.kind = "adjustment" /\ e.key # "none"
                                    THEN [k \in DOMAIN @ \cup {e.key} |->
                                            IF k = e.key THEN e ELSE @[k]]
                                    ELSE @]
    BY <2>2, Zenon
  <2> HIDE DEF y
  <2>8. CASE e.kind = "adjustment" /\ e.key # "none"
    BY <2>4, <2>6, <2>7, <2>8
  <2>9. CASE ~(e.kind = "adjustment" /\ e.key # "none")
    BY <2>4, <2>6, <2>7, <2>9
  <2> QED
    BY <2>8, <2>9
<1>4. /\ given \in [CardIds -> Int] /\ taken \in [CardIds -> Int]
      /\ \A c \in CardIds : /\ given[c] = IF c = e.card THEN sum.given[c] + g ELSE sum.given[c]
                            /\ taken[c] = IF c = e.card THEN sum.taken[c] + u ELSE sum.taken[c]
  BY <1>1
<1>5. \A c \in CardIds : /\ GivenBy(c)[e] = IF c = e.card THEN g ELSE 0
                         /\ TakenBy(c)[e] = IF c = e.card THEN u ELSE 0
  BY DEF GivenBy, TakenBy
<1>6. adj \in Adjusted
  <2>1. CASE e.kind = "adjustment" /\ e.key # "none"
    <3>1. adj \in [D \cup {e.key} -> Booked] /\ D \cup {e.key} \in SUBSET EntryKeys
      BY <1>1, <1>2, <2>1
    <3> HIDE DEF adj
    <3> QED
      BY <3>1 DEF Adjusted
  <2>2. CASE ~(e.kind = "adjustment" /\ e.key # "none")
    BY <1>1, <2>2
  <2> QED
    BY <2>1, <2>2
<1>7. /\ e.kind = "adjustment" /\ e.key # "none" =>
           /\ DOMAIN adj = DOMAIN sum.adjustments \cup {e.key} /\ adj[e.key] = e
           /\ \A k \in DOMAIN sum.adjustments : k # e.key => adj[k] = sum.adjustments[k]
      /\ ~(e.kind = "adjustment" /\ e.key # "none") => adj = sum.adjustments
  OBVIOUS
<1> HIDE DEF given, taken, adj, g, u
<1>8. \A c \in CardIds : /\ given[c] = sum.given[c] + GivenBy(c)[e]
                         /\ taken[c] = sum.taken[c] + TakenBy(c)[e]
  BY <1>1, <1>4, <1>5
<1>9. Include(sum, e) \in SummaryType
  BY <1>3, <1>4, <1>6 DEF SummaryType
<1>10. /\ Include(sum, e).given = given /\ Include(sum, e).taken = taken
       /\ Include(sum, e).adjustments = adj
  BY <1>3
<1> QED
  BY <1>7, <1>8, <1>9, <1>10

Including == [p \in SummaryType \X Booked |-> Include(p[1], p[2])]

IncludePeels(g, b, s) ==
  g = [t \in SUBSET DOMAIN s |->
         IF t = {} THEN b ELSE Include(g[t \ {Max(t)}], s[Max(t)])]

\* Entries are included one after another.
LEMMA IncludeIsFold ==
  ASSUME NEW b \in SummaryType, NEW s \in Seq(Booked)
  PROVE  FoldLeft(Include, b, s) = Folded(Including, b, s)
<1> DEFINE h == CHOOSE g : IncludePeels(g, b, s)
<1>1. FoldLeft(Include, b, s) = h[DOMAIN s]
  BY DEF FoldLeft, MapThenFoldSet, IncludePeels
<1>2. /\ Including \in [SummaryType \X Booked -> SummaryType]
      /\ \A a \in SummaryType, e \in Booked : Including[<<a, e>>] = Include(a, e)
  BY IncludeFacts DEF Including
<1>3. DOMAIN s = 1 .. Len(s) /\ Len(s) \in Nat /\ \A i \in 1 .. Len(s) : s[i] \in Booked
  OBVIOUS
<1>4. \E g : IncludePeels(g, b, s)
  <2>1. PICK g \in [SUBSET (1 .. Len(s)) -> SummaryType] : PeelsLast(g, Including, b, s)
    BY <1>2, PeelingExists
  <2>2. ASSUME NEW t \in SUBSET (1 .. Len(s))
        PROVE  g[t] = IF t = {} THEN b ELSE Include(g[t \ {Max(t)}], s[Max(t)])
    <3>1. CASE t = {}
      BY <2>1, <3>1 DEF PeelsLast
    <3>2. CASE t # {}
      <4>1. Max(t) \in 1 .. Len(s)
        BY <1>3, <3>2, LastOfSet
      <4>2. g[t] = Including[<<g[t \ {Max(t)}], s[Max(t)]>>]
        BY <2>1, <3>2 DEF PeelsLast
      <4>3. g[t \ {Max(t)}] \in SummaryType /\ s[Max(t)] \in Booked
        BY <1>3, <4>1
      <4> QED
        BY <1>2, <3>2, <4>2, <4>3
    <3> QED
      BY <3>1, <3>2
  <2> QED
    BY <1>3, <2>2 DEF IncludePeels
<1>5. IncludePeels(h, b, s)
  BY <1>4
<1> HIDE DEF h
<1>6. h[{}] = b
  BY <1>3, <1>5 DEF IncludePeels
<1>7. ASSUME NEW t \in SUBSET (1 .. Len(s)), t # {}, h[t \ {Max(t)}] \in SummaryType
      PROVE  h[t] = Including[<<h[t \ {Max(t)}], s[Max(t)]>>]
  <2>1. s[Max(t)] \in Booked
    BY <1>3, <1>7, LastOfSet
  <2>2. h[t] = Include(h[t \ {Max(t)}], s[Max(t)])
    BY <1>3, <1>5, <1>7 DEF IncludePeels
  <2> QED
    BY <1>2, <1>7, <2>1, <2>2
<1>8. PeelsWithin(h, Including, b, s, SummaryType, Booked)
  BY <1>6, <1>7 DEF PeelsWithin
<1>9. EndsAs(h, Including, b, s)
  BY <1>2, <1>8, PeelingIsFold
<1> QED
  BY <1>1, <1>3, <1>9 DEF EndsAs

\* Nothing archived.
LEMMA NoSummaryTyped == NoSummary \in SummaryType /\ DOMAIN NoSummary.adjustments = {}
<1>1. <<>> \in [{} -> Booked]
  OBVIOUS
<1>2. <<>> \in Adjusted
  BY <1>1 DEF Adjusted
<1> QED
  BY <1>2 DEF NoSummary, SummaryType

\* The summary of s is its sums, and has its adjustments by key.
Summarises(sum, s) ==
  /\ sum \in SummaryType
  /\ \A c \in CardIds : sum.given[c] = GivenIn(s, c) /\ sum.taken[c] = TakenIn(s, c)
  /\ \A i \in DOMAIN s :
       s[i].kind = "adjustment" /\ s[i].key # "none" => s[i].key \in DOMAIN sum.adjustments
  /\ \A k \in DOMAIN sum.adjustments :
       \E i \in DOMAIN s : /\ s[i] = sum.adjustments[k]
                           /\ s[i].kind = "adjustment" /\ s[i].key = k

\* A sum with one more entry.
LEMMA SumsAppend ==
  ASSUME NEW s \in Seq(Booked), NEW e \in Booked
  PROVE  /\ \A c \in CardIds :
              /\ GivenIn(s, c) \in Int /\ GivenIn(<<>>, c) = 0
              /\ GivenIn(Append(s, e), c) = GivenIn(s, c) + GivenBy(c)[e]
              /\ TakenIn(s, c) \in Int /\ TakenIn(<<>>, c) = 0
              /\ TakenIn(Append(s, e), c) = TakenIn(s, c) + TakenBy(c)[e]
         /\ MadeIn(s) \in Int /\ MadeIn(<<>>) = 0 /\ MadeIn(Append(s, e)) = MadeIn(s) + MadeBy[e]
<1>1. Append(s, e) \in Seq(Booked) /\ <<>> \in Seq(Booked)
  OBVIOUS
<1>2. ASSUME NEW c \in CardIds
      PROVE  /\ GivenIn(s, c) \in Int /\ GivenIn(<<>>, c) = 0
             /\ GivenIn(Append(s, e), c) = GivenIn(s, c) + GivenBy(c)[e]
  <2>1. AddsUp(GivenBy(c), Booked)
    BY WeightsTyped, TallyFacts
  <2>2. \A r \in Seq(Booked) : GivenIn(r, c) = Tally(GivenBy(c), Booked, r)
    BY GivenIsTally
  <2> QED
    BY <1>1, <2>1, <2>2 DEF AddsUp
<1>3. ASSUME NEW c \in CardIds
      PROVE  /\ TakenIn(s, c) \in Int /\ TakenIn(<<>>, c) = 0
             /\ TakenIn(Append(s, e), c) = TakenIn(s, c) + TakenBy(c)[e]
  <2>1. AddsUp(TakenBy(c), Booked)
    BY WeightsTyped, TallyFacts
  <2>2. \A r \in Seq(Booked) : TakenIn(r, c) = Tally(TakenBy(c), Booked, r)
    BY TakenIsTally
  <2> QED
    BY <1>1, <2>1, <2>2 DEF AddsUp
<1>4. MadeIn(s) \in Int /\ MadeIn(<<>>) = 0 /\ MadeIn(Append(s, e)) = MadeIn(s) + MadeBy[e]
  <2>1. AddsUp(MadeBy, Booked)
    BY WeightsTyped, TallyFacts
  <2>2. \A r \in Seq(Booked) : MadeIn(r) = Tally(MadeBy, Booked, r)
    BY MadeIsTally
  <2> QED
    BY <1>1, <2>1, <2>2 DEF AddsUp
<1> QED
  BY <1>2, <1>3, <1>4

\* Sums of two parts.
LEMMA SumsJoin ==
  ASSUME NEW s \in Seq(Booked), NEW r \in Seq(Booked), NEW c \in CardIds
  PROVE  /\ GivenIn(s \o r, c) = GivenIn(s, c) + GivenIn(r, c)
         /\ TakenIn(s \o r, c) = TakenIn(s, c) + TakenIn(r, c)
<1>1. s \o r \in Seq(Booked)
  OBVIOUS
<1>2. AddsUp(GivenBy(c), Booked) /\ AddsUp(TakenBy(c), Booked)
  BY WeightsTyped, TallyFacts
<1>3. \A q \in Seq(Booked) : GivenIn(q, c) = Tally(GivenBy(c), Booked, q)
  BY GivenIsTally
<1>4. \A q \in Seq(Booked) : TakenIn(q, c) = Tally(TakenBy(c), Booked, q)
  BY TakenIsTally
<1>5. GivenIn(s \o r, c) = GivenIn(s, c) + GivenIn(r, c)
  BY <1>1, <1>2, <1>3 DEF AddsUp
<1>6. TakenIn(s \o r, c) = TakenIn(s, c) + TakenIn(r, c)
  BY <1>1, <1>2, <1>4 DEF AddsUp
<1> QED
  BY <1>5, <1>6

\* Every summary summarises.
LEMMA SummaryFacts == \A s \in Seq(Booked) : Summarises(SummaryOf(s), s)
<1> DEFINE Good == {s \in Seq(Booked) : Summarises(SummaryOf(s), s)}
<1>1. /\ NoSummary \in SummaryType /\ Including \in [SummaryType \X Booked -> SummaryType]
      /\ \A a \in SummaryType, e \in Booked : Including[<<a, e>>] = Include(a, e)
      /\ \A s \in Seq(Booked) : SummaryOf(s) = Folded(Including, NoSummary, s)
  BY NoSummaryTyped, IncludeFacts, IncludeIsFold DEF Including, SummaryOf
<1>2. FoldsStep(Including, NoSummary, SummaryType, Booked)
  BY <1>1, FoldedFacts
<1>3. <<>> \in Good
  <2>1. SummaryOf(<<>>) = NoSummary /\ <<>> \in Seq(Booked)
    <3>1. <<>> \in Seq(Booked)
      OBVIOUS
    <3> QED
      BY <1>1, <1>2, <3>1 DEF FoldsStep
  <2>2. \A c \in CardIds : GivenIn(<<>>, c) = 0 /\ TakenIn(<<>>, c) = 0
    <3> SUFFICES ASSUME NEW c \in CardIds PROVE GivenIn(<<>>, c) = 0 /\ TakenIn(<<>>, c) = 0
      OBVIOUS
    <3>1. GivenIn(<<>>, c) = Tally(GivenBy(c), Booked, <<>>)
      BY <2>1, GivenIsTally
    <3>2. TakenIn(<<>>, c) = Tally(TakenBy(c), Booked, <<>>)
      BY <2>1, TakenIsTally
    <3> QED
      BY <3>1, <3>2, WeightsTyped, TallyFacts DEF AddsUp
  <2>3. \A c \in CardIds : NoSummary.given[c] = 0 /\ NoSummary.taken[c] = 0
    BY DEF NoSummary
  <2> QED
    BY <2>1, <2>2, <2>3, NoSummaryTyped DEF Summarises
<1>4. ASSUME NEW s \in Good, NEW e \in Booked PROVE Append(s, e) \in Good
  <2> DEFINE r == Append(s, e)  sum == SummaryOf(s)  new == SummaryOf(r)
  <2>1. /\ s \in Seq(Booked) /\ r \in Seq(Booked) /\ Len(s) \in Nat
        /\ DOMAIN s = 1 .. Len(s) /\ DOMAIN r = 1 .. Len(s) + 1
        /\ r[Len(s) + 1] = e /\ \A i \in DOMAIN s : r[i] = s[i]
    OBVIOUS
  <2>2. Summarises(sum, s)
    OBVIOUS
  <2>3. new = Include(sum, e)
    <3>1. sum \in SummaryType
      BY <2>2 DEF Summarises
    <3>2. new = Including[<<sum, e>>]
      BY <1>1, <1>2, <2>1 DEF FoldsStep
    <3> HIDE DEF sum, new
    <3> QED
      BY <1>1, <3>1, <3>2
  <2> HIDE DEF sum, new
  <2>4. sum \in SummaryType
    BY <2>2 DEF Summarises
  <2>5. new \in SummaryType
    BY <2>3, <2>4, IncludeFacts
  <2>6. ASSUME NEW c \in CardIds
        PROVE  new.given[c] = GivenIn(r, c) /\ new.taken[c] = TakenIn(r, c)
    <3>1. new.given[c] = sum.given[c] + GivenBy(c)[e] /\ new.taken[c] = sum.taken[c] + TakenBy(c)[e]
      BY <2>3, <2>4, IncludeFacts
    <3>2. sum.given[c] = GivenIn(s, c) /\ sum.taken[c] = TakenIn(s, c)
      BY <2>2 DEF Summarises
    <3> QED
      BY <2>1, <3>1, <3>2, SumsAppend
  <2> HIDE DEF r
  <2>7. /\ \A i \in DOMAIN r : r[i].kind = "adjustment" /\ r[i].key # "none"
                                 => r[i].key \in DOMAIN new.adjustments
        /\ \A k \in DOMAIN new.adjustments :
             \E i \in DOMAIN r : /\ r[i] = new.adjustments[k]
                                 /\ r[i].kind = "adjustment" /\ r[i].key = k
    <3> DEFINE n == Len(s) + 1
    <3>1. /\ \A i \in DOMAIN s : s[i].kind = "adjustment" /\ s[i].key # "none"
                                   => s[i].key \in DOMAIN sum.adjustments
          /\ \A k \in DOMAIN sum.adjustments :
               \E i \in DOMAIN s : /\ s[i] = sum.adjustments[k]
                                   /\ s[i].kind = "adjustment" /\ s[i].key = k
      BY <2>2 DEF Summarises
    <3>2. n \in DOMAIN r /\ r[n] = e /\ \A i \in DOMAIN r : i = n \/ i \in DOMAIN s
      BY <2>1
    <3>3. DOMAIN s \subseteq DOMAIN r
      BY <2>1
    <3> HIDE DEF n
    <3>4. CASE e.kind = "adjustment" /\ e.key # "none"
      <4>1. /\ DOMAIN new.adjustments = DOMAIN sum.adjustments \cup {e.key}
            /\ new.adjustments[e.key] = e
            /\ \A k \in DOMAIN sum.adjustments :
                 k # e.key => new.adjustments[k] = sum.adjustments[k]
        BY <2>3, <2>4, <3>4, IncludeFacts
      <4> QED
        BY <2>1, <3>1, <3>2, <3>3, <3>4, <4>1
    <3>5. CASE ~(e.kind = "adjustment" /\ e.key # "none")
      <4>1. new.adjustments = sum.adjustments
        BY <2>3, <2>4, <3>5, IncludeFacts
      <4> QED
        BY <2>1, <3>1, <3>2, <3>3, <3>5, <4>1
    <3> QED
      BY <3>4, <3>5
  <2>8. Summarises(new, r)
    BY <2>5, <2>6, <2>7 DEF Summarises
  <2> QED
    BY <2>1, <2>8 DEF new, r
<1>5. Good \in SUBSET Seq(Booked)
  OBVIOUS
<1> HIDE DEF Good
<1>6. Good = Seq(Booked)
  BY <1>3, <1>4, <1>5, SequenceInduction DEF GrowsByOne
<1> QED
  BY <1>6 DEF Good

\* More archived, or all of it again.
LEMMA SummaryJoins ==
  ASSUME NEW a \in Seq(Booked), NEW d \in Seq(Booked)
  PROVE  FoldLeft(Include, SummaryOf(a), d) = SummaryOf(a \o d)
<1>1. /\ NoSummary \in SummaryType /\ Including \in [SummaryType \X Booked -> SummaryType]
      /\ a \o d \in Seq(Booked)
  BY NoSummaryTyped, IncludeFacts DEF Including
<1>2. SummaryOf(a) \in SummaryType
  BY SummaryFacts DEF Summarises
<1>3. FoldLeft(Include, SummaryOf(a), d) = Folded(Including, SummaryOf(a), d)
  BY <1>2, IncludeIsFold
<1>4. /\ SummaryOf(a) = Folded(Including, NoSummary, a)
      /\ SummaryOf(a \o d) = Folded(Including, NoSummary, a \o d)
  BY <1>1, IncludeIsFold DEF SummaryOf
<1>5. FoldsJoin(Including, NoSummary, a, Booked)
  BY <1>1, FoldedConcat
<1> QED
  BY <1>3, <1>4, <1>5 DEF FoldsJoin

-----------------------------------------------------------------------------
\* What the cards have left, and what the codes used were worth.

LeftBy(b) == [c \in DOMAIN b.cards |-> b.cards[c].total - b.cards[c].used]

LeftOf(b) == MapThenSumSet(LAMBDA c : b.cards[c].total - b.cards[c].used, DOMAIN b.cards)

LeftAdds(g, b, S) ==
  g = [s \in SUBSET S |->
         IF s = {} THEN 0
         ELSE b.cards[CHOOSE x \in s : TRUE].total - b.cards[CHOOSE x \in s : TRUE].used
                + g[s \ {CHOOSE x \in s : TRUE}]]

\* What is left is a sum over the cards.
LEMMA LeftIsSum ==
  ASSUME NEW b, IsFiniteSet(DOMAIN b.cards)
  PROVE  LeftOf(b) = SumOver(LeftBy(b), DOMAIN b.cards)
<1> DEFINE S == DOMAIN b.cards
           w == LeftBy(b)
           h == CHOOSE g : LeftAdds(g, b, S)
<1>1. LeftOf(b) = h[S]
  BY DEF LeftOf, MapThenSumSet, MapThenFoldSet, LeftAdds
<1>2. Adds(RunningSum(w, S), w, S)
  BY RunningExists
<1>3. \A g : LeftAdds(g, b, S) <=> Adds(g, w, S)
  <2> TAKE g
  <2>1. \A s \in SUBSET S : s # {} =>
          b.cards[CHOOSE x \in s : TRUE].total - b.cards[CHOOSE x \in s : TRUE].used
            = w[CHOOSE x \in s : TRUE]
    BY DEF LeftBy
  <2> HIDE DEF w, S
  <2>2. [s \in SUBSET S |->
           IF s = {} THEN 0
           ELSE b.cards[CHOOSE x \in s : TRUE].total - b.cards[CHOOSE x \in s : TRUE].used
                  + g[s \ {CHOOSE x \in s : TRUE}]]
        = [s \in SUBSET S |->
             IF s = {} THEN 0
             ELSE w[CHOOSE x \in s : TRUE] + g[s \ {CHOOSE x \in s : TRUE}]]
    BY <2>1
  <2> QED
    BY <2>2, Zenon DEF LeftAdds, Adds
<1> HIDE DEF w
<1>4. LeftAdds(h, b, S)
  BY <1>2, <1>3
<1> HIDE DEF h
<1>5. Adds(h, w, S) /\ S \subseteq S /\ S \in SUBSET S /\ \A x \in S : w[x] = w[x]
  BY <1>3, <1>4
<1>6. \A s \in SUBSET S : h[s] = RunningSum(w, S)[s]
  BY <1>2, <1>5, RunningUnique
<1> QED
  BY <1>1, <1>5, <1>6 DEF SumOver, w

WorthOf(codes) == MapThenSumSet(LAMBDA t : Worth[t], codes)

\* What codes were worth is the sum of their worth.
LEMMA WorthIsSum ==
  ASSUME NEW codes, IsFiniteSet(codes)
  PROVE  WorthOf(codes) = SumOver(Worth, codes)
BY DEF WorthOf, MapThenSumSet, MapThenFoldSet, SumOver, RunningSum, Adds

-----------------------------------------------------------------------------
\* What the books are between any two operations.

CardTables == UNION {[D -> CardType] : D \in SUBSET CardIds}
OrderTables == UNION {[D -> CardIds] : D \in SUBSET Orders}

BooksType ==
  [cards : CardTables, codes : SUBSET TopupCodes, ledger : Seq(Booked), archives : Seq(Booked),
   summary : SummaryType, orders : OrderTables]

Shape(b) ==
  /\ b \in BooksType
  /\ IsFiniteSet(DOMAIN b.cards) /\ IsFiniteSet(b.codes)
  /\ Range(b.orders) \subseteq DOMAIN b.cards
  /\ \A c \in DOMAIN b.cards : b.cards[c].status = "frozen" => b.cards[c].frozenFrom # "none"

AllOf(b) == b.archives \o b.ledger

\* A key is used once, and for an adjustment.
KeyedOnce(b) ==
  /\ \A i \in DOMAIN AllOf(b) : AllOf(b)[i].key \in Keys => AllOf(b)[i].kind = "adjustment"
  /\ \A i, j \in DOMAIN AllOf(b) :
       AllOf(b)[i].key \in Keys /\ AllOf(b)[j].key = AllOf(b)[i].key => i = j

\* A card is what its entries say; one not sold has none.
Reconciled(b) ==
  \A c \in CardIds :
    /\ GivenIn(AllOf(b), c) = IF c \in DOMAIN b.cards THEN b.cards[c].total - IssuedCredits ELSE 0
    /\ TakenIn(AllOf(b), c) = IF c \in DOMAIN b.cards THEN b.cards[c].used ELSE 0

\* Over all cards there is left what was issued, topped up and made, less what was charged.
LeftStands(b) ==
  LeftOf(b) = IssuedCredits * Cardinality(DOMAIN b.cards) + WorthOf(b.codes) + MadeIn(AllOf(b))

BooksStand(b) ==
  /\ Shape(b) /\ b.summary = SummaryOf(b.archives)
  /\ KeyedOnce(b) /\ Reconciled(b)

\* The parts of the books.
LEMMA ShapeFacts ==
  ASSUME NEW b, Shape(b)
  PROVE  /\ b.cards \in [DOMAIN b.cards -> CardType] /\ DOMAIN b.cards \subseteq CardIds
         /\ b.codes \in SUBSET TopupCodes /\ b.summary \in SummaryType
         /\ b.ledger \in Seq(Booked) /\ b.archives \in Seq(Booked) /\ AllOf(b) \in Seq(Booked)
         /\ b.orders \in [DOMAIN b.orders -> CardIds] /\ DOMAIN b.orders \subseteq Orders
         /\ b = [cards |-> b.cards, codes |-> b.codes, ledger |-> b.ledger,
                 archives |-> b.archives, summary |-> b.summary, orders |-> b.orders]
         /\ \A c \in DOMAIN b.cards : /\ b.cards[c] \in CardType
                                      /\ b.cards[c].total \in Nat /\ b.cards[c].used \in Nat
<1>1. /\ b.cards \in CardTables /\ b.orders \in OrderTables
      /\ b.codes \in SUBSET TopupCodes /\ b.summary \in SummaryType
      /\ b.ledger \in Seq(Booked) /\ b.archives \in Seq(Booked)
      /\ b = [cards |-> b.cards, codes |-> b.codes, ledger |-> b.ledger,
              archives |-> b.archives, summary |-> b.summary, orders |-> b.orders]
  BY DEF Shape, BooksType
<1>2. b.cards \in [DOMAIN b.cards -> CardType] /\ DOMAIN b.cards \subseteq CardIds
  BY <1>1 DEF CardTables
<1>3. b.orders \in [DOMAIN b.orders -> CardIds] /\ DOMAIN b.orders \subseteq Orders
  BY <1>1 DEF OrderTables
<1>4. AllOf(b) \in Seq(Booked)
  BY <1>1 DEF AllOf
<1>5. \A c \in DOMAIN b.cards : /\ b.cards[c] \in CardType
                                /\ b.cards[c].total \in Nat /\ b.cards[c].used \in Nat
  BY <1>2 DEF CardType
<1> QED
  BY <1>1, <1>2, <1>3, <1>4, <1>5

\* Where an entry is.
LEMMA AllFacts ==
  ASSUME NEW b, Shape(b)
  PROVE  /\ \A i \in DOMAIN AllOf(b) :
              \/ \E j \in DOMAIN b.archives : AllOf(b)[i] = b.archives[j]
              \/ \E j \in DOMAIN b.ledger : AllOf(b)[i] = b.ledger[j]
         /\ \A j \in DOMAIN b.archives : \E i \in DOMAIN AllOf(b) : AllOf(b)[i] = b.archives[j]
         /\ \A j \in DOMAIN b.ledger : \E i \in DOMAIN AllOf(b) : AllOf(b)[i] = b.ledger[j]
<1> DEFINE a == b.archives  l == b.ledger  s == a \o l
<1>1. /\ a \in Seq(Booked) /\ l \in Seq(Booked) /\ Len(a) \in Nat /\ Len(l) \in Nat
      /\ DOMAIN a = 1 .. Len(a) /\ DOMAIN l = 1 .. Len(l) /\ AllOf(b) = s
  BY ShapeFacts DEF AllOf
<1> HIDE DEF a, l
<1>2. /\ DOMAIN s = 1 .. Len(a) + Len(l)
      /\ \A i \in 1 .. Len(a) : s[i] = a[i]
      /\ \A i \in 1 .. Len(l) : s[Len(a) + i] = l[i]
  BY <1>1
<1> HIDE DEF s
<1>3. ASSUME NEW i \in DOMAIN s
      PROVE  (\E j \in DOMAIN a : s[i] = a[j]) \/ (\E j \in DOMAIN l : s[i] = l[j])
  <2>1. CASE i \in 1 .. Len(a)
    BY <1>1, <1>2, <2>1
  <2>2. CASE i \notin 1 .. Len(a)
    <3>1. i - Len(a) \in 1 .. Len(l) /\ Len(a) + (i - Len(a)) = i
      BY <1>1, <1>2, <2>2
    <3>2. s[i] = l[i - Len(a)]
      BY <1>2, <3>1
    <3> QED
      BY <1>1, <3>1, <3>2
  <2> QED
    BY <2>1, <2>2
<1>4. ASSUME NEW j \in DOMAIN a PROVE \E i \in DOMAIN s : s[i] = a[j]
  BY <1>1, <1>2
<1>5. ASSUME NEW j \in DOMAIN l PROVE \E i \in DOMAIN s : s[i] = l[j]
  <2>1. Len(a) + j \in DOMAIN s
    BY <1>1, <1>2
  <2> QED
    BY <1>1, <1>2, <2>1
<1> QED
  BY <1>1, <1>3, <1>4, <1>5 DEF a, l

\* A key that was not used has no entry, live or archived.
LEMMA UnusedKey ==
  ASSUME NEW b, BooksStand(b), NEW key \in Keys, UsedFor(b, key) = {}
  PROVE  \A i \in DOMAIN AllOf(b) : AllOf(b)[i].key # key
<1> SUFFICES ASSUME NEW i \in DOMAIN AllOf(b), AllOf(b)[i].key = key PROVE FALSE
  OBVIOUS
<1> DEFINE e == AllOf(b)[i]
<1>1. e.kind = "adjustment" /\ e.key = key /\ key # "none"
  BY KeysApart DEF BooksStand, KeyedOnce
<1> HIDE DEF e
<1>2. Shape(b) /\ b.summary = SummaryOf(b.archives)
  BY DEF BooksStand
<1>3. CASE \E j \in DOMAIN b.ledger : e = b.ledger[j]
  <2>1. e \in Range(b.ledger)
    BY <1>3 DEF Range
  <2> QED
    BY <1>1, <2>1 DEF UsedFor
<1>4. CASE \E j \in DOMAIN b.archives : e = b.archives[j]
  <2>1. key \in DOMAIN b.summary.adjustments
    BY <1>1, <1>2, <1>4, ShapeFacts, SummaryFacts DEF Summarises
  <2> QED
    BY <2>1 DEF UsedFor
<1> QED
  BY <1>2, <1>3, <1>4, AllFacts DEF e

-----------------------------------------------------------------------------
\* What keeps the books standing.

Stands(b) == BooksStand(b) /\ LeftStands(b)

\* One more entry in the ledger, and its card changed by what it says.
Follows(b, b2, e) ==
  /\ b2.archives = b.archives /\ b2.summary = b.summary /\ b2.ledger = Append(b.ledger, e)
  /\ DOMAIN b2.cards = DOMAIN b.cards /\ e.card \in DOMAIN b.cards
  /\ \A c \in DOMAIN b.cards : /\ b2.cards[c].total = b.cards[c].total + GivenBy(c)[e]
                               /\ b2.cards[c].used = b.cards[c].used + TakenBy(c)[e]

\* The entry comes last.
LEMMA LastEntry ==
  ASSUME NEW b, NEW b2, NEW e \in Booked, Shape(b), Follows(b, b2, e)
  PROVE  AllOf(b2) = Append(AllOf(b), e)
<1> DEFINE a == b.archives  l == b.ledger
<1>1. a \in Seq(Booked) /\ l \in Seq(Booked)
  BY ShapeFacts
<1>2. AllOf(b) = a \o l /\ AllOf(b2) = a \o Append(l, e)
  BY DEF AllOf, Follows
<1> HIDE DEF a, l
<1> QED
  BY <1>1, <1>2

\* A key stays used once.
LEMMA KeysStay ==
  ASSUME NEW b, NEW b2, NEW e \in Booked, BooksStand(b), Follows(b, b2, e),
         e.key \in Keys => e.kind = "adjustment" /\ UsedFor(b, e.key) = {}
  PROVE  KeyedOnce(b2)
<1> DEFINE s == AllOf(b)  r == AllOf(b2)
<1>1. r = Append(s, e) /\ s \in Seq(Booked) /\ KeyedOnce(b)
  BY LastEntry, ShapeFacts DEF BooksStand
<1>2. e.key \in Keys => \A i \in DOMAIN s : s[i].key # e.key
  BY UnusedKey
<1>3. /\ \A i \in DOMAIN s : s[i].key \in Keys => s[i].kind = "adjustment"
      /\ \A i, j \in DOMAIN s : s[i].key \in Keys /\ s[j].key = s[i].key => i = j
  BY <1>1 DEF KeyedOnce
<1> HIDE DEF s, r
<1> DEFINE n == Len(s) + 1
<1>4. /\ DOMAIN r = DOMAIN s \cup {n} /\ r[n] = e
      /\ \A i \in DOMAIN s : r[i] = s[i] /\ i # n
  BY <1>1
<1> HIDE DEF n
<1>5. \A i \in DOMAIN r : r[i].key \in Keys => r[i].kind = "adjustment"
  BY <1>3, <1>4
<1>6. \A i, j \in DOMAIN r : r[i].key \in Keys /\ r[j].key = r[i].key => i = j
  BY <1>2, <1>3, <1>4
<1> QED
  BY <1>5, <1>6 DEF KeyedOnce, r

\* Cards stay what their entries say.
LEMMA ReconciledStays ==
  ASSUME NEW b, NEW b2, NEW e \in Booked, BooksStand(b), Follows(b, b2, e), Shape(b2)
  PROVE  Reconciled(b2)
<1>1. AllOf(b2) = Append(AllOf(b), e) /\ AllOf(b) \in Seq(Booked)
  BY LastEntry, ShapeFacts DEF BooksStand
<1> SUFFICES ASSUME NEW c \in CardIds
             PROVE  /\ GivenIn(AllOf(b2), c)
                         = IF c \in DOMAIN b2.cards THEN b2.cards[c].total - IssuedCredits ELSE 0
                    /\ TakenIn(AllOf(b2), c) = IF c \in DOMAIN b2.cards THEN b2.cards[c].used ELSE 0
  BY DEF Reconciled
<1>2. /\ GivenIn(AllOf(b2), c) = GivenIn(AllOf(b), c) + GivenBy(c)[e]
      /\ TakenIn(AllOf(b2), c) = TakenIn(AllOf(b), c) + TakenBy(c)[e]
  BY <1>1, SumsAppend
<1>3. /\ GivenIn(AllOf(b), c)
           = IF c \in DOMAIN b.cards THEN b.cards[c].total - IssuedCredits ELSE 0
      /\ TakenIn(AllOf(b), c) = IF c \in DOMAIN b.cards THEN b.cards[c].used ELSE 0
  BY DEF BooksStand, Reconciled
<1>4. GivenBy(c)[e] \in Int /\ TakenBy(c)[e] \in Int /\ IssuedCredits \in Int
  BY WeightsTyped, SomethingIsSold
<1>5. CASE c \in DOMAIN b.cards
  <2>1. /\ b2.cards[c].total = b.cards[c].total + GivenBy(c)[e]
        /\ b2.cards[c].used = b.cards[c].used + TakenBy(c)[e]
        /\ c \in DOMAIN b2.cards
    BY <1>5 DEF Follows
  <2>2. b.cards[c].total \in Int /\ b.cards[c].used \in Int
    BY <1>5, ShapeFacts DEF BooksStand
  <2> QED
    BY <1>2, <1>3, <1>4, <1>5, <2>1, <2>2
<1>6. CASE c \notin DOMAIN b.cards
  <2>1. c \notin DOMAIN b2.cards /\ e.card # c
    BY <1>6 DEF Follows
  <2>2. GivenBy(c)[e] = 0 /\ TakenBy(c)[e] = 0
    BY <2>1 DEF GivenBy, TakenBy
  <2> QED
    BY <1>2, <1>3, <1>6, <2>1, <2>2
<1> QED
  BY <1>5, <1>6

\* What is left changes by what the entry gives and takes.
LEMMA LeftChanges ==
  ASSUME NEW b, NEW b2, NEW e \in Booked, Shape(b), Shape(b2), Follows(b, b2, e)
  PROVE  /\ LeftOf(b) \in Int
         /\ LeftOf(b2) = LeftOf(b) + GivenBy(e.card)[e] - TakenBy(e.card)[e]
<1> DEFINE S == DOMAIN b.cards  f == LeftBy(b)  g == LeftBy(b2)  x == e.card
<1>1. /\ IsFiniteSet(S) /\ DOMAIN b2.cards = S /\ x \in S
      /\ \A c \in S : b.cards[c].total \in Int /\ b.cards[c].used \in Int
      /\ \A c \in S : b2.cards[c].total \in Int /\ b2.cards[c].used \in Int
      /\ S \subseteq CardIds
  <2>1. \A c \in S : b.cards[c].total \in Int /\ b.cards[c].used \in Int
    BY ShapeFacts
  <2>2. DOMAIN b2.cards = S /\ x \in S
    BY DEF Follows
  <2>3. \A c \in S : b2.cards[c].total \in Int /\ b2.cards[c].used \in Int
    BY <2>2, ShapeFacts
  <2>4. IsFiniteSet(S) /\ S \subseteq CardIds
    BY ShapeFacts DEF Shape
  <2> QED
    BY <2>1, <2>2, <2>3, <2>4
<1>2. LeftOf(b) = SumOver(f, S) /\ LeftOf(b2) = SumOver(g, S)
  BY <1>1, LeftIsSum
<1>3. \A c \in S : /\ f[c] = b.cards[c].total - b.cards[c].used
                   /\ g[c] = b2.cards[c].total - b2.cards[c].used
  BY <1>1 DEF LeftBy
<1>4. \A c \in S : /\ b2.cards[c].total = b.cards[c].total + GivenBy(c)[e]
                   /\ b2.cards[c].used = b.cards[c].used + TakenBy(c)[e]
  BY DEF Follows
<1>5. \A c \in S : c # x => GivenBy(c)[e] = 0 /\ TakenBy(c)[e] = 0
  BY DEF GivenBy, TakenBy
<1>6. GivenBy(x)[e] \in Int /\ TakenBy(x)[e] \in Int
  BY <1>1, WeightsTyped
<1> HIDE DEF f, g, S, x
<1>7. Weighted(f, S) /\ Weighted(g, S) /\ \A c \in S : c # x => g[c] = f[c]
  BY <1>1, <1>3, <1>4, <1>5 DEF Weighted
<1>8. SumOver(g, S) = SumOver(f, S) - f[x] + g[x]
  BY <1>1, <1>7, SumChanges DEF OneChanged
<1>9. SumOver(f, S) \in Int
  BY <1>7, SumFacts DEF SumLaws
<1>10. g[x] = f[x] + GivenBy(x)[e] - TakenBy(x)[e] /\ f[x] \in Int
  BY <1>1, <1>3, <1>4, <1>6
<1>11. LeftOf(b2) = LeftOf(b) + GivenBy(x)[e] - TakenBy(x)[e]
  BY <1>2, <1>6, <1>8, <1>9, <1>10
<1> QED
  BY <1>2, <1>9, <1>11 DEF x

\* One more entry leaves the books standing, but for what is left and made.
LEMMA OneMore ==
  ASSUME NEW b, NEW b2, NEW e \in Booked, BooksStand(b), Shape(b2), Follows(b, b2, e),
         e.key \in Keys => e.kind = "adjustment" /\ UsedFor(b, e.key) = {}
  PROVE  /\ BooksStand(b2)
         /\ MadeIn(AllOf(b)) \in Int
         /\ MadeIn(AllOf(b2)) = MadeIn(AllOf(b)) + MadeBy[e]
<1>1. AllOf(b2) = Append(AllOf(b), e) /\ AllOf(b) \in Seq(Booked)
  BY LastEntry, ShapeFacts DEF BooksStand
<1>2. b2.summary = SummaryOf(b2.archives)
  BY DEF Follows, BooksStand
<1>3. KeyedOnce(b2) /\ Reconciled(b2)
  BY KeysStay, ReconciledStays
<1>4. MadeIn(AllOf(b)) \in Int /\ MadeIn(AllOf(b2)) = MadeIn(AllOf(b)) + MadeBy[e]
  BY <1>1, SumsAppend
<1> QED
  BY <1>2, <1>3, <1>4 DEF BooksStand

\* The worth of codes, with none or one more used.
LEMMA CodesFacts ==
  ASSUME NEW codes \in SUBSET TopupCodes, IsFiniteSet(codes)
  PROVE  /\ WorthOf(codes) \in Int
         /\ \A t \in TopupCodes \ codes :
              /\ IsFiniteSet(codes \cup {t})
              /\ WorthOf(codes \cup {t}) = WorthOf(codes) + Worth[t]
<1>1. \A t \in TopupCodes : Worth[t] \in Int
  BY SomethingIsSold
<1>2. Weighted(Worth, codes)
  BY <1>1 DEF Weighted
<1>3. WorthOf(codes) = SumOver(Worth, codes) /\ SumOver(Worth, codes) \in Int
  BY <1>2, WorthIsSum, SumFacts DEF SumLaws
<1>4. ASSUME NEW t \in TopupCodes \ codes
      PROVE  /\ IsFiniteSet(codes \cup {t})
             /\ WorthOf(codes \cup {t}) = WorthOf(codes) + Worth[t]
  <2>1. IsFiniteSet(codes \cup {t})
    BY FS_AddElement
  <2>2. Weighted(Worth, codes \cup {t})
    BY <1>1, <2>1 DEF Weighted
  <2>3. SumOver(Worth, codes \cup {t}) = SumOver(Worth, codes) + Worth[t]
    <3>1. OneAdded(Worth, Worth, codes, t)
      BY SumWithOne
    <3> QED
      BY <1>2, <2>2, <3>1 DEF OneAdded
  <2>4. WorthOf(codes \cup {t}) = SumOver(Worth, codes \cup {t})
    BY <2>1, WorthIsSum
  <2> QED
    BY <1>3, <2>1, <2>3, <2>4
<1> QED
  BY <1>3, <1>4

\* An entry that is made under a key, charged, or worth the code it uses.
LEMMA EntryStands ==
  ASSUME NEW b, NEW b2, NEW e \in Booked, Stands(b), Shape(b2), Follows(b, b2, e),
         e.key \in Keys => e.kind = "adjustment" /\ UsedFor(b, e.key) = {},
         NEW x \in Int, WorthOf(b2.codes) = WorthOf(b.codes) + x,
         GivenBy(e.card)[e] - TakenBy(e.card)[e] = MadeBy[e] + x
  PROVE  Stands(b2)
<1>1. Shape(b) /\ BooksStand(b) /\ LeftStands(b)
  BY DEF Stands, BooksStand
<1>2. /\ BooksStand(b2) /\ MadeIn(AllOf(b)) \in Int
      /\ MadeIn(AllOf(b2)) = MadeIn(AllOf(b)) + MadeBy[e]
  BY <1>1, OneMore
<1>3. /\ LeftOf(b) \in Int
      /\ LeftOf(b2) = LeftOf(b) + GivenBy(e.card)[e] - TakenBy(e.card)[e]
  BY <1>1, LeftChanges
<1>4. DOMAIN b2.cards = DOMAIN b.cards /\ e.card \in CardIds
  BY DEF Follows, Booked, BookedType
<1>5. GivenBy(e.card)[e] \in Int /\ TakenBy(e.card)[e] \in Int /\ MadeBy[e] \in Int
  BY <1>4, WeightsTyped
<1>6. WorthOf(b.codes) \in Int
  BY <1>1, ShapeFacts, CodesFacts DEF Shape
<1>7. /\ LeftOf(b) = IssuedCredits * Cardinality(DOMAIN b.cards) + WorthOf(b.codes)
                       + MadeIn(AllOf(b))
  BY <1>1 DEF LeftStands
<1> DEFINE n == IssuedCredits * Cardinality(DOMAIN b.cards)
<1>8. n \in Int
  BY <1>1, FS_CardinalityType, SomethingIsSold DEF Shape
<1> HIDE DEF n
<1>9. LeftOf(b2) = n + WorthOf(b2.codes) + MadeIn(AllOf(b2))
  <2> DEFINE g == GivenBy(e.card)[e]  t == TakenBy(e.card)[e]
  <2> HIDE DEF g, t
  <2>1. g \in Int /\ t \in Int /\ g - t = MadeBy[e] + x /\ LeftOf(b2) = LeftOf(b) + g - t
    BY <1>3, <1>5 DEF g, t
  <2>2. LeftOf(b) = n + WorthOf(b.codes) + MadeIn(AllOf(b))
    BY <1>7 DEF n
  <2> QED
    BY <1>2, <1>3, <1>5, <1>6, <1>8, <2>1, <2>2
<1>10. LeftStands(b2)
  BY <1>4, <1>9 DEF LeftStands, n
<1> QED
  BY <1>2, <1>10 DEF Stands

\* Nothing of this changes: the same entries, though some may be archived, and the
\* same balances.
LEMMA QuietStands ==
  ASSUME NEW b, NEW b2, Stands(b), Shape(b2), AllOf(b2) = AllOf(b),
         b2.summary = SummaryOf(b2.archives), b2.codes = b.codes,
         DOMAIN b2.cards = DOMAIN b.cards,
         \A c \in DOMAIN b.cards : /\ b2.cards[c].total = b.cards[c].total
                                   /\ b2.cards[c].used = b.cards[c].used
  PROVE  Stands(b2)
<1>1. Shape(b) /\ BooksStand(b) /\ LeftStands(b)
  BY DEF Stands, BooksStand
<1>2. KeyedOnce(b2) /\ Reconciled(b2)
  BY <1>1 DEF BooksStand, KeyedOnce, Reconciled
<1>3. LeftOf(b2) = LeftOf(b)
  <2> DEFINE S == DOMAIN b.cards  f == LeftBy(b)  g == LeftBy(b2)
  <2>1. /\ IsFiniteSet(S) /\ DOMAIN b2.cards = S
        /\ \A c \in S : b.cards[c].total \in Int /\ b.cards[c].used \in Int
    BY <1>1, ShapeFacts DEF Shape
  <2>2. \A c \in S : f[c] = b.cards[c].total - b.cards[c].used /\ g[c] = f[c]
    BY <2>1 DEF LeftBy
  <2>3. LeftOf(b) = SumOver(f, S) /\ LeftOf(b2) = SumOver(g, S)
    BY <2>1, LeftIsSum
  <2> HIDE DEF f, g, S
  <2>4. Weighted(f, S)
    BY <2>1, <2>2 DEF Weighted
  <2>5. SumOver(g, S) = SumOver(f, S)
    BY <2>2, <2>4, SumFacts DEF SumLaws
  <2> QED
    BY <2>3, <2>5
<1>4. LeftStands(b2)
  BY <1>1, <1>3 DEF LeftStands
<1> QED
  BY <1>2, <1>4 DEF BooksStand, Stands

\* A card is issued.
LEMMA IssueStands ==
  ASSUME NEW b, NEW b2, Stands(b), Shape(b2), NEW c \in CardIds, c \notin DOMAIN b.cards,
         b2.archives = b.archives, b2.summary = b.summary, b2.ledger = b.ledger,
         b2.codes = b.codes, DOMAIN b2.cards = DOMAIN b.cards \cup {c},
         \A d \in DOMAIN b.cards : b2.cards[d] = b.cards[d],
         b2.cards[c].total = IssuedCredits, b2.cards[c].used = 0
  PROVE  Stands(b2)
<1>1. Shape(b) /\ BooksStand(b) /\ LeftStands(b)
  BY DEF Stands, BooksStand
<1>2. AllOf(b2) = AllOf(b) /\ b2.summary = SummaryOf(b2.archives)
  BY <1>1 DEF AllOf, BooksStand
<1>3. IssuedCredits \in Nat
  BY SomethingIsSold
<1>4. KeyedOnce(b2) /\ Reconciled(b2)
  <2>1. KeyedOnce(b2)
    BY <1>1, <1>2 DEF BooksStand, KeyedOnce
  <2>2. Reconciled(b2)
    <3> SUFFICES ASSUME NEW d \in CardIds
                 PROVE  /\ GivenIn(AllOf(b2), d)
                             = IF d \in DOMAIN b2.cards THEN b2.cards[d].total - IssuedCredits ELSE 0
                        /\ TakenIn(AllOf(b2), d)
                             = IF d \in DOMAIN b2.cards THEN b2.cards[d].used ELSE 0
      BY DEF Reconciled
    <3>1. /\ GivenIn(AllOf(b), d)
               = IF d \in DOMAIN b.cards THEN b.cards[d].total - IssuedCredits ELSE 0
          /\ TakenIn(AllOf(b), d) = IF d \in DOMAIN b.cards THEN b.cards[d].used ELSE 0
      BY <1>1 DEF BooksStand, Reconciled
    <3> QED
      BY <1>2, <1>3, <3>1
  <2> QED
    BY <2>1, <2>2
<1>5. LeftOf(b2) = LeftOf(b) + IssuedCredits /\ LeftOf(b) \in Int
  <2> DEFINE S == DOMAIN b.cards  f == LeftBy(b)  g == LeftBy(b2)
  <2>1. /\ IsFiniteSet(S) /\ IsFiniteSet(S \cup {c}) /\ DOMAIN b2.cards = S \cup {c}
        /\ \A d \in S : b.cards[d].total \in Int /\ b.cards[d].used \in Int
    BY <1>1, ShapeFacts, FS_AddElement DEF Shape
  <2>2. \A d \in S : f[d] = b.cards[d].total - b.cards[d].used /\ g[d] = f[d]
    BY <2>1 DEF LeftBy
  <2>3. g[c] = IssuedCredits
    BY <1>3, <2>1 DEF LeftBy
  <2>4. LeftOf(b) = SumOver(f, S) /\ LeftOf(b2) = SumOver(g, S \cup {c})
    BY <2>1, LeftIsSum
  <2> HIDE DEF f, g
  <2>5. c \notin S
    OBVIOUS
  <2> HIDE DEF S
  <2>6. Weighted(f, S) /\ Weighted(g, S \cup {c})
    BY <1>3, <2>1, <2>2, <2>3 DEF Weighted
  <2>7. SumOver(g, S \cup {c}) = SumOver(f, S) + g[c]
    <3>1. OneAdded(f, g, S, c)
      BY SumWithOne
    <3> QED
      BY <2>2, <2>5, <2>6, <3>1 DEF OneAdded
  <2>8. SumOver(f, S) \in Int
    BY <2>6, SumFacts DEF SumLaws
  <2> QED
    BY <2>3, <2>4, <2>7, <2>8
<1>6. LeftStands(b2)
  <2> DEFINE n == Cardinality(DOMAIN b.cards)  m == Cardinality(DOMAIN b2.cards)
             w == WorthOf(b.codes)  r == MadeIn(AllOf(b))
  <2>1. n \in Nat /\ m = n + 1
    BY <1>1, FS_CardinalityType, FS_AddElement DEF Shape
  <2>2. w \in Int
    BY <1>1, ShapeFacts, CodesFacts DEF Shape
  <2>3. r \in Int
    <3>1. AllOf(b) \in Seq(Booked)
      BY <1>1, ShapeFacts
    <3>2. AddsUp(MadeBy, Booked)
      BY WeightsTyped, TallyFacts
    <3>3. r = Tally(MadeBy, Booked, AllOf(b))
      BY <3>1, MadeIsTally
    <3> QED
      BY <3>1, <3>2, <3>3 DEF AddsUp
  <2>4. LeftOf(b) = IssuedCredits * n + w + r
    BY <1>1 DEF LeftStands
  <2> HIDE DEF n, m, w, r
  <2>5. IssuedCredits * m = IssuedCredits * n + IssuedCredits /\ IssuedCredits * n \in Int
    <3>1. \A i, k \in Nat : i * (k + 1) = i * k + i /\ i * k \in Int
      OBVIOUS
    <3> QED
      BY <1>3, <2>1, <3>1
  <2>6. LeftOf(b2) = IssuedCredits * m + w + r
    BY <1>3, <1>5, <2>2, <2>3, <2>4, <2>5
  <2> QED
    BY <1>2, <2>6 DEF LeftStands, m, w, r
<1> QED
  BY <1>2, <1>4, <1>6 DEF BooksStand, Stands

\* The credits of one card go over to another, whose payment they are.
LEMMA RenewalStands ==
  ASSUME NEW b, NEW b1, NEW b2, NEW e \in Booked, NEW f \in Booked,
         Stands(b), Shape(b1), Shape(b2), Follows(b, b1, e), Follows(b1, b2, f),
         b1.codes = b.codes, b2.codes = b.codes, e.key \notin Keys, f.key \notin Keys,
         MadeBy[e] = 0, MadeBy[f] = 0,
         GivenBy(e.card)[e] - TakenBy(e.card)[e] + GivenBy(f.card)[f] - TakenBy(f.card)[f] = 0
  PROVE  Stands(b2)
<1>1. Shape(b) /\ BooksStand(b) /\ LeftStands(b)
  BY DEF Stands, BooksStand
<1>2. /\ BooksStand(b1) /\ MadeIn(AllOf(b)) \in Int
      /\ MadeIn(AllOf(b1)) = MadeIn(AllOf(b)) + 0
  BY <1>1, OneMore
<1>3. BooksStand(b2) /\ MadeIn(AllOf(b2)) = MadeIn(AllOf(b1)) + 0
  BY <1>2, OneMore
<1>4. /\ LeftOf(b) \in Int
      /\ LeftOf(b1) = LeftOf(b) + GivenBy(e.card)[e] - TakenBy(e.card)[e]
      /\ LeftOf(b2) = LeftOf(b1) + GivenBy(f.card)[f] - TakenBy(f.card)[f]
  BY <1>1, LeftChanges
<1>5. /\ GivenBy(e.card)[e] \in Int /\ TakenBy(e.card)[e] \in Int
      /\ GivenBy(f.card)[f] \in Int /\ TakenBy(f.card)[f] \in Int
  BY WeightsTyped DEF Booked, BookedType
<1>6. LeftOf(b2) = LeftOf(b)
  BY <1>4, <1>5
<1>7. MadeIn(AllOf(b2)) = MadeIn(AllOf(b)) /\ DOMAIN b2.cards = DOMAIN b.cards
  BY <1>2, <1>3 DEF Follows
<1>8. LeftStands(b2)
  BY <1>1, <1>6, <1>7 DEF LeftStands
<1> QED
  BY <1>3, <1>8 DEF Stands

-----------------------------------------------------------------------------
\* Operations.

Found == [ask : Asks, found : Seq(SUBSET {e \in Booked : e.kind = "usage"})]

\* A call has what its requests were charged.
CallsTyped ==
  /\ calls \subseteq Found
  /\ \A call \in calls : /\ DOMAIN call.found = DOMAIN call.ask.names
                         /\ \A i \in DOMAIN call.found : call.found[i] # {}

CardsInv == Stands(books) /\ CallsTyped /\ day \in Nat

\* A commit of books that stand, whether or not the process survives it.
LEMMA Committed ==
  ASSUME CardsInv, NEW next, Stands(next), NEW idx, NEW rest, rest \subseteq calls,
         CommitBooks(next, idx, rest)
  PROVE  CardsInv'
<1>1. books' = next /\ (calls' = rest \/ calls' = {}) /\ day' = day
  BY DEF CommitBooks
<1>2. Stands(books')
  BY <1>1
<1>3. CallsTyped'
  <2>1. calls' \subseteq calls
    BY <1>1
  <2> QED
    BY <2>1 DEF CardsInv, CallsTyped
<1> QED
  BY <1>1, <1>2, <1>3 DEF CardsInv

\* What may become of a card.
MayBecome(k) == k \in CardType /\ (k.status = "frozen" => k.frozenFrom # "none")

\* One card changes, and entries and codes may come.
Changed(b, c, k, codes, ledger) ==
  [cards |-> [b.cards EXCEPT ![c] = k], codes |-> codes, ledger |-> ledger,
   archives |-> b.archives, summary |-> b.summary, orders |-> b.orders]

\* The books have their shape.
LEMMA ChangedShape ==
  ASSUME NEW b, Shape(b), NEW c \in DOMAIN b.cards, NEW k, MayBecome(k),
         NEW codes \in SUBSET TopupCodes, IsFiniteSet(codes), NEW ledger \in Seq(Booked)
  PROVE  Shape(Changed(b, c, k, codes, ledger))
<1> DEFINE n == Changed(b, c, k, codes, ledger)
<1>1. /\ n.cards = [b.cards EXCEPT ![c] = k] /\ n.codes = codes /\ n.ledger = ledger
      /\ n.archives = b.archives /\ n.summary = b.summary /\ n.orders = b.orders
      /\ n = [cards |-> n.cards, codes |-> n.codes, ledger |-> n.ledger,
              archives |-> n.archives, summary |-> n.summary, orders |-> n.orders]
  BY DEF Changed
<1> HIDE DEF n
<1>2. /\ b.cards \in [DOMAIN b.cards -> CardType] /\ DOMAIN b.cards \subseteq CardIds
      /\ b.archives \in Seq(Booked) /\ b.summary \in SummaryType
      /\ IsFiniteSet(DOMAIN b.cards) /\ Range(b.orders) \subseteq DOMAIN b.cards
      /\ b.orders \in OrderTables
      /\ \A d \in DOMAIN b.cards : b.cards[d].status = "frozen" => b.cards[d].frozenFrom # "none"
  BY ShapeFacts DEF Shape, BooksType
<1>3. n.cards \in [DOMAIN b.cards -> CardType] /\ DOMAIN n.cards = DOMAIN b.cards
  BY <1>1, <1>2 DEF MayBecome
<1>4. n.cards \in CardTables
  BY <1>2, <1>3 DEF CardTables
<1>5. n \in BooksType
  BY <1>1, <1>2, <1>4 DEF BooksType
<1>6. \A d \in DOMAIN n.cards : n.cards[d].status = "frozen" => n.cards[d].frozenFrom # "none"
  BY <1>1, <1>2, <1>3 DEF MayBecome
<1> QED
  BY <1>1, <1>2, <1>3, <1>5, <1>6 DEF Shape, n

ChangesTo(b, c, k, l) ==
  [b EXCEPT !.cards[c] = k, !.ledger = l] = Changed(b, c, k, b.codes, l)

\* What a card's change looks like.
LEMMA ChangeForm ==
  ASSUME NEW b, Shape(b), NEW c, NEW k, NEW l
  PROVE  ChangesTo(b, c, k, l)
<1> DEFINE C == b.cards  O == b.codes  L == b.ledger  A == b.archives  Y == b.summary  R == b.orders
           n == [C EXCEPT ![c] = k]
<1>1. b = [cards |-> C, codes |-> O, ledger |-> L, archives |-> A, summary |-> Y, orders |-> R]
  BY ShapeFacts
<1>2. Changed(b, c, k, O, l)
        = [cards |-> n, codes |-> O, ledger |-> l, archives |-> A, summary |-> Y, orders |-> R]
  BY DEF Changed
<1> DEFINE x == [b EXCEPT !.cards = n]
<1>3. [b EXCEPT !.cards[c] = k, !.ledger = l] = [x EXCEPT !.ledger = l]
  BY Zenon
<1> HIDE DEF C, O, L, A, Y, R, n
<1>4. x = [cards |-> n, codes |-> O, ledger |-> L, archives |-> A, summary |-> Y, orders |-> R]
  BY <1>1
<1> HIDE DEF x
<1>5. [x EXCEPT !.ledger = l]
        = [cards |-> n, codes |-> O, ledger |-> l, archives |-> A, summary |-> Y, orders |-> R]
  BY <1>4
<1> QED
  BY <1>2, <1>3, <1>5 DEF ChangesTo, O

\* A card changes, but not its balance.
LEMMA CardStands ==
  ASSUME NEW b, Stands(b), NEW c \in DOMAIN b.cards, NEW k, MayBecome(k),
         k.total = b.cards[c].total, k.used = b.cards[c].used
  PROVE  Stands([b EXCEPT !.cards[c] = k, !.ledger = @ \o <<>>])
<1> DEFINE n == Changed(b, c, k, b.codes, b.ledger)
<1>1. Shape(b) /\ b.codes \in SUBSET TopupCodes /\ IsFiniteSet(b.codes) /\ b.ledger \in Seq(Booked)
  BY ShapeFacts DEF Stands, BooksStand, Shape
<1>2. b.ledger \o <<>> = b.ledger
  BY <1>1
<1>3. [b EXCEPT !.cards[c] = k, !.ledger = @ \o <<>>] = n
  <2>1. ChangesTo(b, c, k, b.ledger \o <<>>)
    BY <1>1, ChangeForm
  <2>2. [b EXCEPT !.cards[c] = k, !.ledger = @ \o <<>>]
          = Changed(b, c, k, b.codes, b.ledger \o <<>>)
    BY <2>1, Zenon DEF ChangesTo
  <2> QED
    BY <1>2, <2>2, Zenon
<1>4. Shape(n)
  BY <1>1, ChangedShape
<1>5. /\ n.cards = [b.cards EXCEPT ![c] = k] /\ n.codes = b.codes /\ n.ledger = b.ledger
      /\ n.archives = b.archives /\ n.summary = b.summary
  BY DEF Changed
<1>6. AllOf(n) = AllOf(b) /\ n.summary = SummaryOf(n.archives)
  BY <1>5 DEF AllOf, Stands, BooksStand
<1> HIDE DEF n
<1>7. /\ DOMAIN n.cards = DOMAIN b.cards
      /\ \A d \in DOMAIN b.cards : /\ n.cards[d].total = b.cards[d].total
                                   /\ n.cards[d].used = b.cards[d].used
  BY <1>5
<1>8. Stands(n)
  BY <1>4, <1>5, <1>6, <1>7, QuietStands
<1> QED
  BY <1>3, <1>8

\* A card changes by what one more entry says.
LEMMA CardFollows ==
  ASSUME NEW b, Shape(b), NEW e \in Booked, NEW k, MayBecome(k), e.card \in DOMAIN b.cards,
         NEW codes \in SUBSET TopupCodes, IsFiniteSet(codes),
         k.total = b.cards[e.card].total + GivenBy(e.card)[e],
         k.used = b.cards[e.card].used + TakenBy(e.card)[e]
  PROVE  LET n == Changed(b, e.card, k, codes, Append(b.ledger, e))
         IN Shape(n) /\ Follows(b, n, e)
<1> DEFINE c == e.card  n == Changed(b, c, k, codes, Append(b.ledger, e))
<1>1. /\ b.ledger \in Seq(Booked) /\ DOMAIN b.cards \subseteq CardIds
      /\ \A d \in DOMAIN b.cards : b.cards[d].total \in Int /\ b.cards[d].used \in Int
  BY ShapeFacts
<1>2. Append(b.ledger, e) \in Seq(Booked)
  BY <1>1
<1>3. Shape(n)
  BY <1>2, ChangedShape
<1>4. /\ n.cards = [b.cards EXCEPT ![c] = k] /\ n.ledger = Append(b.ledger, e)
      /\ n.archives = b.archives /\ n.summary = b.summary
  BY DEF Changed
<1> HIDE DEF n
<1>5. \A d \in DOMAIN b.cards : d # c => GivenBy(d)[e] = 0 /\ TakenBy(d)[e] = 0
  BY DEF GivenBy, TakenBy
<1>6. ASSUME NEW d \in DOMAIN b.cards
      PROVE  /\ n.cards[d].total = b.cards[d].total + GivenBy(d)[e]
             /\ n.cards[d].used = b.cards[d].used + TakenBy(d)[e]
  <2>1. CASE d = c
    BY <1>4, <2>1
  <2>2. CASE d # c
    <3>1. n.cards[d] = b.cards[d]
      BY <1>4, <2>2
    <3> QED
      BY <1>1, <1>5, <2>2, <3>1
  <2> QED
    BY <2>1, <2>2
<1>7. Follows(b, n, e)
  <2>1. DOMAIN n.cards = DOMAIN b.cards
    BY <1>4
  <2> QED
    BY <1>4, <1>6, <2>1 DEF Follows
<1> QED
  BY <1>3, <1>7 DEF n

\* What an entry under a key is and adds.
LEMMA EntryFacts ==
  ASSUME NEW c \in CardIds, NEW kind \in {"usage", "topup", "adjustment"}, NEW n \in Int,
         NEW key \in EntryKeys, kind # "adjustment" => n \in Nat
  PROVE  LET e == [Entry(c, kind, n) EXCEPT !.key = key]
         IN /\ e \in Booked /\ e.card = c /\ e.kind = kind /\ e.key = key
            /\ GivenBy(c)[e] = IF kind # "usage" /\ n > 0 THEN n ELSE 0
            /\ TakenBy(c)[e] = IF kind = "usage" THEN n ELSE IF n < 0 THEN -n ELSE 0
            /\ MadeBy[e] = IF key \in Keys THEN n ELSE IF kind = "usage" THEN -n ELSE 0
<1> DEFINE x == Entry(c, kind, n)  e == [x EXCEPT !.key = key]
<1>1. x \in BookedType /\ x.card = c /\ x.kind = kind /\ x.credits = n
  <2>1. <<>> \in Seq(CardRequests) /\ <<>> \in Seq(Nat) /\ "none" \in EntryKeys
    BY DEF EntryKeys
  <2> QED
    BY <2>1 DEF Entry, BookedType
<1> HIDE DEF x
<1>2. /\ e.card = c /\ e.kind = kind /\ e.credits = n /\ e.key = key
      /\ e \in BookedType
  BY <1>1 DEF BookedType
<1> HIDE DEF e
<1>3. e \in Booked
  BY <1>2 DEF Booked
<1>4. /\ GivenBy(c)[e] = IF kind # "usage" /\ n > 0 THEN n ELSE 0
      /\ TakenBy(c)[e] = IF kind = "usage" THEN n ELSE IF n < 0 THEN -n ELSE 0
      /\ MadeBy[e] = IF key \in Keys THEN n ELSE IF kind = "usage" THEN -n ELSE 0
  BY <1>2, <1>3 DEF GivenBy, TakenBy, MadeBy
<1> QED
  BY <1>2, <1>3, <1>4 DEF e, x

\* A commit of one entry that is made under a key, charged, or worth the code it uses.
LEMMA EntryCommitted ==
  ASSUME CardsInv, NEW e \in Booked, NEW k, MayBecome(k), e.card \in DOMAIN books.cards,
         e.key \in Keys => e.kind = "adjustment" /\ UsedFor(books, e.key) = {},
         k.total = books.cards[e.card].total + GivenBy(e.card)[e],
         k.used = books.cards[e.card].used + TakenBy(e.card)[e],
         NEW codes \in SUBSET TopupCodes, IsFiniteSet(codes),
         NEW x \in Int, WorthOf(codes) = WorthOf(books.codes) + x,
         GivenBy(e.card)[e] - TakenBy(e.card)[e] = MadeBy[e] + x,
         NEW idx, NEW rest, rest \subseteq calls,
         CommitBooks(Changed(books, e.card, k, codes, Append(books.ledger, e)), idx, rest)
  PROVE  CardsInv'
<1> DEFINE n == Changed(books, e.card, k, codes, Append(books.ledger, e))
<1>1. Stands(books) /\ Shape(books)
  BY DEF CardsInv, Stands, BooksStand
<1>2. Shape(n) /\ Follows(books, n, e)
  BY <1>1, CardFollows
<1>3. n.codes = codes
  BY DEF Changed
<1> HIDE DEF n
<1>4. Stands(n)
  BY <1>1, <1>2, <1>3, EntryStands
<1> QED
  BY <1>4, Committed DEF n

\* A change of a card that leaves its balance.
LEMMA ChangeKeeps ==
  ASSUME CardsInv, NEW c \in DOMAIN books.cards, NEW k, MayBecome(k),
         k.total = books.cards[c].total, k.used = books.cards[c].used,
         Change(c, k, <<>>)
  PROVE  CardsInv'
<1> DEFINE n == [books EXCEPT !.cards[c] = k, !.ledger = @ \o <<>>]
<1>1. Stands(n)
  BY CardStands DEF CardsInv
<1>2. CommitBooks(n, FoldLeft(AddCompensation, index, <<>>), calls)
  BY DEF Change
<1> HIDE DEF n
<1> QED
  BY <1>1, <1>2, Committed

\* A change of a card and one entry.
LEMMA ChangeAdds ==
  ASSUME CardsInv, NEW e \in Booked, NEW k, Change(e.card, k, <<e>>)
  PROVE  CommitBooks(Changed(books, e.card, k, books.codes, Append(books.ledger, e)),
                     FoldLeft(AddCompensation, index, <<e>>), calls)
<1>1. Shape(books)
  BY DEF CardsInv, Stands, BooksStand
<1>2. books.ledger \in Seq(Booked)
  BY <1>1, ShapeFacts
<1>3. books.ledger \o <<e>> = Append(books.ledger, e)
  BY <1>2
<1>4. ChangesTo(books, e.card, k, books.ledger \o <<e>>)
  BY <1>1, ChangeForm
<1>5. [books EXCEPT !.cards[e.card] = k, !.ledger = @ \o <<e>>]
        = Changed(books, e.card, k, books.codes, books.ledger \o <<e>>)
  BY <1>4, Zenon DEF ChangesTo
<1> QED
  BY <1>3, <1>5, Zenon DEF Change

\* Cards as they are.
LEMMA CardFacts ==
  ASSUME CardsInv, NEW c \in DOMAIN books.cards
  PROVE  /\ Card(c) = books.cards[c] /\ c \in CardIds
         /\ MayBecome(Card(c)) /\ Card(c).total \in Nat /\ Card(c).used \in Nat
         /\ Card(c).status \in CardStatuses
         /\ Card(c).frozenFrom \in {"none", "unactivated", "active"}
         /\ Card(c).until \in Nat /\ Card(c).duration \in Nat
<1>1. Shape(books)
  BY DEF CardsInv, Stands, BooksStand
<1>2. Card(c) = books.cards[c] /\ c \in CardIds /\ MayBecome(Card(c))
  BY <1>1, ShapeFacts DEF Card, Shape, MayBecome
<1> QED
  BY <1>2 DEF MayBecome, CardType

\* A card's status, validity and place change, not its balance.
LEMMA CardOperations ==
  ASSUME CardsInv, NEW c \in DOMAIN books.cards, ActivateCard(c) \/ Operates(c)
  PROVE  CardsInv'
<1> DEFINE k == Card(c)
<1>1. /\ k = books.cards[c] /\ MayBecome(k) /\ k \in CardType /\ day \in Nat
      /\ k.status \in CardStatuses /\ k.frozenFrom \in {"none", "unactivated", "active"}
      /\ k.until \in Nat /\ k.duration \in Nat
  BY CardFacts DEF MayBecome, CardsInv
<1> HIDE DEF k
<1>2. CASE ActivateCard(c)
  <2> DEFINE u == IF k.duration > 0 THEN day + k.duration ELSE 0
             m == [k EXCEPT !.activated = TRUE, !.status = "active", !.until = u]
  <2>1. u \in Nat
    BY <1>1
  <2>2. Change(c, m, <<>>)
    BY <1>2 DEF ActivateCard, k
  <2> HIDE DEF u
  <2>3. MayBecome(m) /\ m.total = k.total /\ m.used = k.used
    BY <1>1, <2>1 DEF MayBecome, CardType, CardStatuses
  <2> QED
    BY <1>1, <2>2, <2>3, ChangeKeeps
<1>3. CASE Freeze(c)
  <2> DEFINE m == [k EXCEPT !.frozenFrom = k.status, !.status = "frozen"]
  <2>1. k.status \in {"unactivated", "active"} /\ Change(c, m, <<>>)
    BY <1>3 DEF Freeze, k
  <2>2. MayBecome(m) /\ m.total = k.total /\ m.used = k.used
    BY <1>1, <2>1 DEF MayBecome, CardType, CardStatuses
  <2> QED
    BY <1>1, <2>1, <2>2, ChangeKeeps
<1>4. CASE Unfreeze(c)
  <2> DEFINE m == [k EXCEPT !.status = k.frozenFrom, !.frozenFrom = "none"]
  <2>1. k.status = "frozen" /\ Change(c, m, <<>>)
    BY <1>4 DEF Unfreeze, k
  <2>2. k.frozenFrom \in {"unactivated", "active"}
    BY <1>1, <2>1 DEF MayBecome
  <2>3. MayBecome(m) /\ m.total = k.total /\ m.used = k.used
    BY <1>1, <2>2 DEF MayBecome, CardType, CardStatuses
  <2> QED
    BY <1>1, <2>1, <2>3, ChangeKeeps
<1>5. CASE Ban(c)
  <2> DEFINE m == [k EXCEPT !.status = "banned"]
  <2>1. Change(c, m, <<>>)
    BY <1>5 DEF Ban, k
  <2>2. MayBecome(m) /\ m.total = k.total /\ m.used = k.used
    BY <1>1 DEF MayBecome, CardType, CardStatuses
  <2> QED
    BY <1>1, <2>1, <2>2, ChangeKeeps
<1>6. CASE Unban(c)
  <2> DEFINE to == IF k.frozenFrom # "none" THEN "frozen"
                   ELSE IF k.activated THEN "active" ELSE "unactivated"
             m == [k EXCEPT !.status = to]
  <2>1. Change(c, m, <<>>)
    BY <1>6 DEF Unban, k
  <2>2. to \in CardStatuses /\ (to = "frozen" => k.frozenFrom # "none")
    BY DEF CardStatuses
  <2> HIDE DEF to
  <2>3. MayBecome(m) /\ m.total = k.total /\ m.used = k.used
    BY <1>1, <2>2 DEF MayBecome, CardType
  <2> QED
    BY <1>1, <2>1, <2>3, ChangeKeeps
<1>7. CASE Void(c)
  <2> DEFINE m == [k EXCEPT !.status = "voided"]
  <2>1. Change(c, m, <<>>)
    BY <1>7 DEF Void, k
  <2>2. MayBecome(m) /\ m.total = k.total /\ m.used = k.used
    BY <1>1 DEF MayBecome, CardType, CardStatuses
  <2> QED
    BY <1>1, <2>1, <2>2, ChangeKeeps
<1>8. ASSUME NEW x \in BOOLEAN, Change(c, [k EXCEPT !.archived = x], <<>>) PROVE CardsInv'
  <2> DEFINE m == [k EXCEPT !.archived = x]
  <2>1. MayBecome(m) /\ m.total = k.total /\ m.used = k.used
    BY <1>1 DEF MayBecome, CardType, CardStatuses
  <2> QED
    BY <1>1, <1>8, <2>1, ChangeKeeps
<1>9. CASE ArchiveCard(c)
  BY <1>8, <1>9 DEF ArchiveCard, k
<1>10. CASE UnarchiveCard(c)
  BY <1>8, <1>10 DEF UnarchiveCard, k
<1> QED
  BY <1>2, <1>3, <1>4, <1>5, <1>6, <1>7, <1>9, <1>10 DEF Operates

\* A request is charged.
LEMMA ChargeKeeps ==
  ASSUME CardsInv, NEW r \in CardRequests, NEW c \in DOMAIN books.cards,
         NEW n \in RequestCharges, ChargeRequest(r, c, n)
  PROVE  CardsInv'
<1> DEFINE k == Card(c)  e == [Entry(c, "usage", n) EXCEPT !.key = r]
           m == [k EXCEPT !.used = @ + n]
<1>1. /\ k = books.cards[c] /\ MayBecome(k) /\ k \in CardType /\ c \in CardIds
      /\ k.total \in Nat /\ k.used \in Nat /\ n \in Nat /\ r \in EntryKeys /\ r \notin Keys
  BY CardFacts, SomethingIsSold, KeysApart DEF MayBecome, EntryKeys
<1>2. /\ e \in Booked /\ e.card = c /\ e.key = r
      /\ GivenBy(c)[e] = 0 /\ TakenBy(c)[e] = n /\ MadeBy[e] = -n
  BY <1>1, EntryFacts
<1>3. Change(c, m, <<e>>)
  BY DEF ChargeRequest
<1> HIDE DEF k, e
<1>4. MayBecome(m) /\ m.total = k.total + 0 /\ m.used = k.used + n
  BY <1>1 DEF MayBecome, CardType
<1> HIDE DEF m
<1>5. CommitBooks(Changed(books, c, m, books.codes, Append(books.ledger, e)),
                  FoldLeft(AddCompensation, index, <<e>>), calls)
  BY <1>2, <1>3, ChangeAdds
<1>6. /\ books.codes \in SUBSET TopupCodes /\ IsFiniteSet(books.codes)
      /\ WorthOf(books.codes) = WorthOf(books.codes) + 0 /\ 0 \in Int
  <2>1. Shape(books)
    BY DEF CardsInv, Stands, BooksStand
  <2>2. books.codes \in SUBSET TopupCodes /\ IsFiniteSet(books.codes)
    BY <2>1, ShapeFacts DEF Shape
  <2> QED
    BY <2>2, CodesFacts
<1>7. GivenBy(c)[e] - TakenBy(c)[e] = MadeBy[e] + 0
  BY <1>1, <1>2
<1> QED
  BY <1>1, <1>2, <1>4, <1>5, <1>6, <1>7, EntryCommitted

\* A card is upgraded.
LEMMA UpgradeKeeps ==
  ASSUME CardsInv, NEW c \in DOMAIN books.cards, NEW key \in Keys, NEW n \in Nat, NEW d \in Nat,
         UpgradeCard(c, key, n, d)
  PROVE  CardsInv'
<1> DEFINE k == Card(c)  e == [Entry(c, "adjustment", n) EXCEPT !.key = key]
           l == IF d > 0 THEN Extended(k, d) ELSE k
           m == [l EXCEPT !.total = @ + n]
<1>1. /\ k = books.cards[c] /\ MayBecome(k) /\ k \in CardType /\ c \in CardIds
      /\ k.total \in Nat /\ k.used \in Nat /\ key \in EntryKeys /\ day \in Nat
      /\ k.until \in Nat /\ k.duration \in Nat
  BY CardFacts, SomethingIsSold DEF MayBecome, EntryKeys, CardsInv
<1>2. /\ e \in Booked /\ e.card = c /\ e.key = key /\ e.kind = "adjustment"
      /\ GivenBy(c)[e] = n /\ TakenBy(c)[e] = 0 /\ MadeBy[e] = n
  BY <1>1, EntryFacts
<1>3. Change(c, m, <<e>>) /\ UsedFor(books, key) = {}
  BY DEF UpgradeCard, UpgradedBefore
<1> HIDE DEF k, e
<1>4. MayBecome(l) /\ l.total = k.total /\ l.used = k.used
  <2> DEFINE u == Later(k.until, day) + d
  <2>1. u \in Nat
    BY <1>1 DEF Later
  <2> HIDE DEF u
  <2>2. CASE d > 0 /\ AwaitsActivation(k)
    <3> DEFINE z == [k EXCEPT !.duration = @ + d]
    <3>1. l = z
      BY <2>2 DEF Extended
    <3>2. MayBecome(z) /\ z.total = k.total /\ z.used = k.used
      BY <1>1 DEF MayBecome, CardType
    <3> QED
      BY <3>1, <3>2
  <2>3. CASE d > 0 /\ ~AwaitsActivation(k)
    <3> DEFINE z == [k EXCEPT !.until = u]
    <3>1. l = z
      BY <2>3 DEF Extended, u
    <3>2. MayBecome(z) /\ z.total = k.total /\ z.used = k.used
      BY <1>1, <2>1 DEF MayBecome, CardType
    <3> QED
      BY <3>1, <3>2
  <2>4. CASE ~(d > 0)
    BY <1>1, <2>4
  <2> QED
    BY <2>2, <2>3, <2>4
<1> HIDE DEF l
<1>5. MayBecome(m) /\ m.total = k.total + n /\ m.used = k.used + 0
  BY <1>1, <1>4 DEF MayBecome, CardType
<1> HIDE DEF m
<1>6. CommitBooks(Changed(books, c, m, books.codes, Append(books.ledger, e)),
                  FoldLeft(AddCompensation, index, <<e>>), calls)
  BY <1>2, <1>3, ChangeAdds
<1>7. /\ books.codes \in SUBSET TopupCodes /\ IsFiniteSet(books.codes)
      /\ WorthOf(books.codes) = WorthOf(books.codes) + 0 /\ 0 \in Int
  <2>1. Shape(books)
    BY DEF CardsInv, Stands, BooksStand
  <2>2. books.codes \in SUBSET TopupCodes /\ IsFiniteSet(books.codes)
    BY <2>1, ShapeFacts DEF Shape
  <2> QED
    BY <2>2, CodesFacts
<1>8. GivenBy(c)[e] - TakenBy(c)[e] = MadeBy[e] + 0
  BY <1>1, <1>2
<1> QED
  BY <1>1, <1>2, <1>3, <1>5, <1>6, <1>7, <1>8, EntryCommitted

\* A code is redeemed.
LEMMA TopupKeeps ==
  ASSUME CardsInv, NEW c \in DOMAIN books.cards, NEW code \in TopupCodes, RedeemTopup(c, code)
  PROVE  CardsInv'
<1> DEFINE k == Card(c)  n == Worth[code]
           e == [Entry(c, "topup", n) EXCEPT !.key = code]
           u == IF Days[code] > 0 THEN Later(k.until, day) + Days[code] ELSE k.until
           m == [k EXCEPT !.total = @ + n, !.until = u]
           codes == books.codes \cup {code}
<1>1. /\ k = books.cards[c] /\ MayBecome(k) /\ k \in CardType /\ c \in CardIds
      /\ k.total \in Nat /\ k.used \in Nat /\ n \in Nat /\ Days[code] \in Nat
      /\ code \in EntryKeys /\ code \notin Keys /\ day \in Nat /\ k.until \in Nat
  BY CardFacts, SomethingIsSold, KeysApart DEF MayBecome, EntryKeys, CardsInv
<1>2. /\ e \in Booked /\ e.card = c /\ e.key = code
      /\ GivenBy(c)[e] = n /\ TakenBy(c)[e] = 0 /\ MadeBy[e] = 0
  BY <1>1, EntryFacts
<1>3. Shape(books)
  BY DEF CardsInv, Stands, BooksStand
<1>4. CommitBooks(Changed(books, c, m, codes, Append(books.ledger, e)), index, calls)
  <2> DEFINE C == books.cards  L == books.ledger  A == books.archives
             Y == books.summary  R == books.orders
  <2>1. CommitBooks(
          [books EXCEPT
            !.codes = @ \cup {code}, !.cards[c].total = @ + n,
            !.cards[c].until = IF Days[code] > 0 THEN Later(@, day) + Days[code] ELSE @,
            !.ledger = Append(@, e)], index, calls)
    BY DEF RedeemTopup
  <2> DEFINE w == [books EXCEPT !.codes = @ \cup {code}]
             x == [w EXCEPT !.cards[c].total = books.cards[c].total + n]
             y == [x EXCEPT !.cards[c].until =
                     IF Days[code] > 0 THEN Later(books.cards[c].until, day) + Days[code]
                     ELSE books.cards[c].until]
             z == [y EXCEPT !.ledger = Append(books.ledger, e)]
             l == [k EXCEPT !.total = @ + n]
  <2>2. CommitBooks(z, index, calls)
    <3> HIDE DEF k, e, n, u, m, C, L, A, Y, R, l
    <3>1. [books EXCEPT
            !.codes = @ \cup {code}, !.cards[c].total = @ + n,
            !.cards[c].until = IF Days[code] > 0 THEN Later(@, day) + Days[code] ELSE @,
            !.ledger = Append(@, e)] = z
      BY Zenon
    <3> HIDE DEF z
    <3> QED
      BY <2>1, <3>1
  <2>3. books = [cards |-> C, codes |-> books.codes, ledger |-> L, archives |-> A,
                 summary |-> Y, orders |-> R]
    BY <1>3, ShapeFacts
  <2>4. C[c] = k /\ c \in DOMAIN C
    BY <1>1
  <2>5. l \in CardType /\ l.until = k.until /\ m = [l EXCEPT !.until = u]
    BY <1>1 DEF CardType
  <2>6. Changed(books, c, m, codes, Append(L, e))
          = [cards |-> [C EXCEPT ![c] = m], codes |-> codes, ledger |-> Append(L, e),
             archives |-> A, summary |-> Y, orders |-> R]
    BY DEF Changed
  <2> HIDE DEF C, L, A, Y, R, k, e, n
  <2>7. w = [cards |-> C, codes |-> codes, ledger |-> L, archives |-> A, summary |-> Y,
             orders |-> R]
    BY <2>3
  <2> HIDE DEF w, codes
  <2>8. x = [cards |-> [C EXCEPT ![c] = l], codes |-> codes, ledger |-> L, archives |-> A,
             summary |-> Y, orders |-> R]
    <3> DEFINE D == [C EXCEPT ![c].total = C[c].total + n]
    <3>1. D = [C EXCEPT ![c] = l]
      BY <2>4
    <3>2. x = [w EXCEPT !.cards = D]
      BY <2>7 DEF C
    <3> HIDE DEF D
    <3>3. [w EXCEPT !.cards = D]
            = [cards |-> D, codes |-> codes, ledger |-> L, archives |-> A, summary |-> Y,
               orders |-> R]
      BY <2>7
    <3> QED
      BY <3>1, <3>2, <3>3
  <2> HIDE DEF x, l
  <2>9. y = [cards |-> [C EXCEPT ![c] = m], codes |-> codes, ledger |-> L, archives |-> A,
             summary |-> Y, orders |-> R]
    <3> DEFINE B == [C EXCEPT ![c] = l]
               D == [B EXCEPT ![c].until = u]
    <3>1. B[c] = l /\ c \in DOMAIN B
      BY <2>4
    <3>2. u = IF Days[code] > 0 THEN Later(books.cards[c].until, day) + Days[code]
              ELSE books.cards[c].until
      BY <1>1
    <3> HIDE DEF u, m
    <3>3. D = [B EXCEPT ![c] = m]
      <4> HIDE DEF B
      <4> QED
        BY <2>5, <3>1
    <3>4. [B EXCEPT ![c] = m] = [C EXCEPT ![c] = m]
      BY <2>4
    <3>5. y = [x EXCEPT !.cards = D]
      BY <2>8, <3>2
    <3> HIDE DEF D, B
    <3>6. [x EXCEPT !.cards = D]
            = [cards |-> D, codes |-> codes, ledger |-> L, archives |-> A, summary |-> Y,
               orders |-> R]
      BY <2>8
    <3> QED
      BY <3>3, <3>4, <3>5, <3>6
  <2> HIDE DEF y, m
  <2>10. z = [cards |-> [C EXCEPT ![c] = m], codes |-> codes, ledger |-> Append(L, e),
              archives |-> A, summary |-> Y, orders |-> R]
    <3> DEFINE q == Append(L, e)
    <3>1. z = [y EXCEPT !.ledger = q]
      BY Zenon DEF L
    <3> DEFINE D == [C EXCEPT ![c] = m]
    <3> HIDE DEF q, D
    <3>2. y = [cards |-> D, codes |-> codes, ledger |-> L, archives |-> A, summary |-> Y,
               orders |-> R]
      BY <2>9 DEF D
    <3>3. [y EXCEPT !.ledger = q]
            = [cards |-> D, codes |-> codes, ledger |-> q, archives |-> A, summary |-> Y,
               orders |-> R]
      BY <3>2
    <3> QED
      BY <3>1, <3>3 DEF q, D
  <2> HIDE DEF z
  <2>11. Changed(books, c, m, codes, Append(L, e)) = z
    BY <2>6, <2>10
  <2> QED
    BY <2>2, <2>11 DEF L
<1>5. u \in Nat
  BY <1>1 DEF Later
<1> HIDE DEF k, e, u, n
<1>6. MayBecome(m) /\ m.total = k.total + n /\ m.used = k.used + 0
  <2> DEFINE l == [k EXCEPT !.total = @ + n]
  <2>1. MayBecome(l) /\ l.total = k.total + n /\ l.used = k.used + 0
    BY <1>1 DEF MayBecome, CardType
  <2>2. m = [l EXCEPT !.until = u]
    BY Zenon
  <2> HIDE DEF l, m
  <2>3. MayBecome(m) /\ m.total = l.total /\ m.used = l.used
    BY <1>5, <2>1, <2>2 DEF MayBecome, CardType
  <2> QED
    BY <2>1, <2>3
<1>7. /\ codes \in SUBSET TopupCodes /\ IsFiniteSet(codes)
      /\ WorthOf(codes) = WorthOf(books.codes) + n
  <2>1. books.codes \in SUBSET TopupCodes /\ IsFiniteSet(books.codes) /\ code \notin books.codes
    BY <1>3, ShapeFacts DEF Shape, RedeemTopup
  <2> QED
    BY <2>1, CodesFacts DEF n
<1> HIDE DEF m, codes
<1>8. GivenBy(c)[e] - TakenBy(c)[e] = MadeBy[e] + n /\ n \in Int
  BY <1>1, <1>2
<1> QED
  BY <1>1, <1>2, <1>4, <1>6, <1>7, <1>8, EntryCommitted

\* A card is renewed with the code of another.
LEMMA RenewalKeeps ==
  ASSUME CardsInv, NEW c \in DOMAIN books.cards, NEW s \in DOMAIN books.cards, RenewWithCard(c, s)
  PROVE  CardsInv'
<1> DEFINE b == books  C == b.cards  L == b.ledger
           k == Card(c)  p == Card(s)  n == p.total
           e == [Entry(c, "topup", n) EXCEPT !.key = s]
           f == [Entry(s, "adjustment", -n) EXCEPT !.key = s]
           u == IF C[c].until = 0 THEN 0 ELSE Later(C[c].until, day + RenewalDays)
           k1 == [k EXCEPT !.total = C[c].total + n]
           m == [k1 EXCEPT !.until = u]
           p1 == [p EXCEPT !.status = "voided"]
           v == [p1 EXCEPT !.used = n]
           b1 == Changed(b, c, m, b.codes, Append(L, e))
           b2 == Changed(b1, s, v, b.codes, Append(Append(L, e), f))
<1>1. /\ k = C[c] /\ MayBecome(k) /\ k \in CardType /\ c \in CardIds
      /\ p = C[s] /\ MayBecome(p) /\ p \in CardType /\ s \in CardIds
      /\ k.total \in Nat /\ k.used \in Nat /\ k.until \in Nat
      /\ p.total \in Nat /\ p.used \in Nat
      /\ n \in Nat /\ -n \in Int /\ s \in EntryKeys /\ s \notin Keys
      /\ day \in Nat /\ RenewalDays \in Nat
  BY CardFacts, SomethingIsSold, KeysApart DEF MayBecome, EntryKeys, CardsInv
<1>2. s # c /\ p.used = 0
  BY DEF RenewWithCard
<1>3. /\ Shape(b) /\ Stands(b) /\ b.codes \in SUBSET TopupCodes /\ IsFiniteSet(b.codes)
      /\ L \in Seq(Booked)
  BY ShapeFacts DEF CardsInv, Stands, BooksStand, Shape
<1>4. /\ e \in Booked /\ e.card = c /\ e.key = s
      /\ GivenBy(c)[e] = n /\ TakenBy(c)[e] = 0 /\ MadeBy[e] = 0
  <2> HIDE DEF n
  <2> QED
    BY <1>1, EntryFacts
<1>5. /\ f \in Booked /\ f.card = s /\ f.key = s
      /\ GivenBy(s)[f] = 0 /\ TakenBy(s)[f] = n /\ MadeBy[f] = 0
  <2> DEFINE q == -n
  <2>1. q \in Int /\ ~(q > 0) /\ (IF q < 0 THEN -q ELSE 0) = n
    BY <1>1
  <2> HIDE DEF q
  <2>2. LET g == [Entry(s, "adjustment", q) EXCEPT !.key = s]
        IN /\ g \in Booked /\ g.card = s /\ g.key = s
           /\ GivenBy(s)[g] = 0 /\ TakenBy(s)[g] = n /\ MadeBy[g] = 0
    BY <1>1, <2>1, EntryFacts
  <2> QED
    BY <2>2 DEF q
<1>6. MayBecome(m) /\ m.total = k.total + n /\ m.used = k.used + 0
  <2>1. u \in Nat
    BY <1>1 DEF Later
  <2> HIDE DEF u, n, k
  <2>2. MayBecome(k1) /\ k1.total = k.total + n /\ k1.used = k.used + 0
    BY <1>1 DEF MayBecome, CardType
  <2> HIDE DEF k1
  <2>3. MayBecome(m) /\ m.total = k1.total /\ m.used = k1.used
    BY <2>1, <2>2 DEF MayBecome, CardType
  <2> QED
    BY <2>2, <2>3
<1>7. MayBecome(v) /\ v.total = p.total + 0 /\ v.used = p.used + n
  <2> HIDE DEF p, n
  <2>1. MayBecome(p1) /\ p1.total = p.total + 0 /\ p1.used = p.used
    BY <1>1 DEF MayBecome, CardType, CardStatuses
  <2> HIDE DEF p1
  <2>2. MayBecome(v) /\ v.total = p1.total /\ v.used = n
    BY <1>1, <2>1 DEF MayBecome, CardType
  <2> QED
    BY <1>1, <1>2, <2>1, <2>2
<1>8. Shape(b1) /\ Follows(b, b1, e) /\ b1.codes = b.codes
  <2> HIDE DEF k, p, n, e, m
  <2>1. b1.codes = b.codes
    BY DEF Changed
  <2> QED
    BY <1>1, <1>3, <1>4, <1>6, <2>1, CardFollows
<1>9. b1.cards = [C EXCEPT ![c] = m] /\ b1.ledger = Append(L, e)
  BY DEF Changed
<1>10. Shape(b2) /\ Follows(b1, b2, f) /\ b2.codes = b.codes
  <2> HIDE DEF k, p, n, e, f, m, v
  <2>1. b1.cards[s] = p /\ s \in DOMAIN b1.cards
    BY <1>1, <1>2, <1>9
  <2>2. b2.codes = b.codes /\ b2 = Changed(b1, s, v, b.codes, Append(b1.ledger, f))
    BY <1>9 DEF Changed
  <2> HIDE DEF b1, b2
  <2> QED
    BY <1>1, <1>3, <1>5, <1>7, <1>8, <2>1, <2>2, CardFollows
<1>11. Stands(b2)
  <2> HIDE DEF k, p, n, e, f, b1, b2
  <2>1. GivenBy(c)[e] - TakenBy(c)[e] + GivenBy(s)[f] - TakenBy(s)[f] = 0
    BY <1>1, <1>4, <1>5
  <2> QED
    BY <1>1, <1>3, <1>4, <1>5, <1>8, <1>10, <2>1, RenewalStands
<1>12. Renewed(c, s) = b2
  <2> DEFINE A == b.archives  Y == b.summary  R == b.orders  O == b.codes
             q == L \o <<e, f>>
             C1 == [C EXCEPT ![c].total = C[c].total + n]
             C2 == [C1 EXCEPT ![c].until = u]
             C3 == [C2 EXCEPT ![s].status = "voided"]
             C4 == [C3 EXCEPT ![s].used = n]
             D == [[C EXCEPT ![c] = m] EXCEPT ![s] = v]
  <2>1. q = Append(Append(L, e), f)
    <3> HIDE DEF L, e, f
    <3> QED
      BY <1>3, <1>4, <1>5
  <2>2. b = [cards |-> C, codes |-> O, ledger |-> L, archives |-> A, summary |-> Y, orders |-> R]
    BY <1>3, ShapeFacts
  <2>3. b2 = [cards |-> D, codes |-> O, ledger |-> q, archives |-> A, summary |-> Y, orders |-> R]
    <3> HIDE DEF m, v, e, f, q
    <3> QED
      BY <2>1 DEF Changed
  <2>4. C4 = D
    <3> HIDE DEF k, p, n, u
    <3>1. C1 = [C EXCEPT ![c] = k1]
      BY <1>1
    <3> HIDE DEF C1, k1
    <3>2. C1[c] = k1 /\ c \in DOMAIN C1 /\ C1[s] = p /\ DOMAIN C1 = DOMAIN C
      BY <1>1, <1>2, <3>1
    <3>3. C2 = [C1 EXCEPT ![c] = m]
      BY <3>2
    <3>4. [C1 EXCEPT ![c] = m] = [C EXCEPT ![c] = m]
      <4> HIDE DEF m
      <4> QED
        BY <3>1
    <3> HIDE DEF C2, m
    <3>5. C2 = [C EXCEPT ![c] = m] /\ C2[s] = p /\ s \in DOMAIN C2
      BY <1>1, <1>2, <3>3, <3>4
    <3>6. C3 = [C2 EXCEPT ![s] = p1]
      BY <3>5
    <3> HIDE DEF C3, p1
    <3>7. C3[s] = p1 /\ s \in DOMAIN C3
      BY <3>5, <3>6
    <3>8. C4 = [C3 EXCEPT ![s] = v]
      BY <3>7
    <3> HIDE DEF C4, v
    <3>9. [C3 EXCEPT ![s] = v] = [C2 EXCEPT ![s] = v]
      BY <3>6
    <3> QED
      BY <3>5, <3>8, <3>9
  <2>5. Renewed(c, s) = [[b EXCEPT !.cards = C4] EXCEPT !.ledger = q]
    <3> DEFINE x1 == [b EXCEPT !.cards[c].total = b.cards[c].total + Card(s).total]
               x2 == [x1 EXCEPT !.cards[c].until =
                        IF b.cards[c].until = 0 THEN 0
                        ELSE Later(b.cards[c].until, day + RenewalDays)]
               x3 == [x2 EXCEPT !.cards[s].status = "voided"]
               x4 == [x3 EXCEPT !.cards[s].used = Card(s).total]
               x5 == [x4 EXCEPT !.ledger =
                        b.ledger \o <<[Entry(c, "topup", Card(s).total) EXCEPT !.key = s],
                                      [Entry(s, "adjustment", -Card(s).total) EXCEPT !.key = s]>>]
    <3>1. Renewed(c, s) = x5
      BY Zenon DEF Renewed
    <3>2. x5 = [x4 EXCEPT !.ledger = q]
      OBVIOUS
    <3> HIDE DEF x5, q, u
    <3>3. x1 = [b EXCEPT !.cards = C1] /\ x1.cards = C1
      <4>1. x1 = [b EXCEPT !.cards = C1]
        OBVIOUS
      <4> HIDE DEF x1, C1
      <4> QED
        BY <2>2, <4>1
    <3>4. x2 = [x1 EXCEPT !.cards = C2]
      <4> HIDE DEF x1, C1
      <4> QED
        BY <3>3 DEF u
    <3> HIDE DEF x1, C1, x2, C2
    <3>5. x2 = [b EXCEPT !.cards = C2] /\ x2.cards = C2
      <4> HIDE DEF A, Y, R, O, L, C
      <4> QED
        BY <2>2, <3>3, <3>4
    <3>6. x3 = [x2 EXCEPT !.cards = C3]
      BY <3>5
    <3> HIDE DEF x3, C3
    <3>7. x3 = [b EXCEPT !.cards = C3] /\ x3.cards = C3
      <4> HIDE DEF A, Y, R, O, L, C
      <4> QED
        BY <2>2, <3>5, <3>6
    <3>8. x4 = [x3 EXCEPT !.cards = C4]
      BY <3>7
    <3> HIDE DEF x4, C4
    <3>9. x4 = [b EXCEPT !.cards = C4]
      <4> HIDE DEF A, Y, R, O, L, C
      <4> QED
        BY <2>2, <3>7, <3>8
    <3> QED
      BY <3>1, <3>2, <3>9
  <2> HIDE DEF C4, D, q, L, C, A, Y, R, O, b2
  <2>6. [[b EXCEPT !.cards = C4] EXCEPT !.ledger = q]
          = [cards |-> C4, codes |-> O, ledger |-> q, archives |-> A, summary |-> Y, orders |-> R]
    <3> DEFINE x == [b EXCEPT !.cards = C4]
    <3>1. x = [cards |-> C4, codes |-> O, ledger |-> L, archives |-> A, summary |-> Y, orders |-> R]
      BY <2>2
    <3> HIDE DEF x
    <3>2. [x EXCEPT !.ledger = q]
            = [cards |-> C4, codes |-> O, ledger |-> q, archives |-> A, summary |-> Y, orders |-> R]
      BY <3>1
    <3> QED
      BY <3>2 DEF x
  <2> QED
    BY <2>3, <2>4, <2>5, <2>6
<1>13. CommitBooks(Renewed(c, s), index, calls)
  BY DEF RenewWithCard
<1> HIDE DEF b2
<1> QED
  BY <1>11, <1>12, <1>13, Committed

\* What the requests of a call were charged.
PaidBy(call) == [i \in DOMAIN call.found |-> (CHOOSE x \in call.found[i] : TRUE).credits]

\* What a call asks for, and the entry it would make.
LEMMA AdjustmentFacts ==
  ASSUME CardsInv, NEW call \in calls
  PROVE  LET ask == call.ask
             e == AdjustmentEntry(call)
         IN /\ ask \in Asks /\ ask.card \in CardIds /\ ask.delta \in Int
            /\ ask.names \in Seq(CardRequests) /\ ask.key \in Keys
            /\ DOMAIN call.found = DOMAIN ask.names /\ PaidBy(call) \in Seq(Nat)
            /\ Len(PaidBy(call)) = Len(ask.names)
            /\ e \in Booked /\ e.card = ask.card /\ e.key = ask.key /\ e.kind = "adjustment"
            /\ e.credits = ask.delta /\ e.names = ask.names /\ e.again = ask.again
            /\ e.charged = PaidBy(call)
<1> DEFINE ask == call.ask  c == ask.card  d == ask.delta  paid == PaidBy(call)
           e == AdjustmentEntry(call)
<1>1. /\ ask \in Asks /\ c \in CardIds /\ d \in Int /\ ask.names \in Seq(CardRequests)
      /\ ask.again \in BOOLEAN /\ ask.key \in Keys
      /\ call.found \in Seq(SUBSET {x \in Booked : x.kind = "usage"})
      /\ DOMAIN call.found = DOMAIN ask.names
      /\ \A i \in DOMAIN call.found : call.found[i] # {}
  <2>1. /\ call \in Found /\ DOMAIN call.found = DOMAIN ask.names
        /\ \A i \in DOMAIN call.found : call.found[i] # {}
    BY DEF CardsInv, CallsTyped
  <2>2. ask \in Asks /\ call.found \in Seq(SUBSET {x \in Booked : x.kind = "usage"})
    BY <2>1 DEF Found
  <2> HIDE DEF ask
  <2> QED
    BY <2>1, <2>2, SomethingIsSold
<1>2. paid \in Seq(Nat) /\ Len(paid) = Len(ask.names)
  <2> DEFINE F == call.found  U == {x \in Booked : x.kind = "usage"}
  <2>1. \A i \in DOMAIN F : F[i] \in SUBSET U /\ F[i] # {}
    BY <1>1
  <2>2. \A x \in U : x.credits \in Nat
    BY DEF Booked
  <2>3. DOMAIN F = 1 .. Len(F) /\ Len(F) \in Nat /\ Len(F) = Len(ask.names)
    BY <1>1
  <2>4. paid = [i \in DOMAIN F |-> (CHOOSE x \in F[i] : TRUE).credits]
    BY DEF PaidBy
  <2> HIDE DEF F, U, paid
  <2>5. \A i \in DOMAIN F : (CHOOSE x \in F[i] : TRUE) \in U
    BY <2>1
  <2>6. \A i \in DOMAIN F : (CHOOSE x \in F[i] : TRUE).credits \in Nat
    BY <2>2, <2>5
  <2>7. paid \in [1 .. Len(F) -> Nat]
    BY <2>3, <2>4, <2>6
  <2> QED
    BY <2>3, <2>7
<1>3. /\ e \in Booked /\ e.card = c /\ e.key = ask.key /\ e.kind = "adjustment" /\ e.credits = d
      /\ e.names = ask.names /\ e.again = ask.again /\ e.charged = paid
  <2> DEFINE x0 == Entry(c, "adjustment", d)
             x1 == [x0 EXCEPT !.key = ask.key]
             x2 == [x1 EXCEPT !.names = ask.names]
             x3 == [x2 EXCEPT !.again = ask.again]
             x4 == [x3 EXCEPT !.charged = paid]
  <2>1. e = x4
    BY Zenon DEF AdjustmentEntry, PaidBy
  <2> HIDE DEF ask, paid, e
  <2>2. x0 \in BookedType /\ x0.card = c /\ x0.kind = "adjustment" /\ x0.credits = d
    <3>1. <<>> \in Seq(CardRequests) /\ <<>> \in Seq(Nat) /\ "none" \in EntryKeys
      BY DEF EntryKeys
    <3> QED
      BY <1>1, <3>1 DEF Entry, BookedType
  <2>3. ask.key \in EntryKeys
    BY <1>1 DEF EntryKeys
  <2> HIDE DEF x0
  <2>4. /\ x1 \in BookedType /\ x1.card = c /\ x1.kind = "adjustment" /\ x1.credits = d
        /\ x1.key = ask.key
    BY <2>2, <2>3 DEF BookedType
  <2> HIDE DEF x1
  <2>5. /\ x2 \in BookedType /\ x2.card = c /\ x2.kind = "adjustment" /\ x2.credits = d
        /\ x2.key = ask.key /\ x2.names = ask.names
    BY <1>1, <2>4 DEF BookedType
  <2> HIDE DEF x2
  <2>6. /\ x3 \in BookedType /\ x3.card = c /\ x3.kind = "adjustment" /\ x3.credits = d
        /\ x3.key = ask.key /\ x3.names = ask.names /\ x3.again = ask.again
    BY <1>1, <2>5 DEF BookedType
  <2> HIDE DEF x3
  <2>7. /\ x4 \in BookedType /\ x4.card = c /\ x4.kind = "adjustment" /\ x4.credits = d
        /\ x4.key = ask.key /\ x4.names = ask.names /\ x4.again = ask.again
        /\ x4.charged = paid
    BY <1>2, <2>6 DEF BookedType
  <2> HIDE DEF x4
  <2> QED
    BY <2>1, <2>7 DEF Booked
<1> HIDE DEF paid, e
<1> QED
  BY <1>1, <1>2, <1>3 DEF paid, e

\* A call's adjustment is booked.
LEMMA AdjustmentKeeps ==
  ASSUME CardsInv, NEW call \in calls, AdjustCardBalance(call)
  PROVE  CardsInv'
<1> DEFINE ask == call.ask  c == ask.card  d == ask.delta  k == Card(c)
           e == AdjustmentEntry(call)
           kg == [k EXCEPT !.total = @ + d]
           kt == [k EXCEPT !.used = @ - d]
           m == IF d > 0 THEN kg ELSE kt
<1>1. ask \in Asks /\ c \in CardIds /\ d \in Int /\ ask.key \in Keys
  BY AdjustmentFacts
<1>2. c \in DOMAIN books.cards /\ UsedFor(books, ask.key) = {}
  BY DEF AdjustCardBalance, Sold
<1>3. /\ k = books.cards[c] /\ MayBecome(k) /\ k \in CardType /\ k.total \in Nat /\ k.used \in Nat
  BY <1>2, CardFacts DEF MayBecome
<1>5. /\ e \in Booked /\ e.card = c /\ e.key = ask.key /\ e.kind = "adjustment" /\ e.credits = d
  BY AdjustmentFacts
<1>6. /\ CommitBooks(Changed(books, c, m, books.codes, Append(books.ledger, e)),
                     AddCompensation(index, e), calls \ {call})
  <2>1. Shape(books)
    BY DEF CardsInv, Stands, BooksStand
  <2>2. ChangesTo(books, c, m, Append(books.ledger, e))
    BY <2>1, ChangeForm
  <2>3. CommitBooks([books EXCEPT !.cards[c] = m, !.ledger = Append(@, e)],
                    AddCompensation(index, e), calls \ {call})
    BY DEF AdjustCardBalance
  <2> HIDE DEF c, m, e
  <2>4. [books EXCEPT !.cards[c] = m, !.ledger = Append(@, e)]
          = Changed(books, c, m, books.codes, Append(books.ledger, e))
    BY <2>2, Zenon DEF ChangesTo
  <2> QED
    BY <2>3, <2>4
<1> HIDE DEF e, k, ask
<1>7. /\ GivenBy(c)[e] = IF d > 0 THEN d ELSE 0
      /\ TakenBy(c)[e] = IF d < 0 THEN -d ELSE 0
      /\ MadeBy[e] = d
  BY <1>1, <1>5 DEF GivenBy, TakenBy, MadeBy
<1> HIDE DEF c, d
<1>8. /\ MayBecome(m) /\ m.total = k.total + GivenBy(c)[e]
      /\ m.used = k.used + TakenBy(c)[e]
  <2>1. CASE d > 0
    <3>1. k.total + d \in Nat
      BY <1>1, <1>3, <2>1
    <3>2. MayBecome(kg) /\ kg.total = k.total + d /\ kg.used = k.used
      BY <1>3, <3>1 DEF MayBecome, CardType
    <3> HIDE DEF kg, kt
    <3> QED
      BY <1>1, <1>3, <1>7, <2>1, <3>2
  <2>2. CASE ~(d > 0)
    <3>1. k.used - d \in Nat
      BY <1>1, <1>3, <2>2
    <3>2. MayBecome(kt) /\ kt.total = k.total /\ kt.used = k.used - d
      BY <1>3, <3>1 DEF MayBecome, CardType
    <3> HIDE DEF kg, kt
    <3>3. GivenBy(c)[e] = 0 /\ TakenBy(c)[e] = -d
      BY <1>1, <1>7, <2>2
    <3> QED
      BY <1>1, <1>3, <2>2, <3>2, <3>3
  <2> QED
    BY <2>1, <2>2
<1>9. /\ books.codes \in SUBSET TopupCodes /\ IsFiniteSet(books.codes)
      /\ WorthOf(books.codes) = WorthOf(books.codes) + 0 /\ 0 \in Int
  <2>1. Shape(books)
    BY DEF CardsInv, Stands, BooksStand
  <2>2. books.codes \in SUBSET TopupCodes /\ IsFiniteSet(books.codes)
    BY <2>1, ShapeFacts DEF Shape
  <2> QED
    BY <2>2, CodesFacts
<1>10. GivenBy(c)[e] - TakenBy(c)[e] = MadeBy[e] + 0
  BY <1>1, <1>7
<1> HIDE DEF m
<1>11. calls \ {call} \subseteq calls
  OBVIOUS
<1> QED
  BY <1>2, <1>3, <1>5, <1>6, <1>8, <1>9, <1>10, <1>11, EntryCommitted

\* Looking up requests, ending a call and the passing of time.
LEMMA CallsKeep ==
  ASSUME CardsInv,
         \/ \E ask \in Asks : LookUpRequests(ask)
         \/ \E call \in calls : CallEnds(call)
         \/ DayPasses
  PROVE  CardsInv'
<1>1. CASE \E ask \in Asks : LookUpRequests(ask)
  <2>1. PICK ask \in Asks : LookUpRequests(ask)
    BY <1>1
  <2> DEFINE N == ask.names  found == [i \in DOMAIN N |-> ChargeOf(books, N[i])]
             call == [ask |-> ask, found |-> found]
             U == {x \in Booked : x.kind = "usage"}
  <2>2. /\ \A i \in DOMAIN found : found[i] # {}
        /\ calls' = calls \cup {call} /\ books' = books /\ day' = day
    BY <2>1 DEF LookUpRequests
  <2>3. N \in Seq(CardRequests)
    BY SomethingIsSold
  <2>4. \A r : ChargeOf(books, r) \in SUBSET U
    <3>1. books.ledger \in Seq(Booked) /\ books.archives \in Seq(Booked)
      BY ShapeFacts DEF CardsInv, Stands, BooksStand
    <3>2. Range(books.ledger) \subseteq Booked /\ Range(books.archives) \subseteq Booked
      BY <3>1 DEF Range
    <3> QED
      BY <3>2 DEF ChargeOf
  <2>5. found \in Seq(SUBSET U)
    <3> HIDE DEF N, U
    <3>1. DOMAIN N = 1 .. Len(N) /\ Len(N) \in Nat
      BY <2>3
    <3> QED
      BY <2>4, <3>1
  <2>6. call \in Found /\ call.ask = ask /\ call.found = found /\ DOMAIN found = DOMAIN N
    <3> HIDE DEF found
    <3>1. call \in Found
      BY <2>5 DEF Found
    <3> QED
      BY <3>1 DEF found
  <2> HIDE DEF call, found
  <2>7. CallsTyped'
    BY <2>2, <2>6 DEF CardsInv, CallsTyped
  <2>8. Stands(books') /\ day' \in Nat
    BY <2>2 DEF CardsInv
  <2> QED
    BY <2>7, <2>8 DEF CardsInv
<1>2. CASE \E call \in calls : CallEnds(call)
  <2>1. calls' \subseteq calls /\ books' = books /\ day' = day
    BY <1>2 DEF CallEnds
  <2>2. CallsTyped'
    BY <2>1 DEF CardsInv, CallsTyped
  <2> QED
    BY <2>1, <2>2 DEF CardsInv
<1>3. CASE DayPasses
  <2>1. calls' = calls /\ books' = books /\ day' = day + 1
    BY <1>3 DEF DayPasses
  <2>2. CallsTyped'
    BY <2>1 DEF CardsInv, CallsTyped
  <2>3. day' \in Nat
    BY <2>1 DEF CardsInv
  <2> QED
    BY <2>1, <2>2, <2>3 DEF CardsInv
<1> QED
  BY <1>1, <1>2, <1>3

\* Books put together from parts of the right shape.
LEMMA ShapeMade ==
  ASSUME NEW S \in SUBSET CardIds, IsFiniteSet(S), NEW C \in [S -> CardType],
         NEW O \in SUBSET TopupCodes, IsFiniteSet(O), NEW L \in Seq(Booked),
         NEW A \in Seq(Booked), NEW Y \in SummaryType, NEW R \in OrderTables,
         Range(R) \subseteq S, \A c \in S : MayBecome(C[c])
  PROVE  Shape([cards |-> C, codes |-> O, ledger |-> L, archives |-> A, summary |-> Y,
                orders |-> R])
<1> DEFINE b == [cards |-> C, codes |-> O, ledger |-> L, archives |-> A, summary |-> Y,
                 orders |-> R]
<1>1. C \in CardTables
  BY DEF CardTables
<1>2. b \in BooksType
  BY <1>1 DEF BooksType
<1>3. b.cards = C /\ b.codes = O /\ b.orders = R /\ DOMAIN C = S
  OBVIOUS
<1> HIDE DEF b
<1> QED
  BY <1>2, <1>3 DEF Shape, MayBecome, b

\* Cards change, but not their balances.
LEMMA RecardKeeps ==
  ASSUME CardsInv, NEW g, DOMAIN g = DOMAIN books.cards,
         \A c \in DOMAIN books.cards : /\ MayBecome(g[c])
                                       /\ g[c].total = books.cards[c].total
                                       /\ g[c].used = books.cards[c].used,
         g = [c \in DOMAIN g |-> g[c]],
         CommitBooks([books EXCEPT !.cards = g], index, calls)
  PROVE  CardsInv'
<1> DEFINE C == books.cards  O == books.codes  L == books.ledger  A == books.archives
           Y == books.summary  R == books.orders
           b2 == [cards |-> g, codes |-> O, ledger |-> L, archives |-> A, summary |-> Y,
                  orders |-> R]
<1>1. Shape(books) /\ Stands(books)
  BY DEF CardsInv, Stands, BooksStand
<1>2. /\ books = [cards |-> C, codes |-> O, ledger |-> L, archives |-> A, summary |-> Y,
                  orders |-> R]
      /\ DOMAIN C \in SUBSET CardIds /\ IsFiniteSet(DOMAIN C) /\ IsFiniteSet(O)
      /\ O \in SUBSET TopupCodes /\ L \in Seq(Booked) /\ A \in Seq(Booked) /\ Y \in SummaryType
      /\ R \in OrderTables /\ Range(R) \subseteq DOMAIN C
  BY <1>1, ShapeFacts DEF Shape, BooksType
<1>3. g \in [DOMAIN C -> CardType]
  BY DEF MayBecome
<1>4. Shape(b2)
  <2> DEFINE S == DOMAIN C
  <2>1. \A c \in S : MayBecome(g[c])
    OBVIOUS
  <2> HIDE DEF S, C, O, L, A, Y, R
  <2> QED
    BY <1>2, <1>3, <2>1, ShapeMade DEF S
<1>5. [books EXCEPT !.cards = g] = b2
  <2> HIDE DEF C, O, L, A, Y, R
  <2> QED
    BY <1>2
<1>6. /\ b2.cards = g /\ b2.codes = O /\ AllOf(b2) = AllOf(books)
      /\ b2.summary = SummaryOf(b2.archives)
  BY <1>1 DEF AllOf, Stands, BooksStand
<1> HIDE DEF b2
<1>7. Stands(b2)
  BY <1>1, <1>4, <1>6, QuietStands
<1>8. CommitBooks(b2, index, calls)
  BY <1>5
<1> QED
  BY <1>7, <1>8, Committed

\* Validity is extended.
LEMMA ExtensionsKeep ==
  ASSUME CardsInv, NEW cs \in SUBSET DOMAIN books.cards,
         ExtendValidity(cs) \/ \E until \in 1 .. MaxUntil : ExtendUntil(cs, until)
  PROVE  CardsInv'
<1>1. \A c \in DOMAIN books.cards :
        /\ books.cards[c] = Card(c) /\ MayBecome(Card(c)) /\ Card(c) \in CardType
        /\ Card(c).until \in Nat /\ Card(c).duration \in Nat
  BY CardFacts DEF MayBecome
<1>2. day \in Nat
  BY DEF CardsInv
<1>3. CASE ExtendValidity(cs)
  <2> DEFINE g == [c \in DOMAIN books.cards |->
                     IF c \in cs THEN Extended(books.cards[c], 1) ELSE books.cards[c]]
  <2>1. CommitBooks([books EXCEPT !.cards = g], index, calls)
    BY <1>3 DEF ExtendValidity
  <2>2. ASSUME NEW k \in CardType, MayBecome(k), k.until \in Nat, k.duration \in Nat
        PROVE  LET x == Extended(k, 1)
               IN MayBecome(x) /\ x.total = k.total /\ x.used = k.used
    <3> DEFINE u == Later(k.until, day) + 1
    <3>1. u \in Nat
      BY <1>2, <2>2 DEF Later
    <3> HIDE DEF u
    <3>2. CASE AwaitsActivation(k)
      <4> DEFINE z == [k EXCEPT !.duration = @ + 1]
      <4>1. Extended(k, 1) = z
        BY <3>2 DEF Extended
      <4>2. MayBecome(z) /\ z.total = k.total /\ z.used = k.used
        BY <2>2 DEF MayBecome, CardType
      <4> QED
        BY <4>1, <4>2
    <3>3. CASE ~AwaitsActivation(k)
      <4> DEFINE z == [k EXCEPT !.until = u]
      <4>1. Extended(k, 1) = z
        BY <3>3 DEF Extended, u
      <4>2. MayBecome(z) /\ z.total = k.total /\ z.used = k.used
        BY <2>2, <3>1 DEF MayBecome, CardType
      <4> QED
        BY <4>1, <4>2
    <3> QED
      BY <3>2, <3>3
  <2>3. \A c \in DOMAIN books.cards : /\ MayBecome(g[c])
                                      /\ g[c].total = books.cards[c].total
                                      /\ g[c].used = books.cards[c].used
    BY <1>1, <2>2
  <2>4. DOMAIN g = DOMAIN books.cards /\ g = [c \in DOMAIN g |-> g[c]]
    OBVIOUS
  <2> HIDE DEF g
  <2> QED
    BY <2>1, <2>3, <2>4, RecardKeeps
<1>4. CASE \E until \in 1 .. MaxUntil : ExtendUntil(cs, until)
  <2>1. PICK until \in 1 .. MaxUntil : ExtendUntil(cs, until)
    BY <1>4
  <2> DEFINE g == [c \in DOMAIN books.cards |->
                     IF c \in cs THEN [books.cards[c] EXCEPT !.until = until]
                     ELSE books.cards[c]]
  <2>2. CommitBooks([books EXCEPT !.cards = g], index, calls)
    BY <2>1 DEF ExtendUntil
  <2>3. until \in Nat
    BY <1>2, <2>1
  <2>4. ASSUME NEW k \in CardType, MayBecome(k)
        PROVE  LET x == [k EXCEPT !.until = until]
               IN MayBecome(x) /\ x.total = k.total /\ x.used = k.used
    BY <2>3, <2>4 DEF MayBecome, CardType
  <2>5. \A c \in DOMAIN books.cards : /\ MayBecome(g[c])
                                      /\ g[c].total = books.cards[c].total
                                      /\ g[c].used = books.cards[c].used
    BY <1>1, <2>4
  <2>6. DOMAIN g = DOMAIN books.cards /\ g = [c \in DOMAIN g |-> g[c]]
    OBVIOUS
  <2> HIDE DEF g
  <2> QED
    BY <2>2, <2>5, <2>6, RecardKeeps
<1> QED
  BY <1>3, <1>4

\* A card is issued, by an operator or to an order.
LEMMA IssuesKeep ==
  ASSUME CardsInv, NEW c \in CardIds, NEW d \in Durations,
         IssueCard(c, d) \/ \E o \in Orders : FulfillCardOrder(o, c, d)
  PROVE  CardsInv'
<1> DEFINE C == books.cards  O == books.codes  L == books.ledger  A == books.archives
           Y == books.summary  R == books.orders  S == DOMAIN C
           g == [x \in S \cup {c} |-> IF x = c THEN NewCard(d) ELSE C[x]]
           Made(r) == [cards |-> g, codes |-> O, ledger |-> L, archives |-> A, summary |-> Y,
                       orders |-> r]
<1>1. Shape(books) /\ Stands(books)
  BY DEF CardsInv, Stands, BooksStand
<1>2. /\ books = [cards |-> C, codes |-> O, ledger |-> L, archives |-> A, summary |-> Y,
                  orders |-> R]
      /\ S \in SUBSET CardIds /\ IsFiniteSet(S) /\ IsFiniteSet(O)
      /\ O \in SUBSET TopupCodes /\ L \in Seq(Booked) /\ A \in Seq(Booked) /\ Y \in SummaryType
      /\ R \in OrderTables /\ Range(R) \subseteq S
      /\ \A x \in S : MayBecome(C[x])
  BY <1>1, ShapeFacts DEF Shape, BooksType, MayBecome
<1>3. c \notin S
  BY DEF IssueCard, FulfillCardOrder, Sold
<1>4. MayBecome(NewCard(d)) /\ NewCard(d).total = IssuedCredits /\ NewCard(d).used = 0
  <2>1. IssuedCredits \in Nat /\ d \in Nat
    BY SomethingIsSold
  <2> QED
    BY <2>1 DEF NewCard, MayBecome, CardType, CardStatuses
<1>5. /\ g \in [S \cup {c} -> CardType] /\ \A x \in S \cup {c} : MayBecome(g[x])
      /\ \A x \in S : g[x] = C[x]
      /\ g[c].total = IssuedCredits /\ g[c].used = 0
  <2> HIDE DEF C, S
  <2> QED
    BY <1>2, <1>3, <1>4 DEF MayBecome
<1>6. S \cup {c} \in SUBSET CardIds /\ IsFiniteSet(S \cup {c})
  BY <1>2, FS_AddElement
<1>7. ASSUME NEW r \in OrderTables, Range(r) \subseteq S \cup {c} PROVE Stands(Made(r))
  <2> DEFINE b2 == Made(r)
  <2>1. Shape(b2)
    <3> HIDE DEF C, O, L, A, Y, R, S, g
    <3> QED
      BY <1>2, <1>5, <1>6, <1>7, ShapeMade
  <2>2. /\ b2.cards = g /\ b2.codes = O /\ b2.ledger = L /\ b2.archives = A /\ b2.summary = Y
    OBVIOUS
  <2>3. DOMAIN g = S \cup {c}
    OBVIOUS
  <2> HIDE DEF b2, g
  <2>4. Stands(b2)
    BY <1>1, <1>3, <1>5, <2>1, <2>2, <2>3, IssueStands
  <2> QED
    BY <2>4 DEF b2
<1>8. Issued(books, c, d) = Made(R)
  <2> DEFINE x == [books EXCEPT !.cards = g]
  <2>1. Issued(books, c, d) = x
    BY DEF Issued
  <2> HIDE DEF C, O, L, A, Y, R, g
  <2>2. x = Made(R)
    BY <1>2
  <2> QED
    BY <2>1, <2>2
<1> HIDE DEF g
<1>9. CASE IssueCard(c, d)
  <2>1. CommitBooks(Made(R), index, calls)
    BY <1>8, <1>9 DEF IssueCard
  <2>2. Stands(Made(R))
    <3> HIDE DEF R, C, S, Made
    <3> QED
      BY <1>2, <1>7
  <2> HIDE DEF Made
  <2> QED
    BY <2>1, <2>2, Committed
<1>10. CASE \E o \in Orders : FulfillCardOrder(o, c, d)
  <2>1. PICK o \in Orders : FulfillCardOrder(o, c, d)
    BY <1>10
  <2> DEFINE r == [x \in DOMAIN R \cup {o} |-> IF x = o THEN c ELSE R[x]]
             b1 == Made(R)
  <2>2. CommitBooks([Issued(books, c, d) EXCEPT
                       !.orders = [x \in DOMAIN @ \cup {o} |-> IF x = o THEN c ELSE @[x]]],
                    index, calls)
    BY <2>1 DEF FulfillCardOrder
  <2>3. b1.orders = R
    OBVIOUS
  <2>4. [b1 EXCEPT !.orders = r] = Made(r)
    <3> HIDE DEF C, O, L, A, Y, R, S, r
    <3> QED
      OBVIOUS
  <2>5. r \in OrderTables /\ Range(r) \subseteq S \cup {c}
    <3> HIDE DEF C, S, R
    <3>1. PICK D \in SUBSET Orders : R \in [D -> CardIds]
      BY <1>2 DEF OrderTables
    <3>2. r \in [D \cup {o} -> CardIds] /\ D \cup {o} \in SUBSET Orders
      BY <2>1, <3>1
    <3>3. r \in OrderTables
      <4> HIDE DEF r
      <4> QED
        BY <3>2 DEF OrderTables
    <3>4. Range(r) \subseteq S \cup {c}
      BY <1>2, <3>1 DEF Range
    <3> QED
      BY <3>3, <3>4
  <2>6. Stands(Made(r))
    <3> HIDE DEF r, S, Made
    <3> QED
      BY <1>7, <2>5
  <2>7. [Issued(books, c, d) EXCEPT
           !.orders = [x \in DOMAIN @ \cup {o} |-> IF x = o THEN c ELSE @[x]]]
          = [b1 EXCEPT !.orders = r]
    <3> HIDE DEF b1, R
    <3>1. [b1 EXCEPT !.orders = [x \in DOMAIN @ \cup {o} |-> IF x = o THEN c ELSE @[x]]]
            = [b1 EXCEPT !.orders = r]
      BY <2>3
    <3>2. Issued(books, c, d) = b1
      BY <1>8 DEF b1
    <3> QED
      BY <3>1, <3>2
  <2>8. CommitBooks(Made(r), index, calls)
    <3> HIDE DEF Made, r, b1, R
    <3> QED
      BY <2>2, <2>4, <2>7
  <2> HIDE DEF Made, r
  <2> QED
    BY <2>6, <2>8, Committed
<1> QED
  BY <1>9, <1>10

\* Archiving the oldest entries leaves all of them where they were.
LEMMA ArchivedParts ==
  ASSUME NEW A \in Seq(Booked), NEW L \in Seq(Booked), NEW n \in 1 .. Len(L)
  PROVE  LET d == SubSeq(L, 1, n)
             l == SubSeq(L, n + 1, Len(L))
         IN /\ d \in Seq(Booked) /\ l \in Seq(Booked) /\ A \o d \in Seq(Booked)
            /\ (A \o d) \o l = A \o L
<1> DEFINE d == SubSeq(L, 1, n)  l == SubSeq(L, n + 1, Len(L))
<1>1. Len(L) \in Nat /\ \A i \in 1 .. Len(L) : L[i] \in Booked
  OBVIOUS
<1>2. d = [i \in 1 .. n |-> L[i]] /\ d \in Seq(Booked) /\ Len(d) = n
  BY <1>1
<1>3. l = [i \in 1 .. Len(L) - n |-> L[n + i]] /\ l \in Seq(Booked) /\ Len(l) = Len(L) - n
  BY <1>1
<1> HIDE DEF d, l
<1>4. d \o l \in Seq(Booked) /\ Len(d \o l) = Len(L)
  BY <1>1, <1>2, <1>3
<1>5. \A i \in 1 .. Len(L) : (d \o l)[i] = L[i]
  BY <1>1, <1>2, <1>3
<1>6. d \o l = L
  BY <1>1, <1>4, <1>5, SequencesEqual
<1>7. Associates(A, d, l)
  BY <1>2, <1>3, ConcatAssociates
<1>8. A \o d \in Seq(Booked)
  BY <1>2
<1>9. (A \o d) \o l = A \o L
  BY <1>6, <1>7, Zenon DEF Associates
<1> QED
  BY <1>2, <1>3, <1>8, <1>9 DEF d, l

\* Entries are archived, and the books are loaded again.
LEMMA ArchivesKeep ==
  ASSUME CardsInv, (\E n \in 1 .. Len(books.ledger) : ArchiveEntries(n)) \/ RestartBooks
  PROVE  CardsInv'
<1> DEFINE C == books.cards  O == books.codes  L == books.ledger  A == books.archives
           Y == books.summary  R == books.orders  S == DOMAIN C
<1>1. Shape(books) /\ Stands(books) /\ Y = SummaryOf(A)
  BY DEF CardsInv, Stands, BooksStand
<1>2. /\ books = [cards |-> C, codes |-> O, ledger |-> L, archives |-> A, summary |-> Y,
                  orders |-> R]
      /\ S \in SUBSET CardIds /\ IsFiniteSet(S) /\ C \in [S -> CardType] /\ IsFiniteSet(O)
      /\ O \in SUBSET TopupCodes /\ L \in Seq(Booked) /\ A \in Seq(Booked) /\ Y \in SummaryType
      /\ R \in OrderTables /\ Range(R) \subseteq S
      /\ \A x \in S : MayBecome(C[x])
  BY <1>1, ShapeFacts DEF Shape, BooksType, MayBecome
<1>3. CASE \E n \in 1 .. Len(L) : ArchiveEntries(n)
  <2>1. PICK n \in 1 .. Len(L) : ArchiveEntries(n)
    BY <1>3
  <2> DEFINE d == SubSeq(L, 1, n)  l == SubSeq(L, n + 1, Len(L))
             a == A \o d  y == FoldLeft(Include, Y, d)
             b2 == [cards |-> C, codes |-> O, ledger |-> l, archives |-> a, summary |-> y,
                    orders |-> R]
  <2>2. /\ d \in Seq(Booked) /\ l \in Seq(Booked) /\ a \in Seq(Booked)
        /\ a \o l = A \o L
    <3> HIDE DEF L, A
    <3> QED
      BY <1>2, <2>1, ArchivedParts
  <2>4. y = SummaryOf(a) /\ y \in SummaryType
    <3>1. y = SummaryOf(a)
      <4> HIDE DEF d, A
      <4> QED
        BY <1>1, <1>2, <2>2, SummaryJoins
    <3> HIDE DEF y, a
    <3> QED
      BY <2>2, <3>1, SummaryFacts DEF Summarises
  <2> HIDE DEF d, l, a, y
  <2>5. Shape(b2)
    <3> HIDE DEF C, O, L, A, Y, R, S
    <3> QED
      BY <1>2, <2>2, <2>4, ShapeMade
  <2>6. CommitBooks(b2, index, calls)
    <3> DEFINE x1 == [books EXCEPT !.ledger = l]
               x2 == [x1 EXCEPT !.archives = a]
               x3 == [x2 EXCEPT !.summary = y]
    <3>1. CommitBooks([books EXCEPT !.ledger = SubSeq(@, n + 1, Len(@)),
                                    !.archives = @ \o SubSeq(books.ledger, 1, n),
                                    !.summary = FoldLeft(Include, @, SubSeq(books.ledger, 1, n))],
                      index, calls)
      BY <2>1, Zenon DEF ArchiveEntries
    <3>2. [books EXCEPT !.ledger = SubSeq(@, n + 1, Len(@)),
                        !.archives = @ \o SubSeq(books.ledger, 1, n),
                        !.summary = FoldLeft(Include, @, SubSeq(books.ledger, 1, n))] = x3
      BY Zenon DEF l, a, y, d
    <3> HIDE DEF C, O, L, A, Y, R, S
    <3>3. x1 = [cards |-> C, codes |-> O, ledger |-> l, archives |-> A, summary |-> Y,
                orders |-> R]
      BY <1>2
    <3> HIDE DEF x1
    <3>4. x2 = [cards |-> C, codes |-> O, ledger |-> l, archives |-> a, summary |-> Y,
                orders |-> R]
      BY <3>3
    <3> HIDE DEF x2
    <3>5. x3 = b2
      BY <3>4
    <3> HIDE DEF x3, b2
    <3> QED
      BY <3>1, <3>2, <3>5
  <2>7. /\ b2.cards = C /\ b2.codes = O /\ b2.archives = a /\ b2.ledger = l /\ b2.summary = y
    OBVIOUS
  <2> HIDE DEF b2
  <2>8. AllOf(b2) = AllOf(books)
    BY <2>2, <2>7 DEF AllOf
  <2>9. Stands(b2)
    BY <1>1, <2>4, <2>5, <2>7, <2>8, QuietStands
  <2> QED
    BY <2>6, <2>9, Committed
<1>4. CASE RestartBooks
  <2>1. PICK y \in {Y, FoldLeft(Include, NoSummary, A)} :
          books' = [books EXCEPT !.summary = y]
    BY <1>4 DEF RestartBooks
  <2>2. y = Y
    BY <1>1, <2>1 DEF SummaryOf
  <2>3. books' = books
    <3> HIDE DEF C, O, L, A, R
    <3>1. books.summary = Y
      OBVIOUS
    <3> HIDE DEF Y
    <3> QED
      BY <1>2, <2>1, <2>2, <3>1
  <2>4. calls' = {} /\ day' = day
    BY <1>4 DEF RestartBooks
  <2>5. CallsTyped'
    BY <2>4 DEF CallsTyped
  <2> QED
    BY <2>3, <2>4, <2>5 DEF CardsInv
<1> QED
  BY <1>3, <1>4

-----------------------------------------------------------------------------
\* Between any two operations, crashes and restarts included.

\* Before anything is sold.
LEMMA CardsStart == CardsInit => CardsInv
<1> SUFFICES ASSUME CardsInit PROVE CardsInv
  OBVIOUS
<1> DEFINE e == <<>>
<1>1. /\ books = [cards |-> e, codes |-> {}, ledger |-> e, archives |-> e,
                  summary |-> NoSummary, orders |-> e]
      /\ calls = {} /\ day = 0
  BY DEF CardsInit
<1>2. /\ e \in [{} -> CardType] /\ e \in Seq(Booked) /\ e \in [{} -> CardIds] /\ DOMAIN e = {}
      /\ e \o e = e /\ Range(e) = {}
  BY DEF Range
<1>3. e \in OrderTables
  BY <1>2 DEF OrderTables
<1>4. IsFiniteSet({})
  BY FS_EmptySet
<1> HIDE DEF e
<1>5. Shape(books)
  <2> DEFINE N == {}
  <2>1. /\ N \in SUBSET CardIds /\ e \in [N -> CardType] /\ IsFiniteSet(N) /\ N \in SUBSET TopupCodes
        /\ Range(e) \subseteq N /\ \A c \in N : MayBecome(e[c])
    BY <1>2, <1>4
  <2> HIDE DEF N
  <2>2. Shape([cards |-> e, codes |-> N, ledger |-> e, archives |-> e,
               summary |-> NoSummary, orders |-> e])
    BY <1>2, <1>3, <2>1, NoSummaryTyped, ShapeMade
  <2> QED
    BY <1>1, <2>2 DEF N
<1>6. /\ books.cards = e /\ books.codes = {} /\ books.summary = NoSummary
      /\ books.archives = e /\ AllOf(books) = e
  BY <1>1, <1>2 DEF AllOf
<1>7. SummaryOf(e) = NoSummary
  <2>1. SummaryOf(e) = Folded(Including, NoSummary, e)
    BY <1>2, NoSummaryTyped, IncludeIsFold DEF SummaryOf
  <2>2. Including \in [SummaryType \X Booked -> SummaryType]
    BY IncludeFacts DEF Including
  <2>3. FoldsStep(Including, NoSummary, SummaryType, Booked)
    BY <2>2, NoSummaryTyped, FoldedFacts
  <2> QED
    BY <2>1, <2>3 DEF FoldsStep, e
<1>8. KeyedOnce(books)
  BY <1>2, <1>6 DEF KeyedOnce
<1>9. /\ MadeIn(e) = 0
      /\ \A c \in CardIds : GivenIn(e, c) = 0 /\ TakenIn(e, c) = 0
  <2>1. AddsUp(MadeBy, Booked) /\ MadeIn(e) = Tally(MadeBy, Booked, e)
    BY <1>2, WeightsTyped, TallyFacts, MadeIsTally
  <2>2. ASSUME NEW c \in CardIds PROVE GivenIn(e, c) = 0 /\ TakenIn(e, c) = 0
    <3>1. AddsUp(GivenBy(c), Booked) /\ GivenIn(e, c) = Tally(GivenBy(c), Booked, e)
      BY <1>2, WeightsTyped, TallyFacts, GivenIsTally
    <3>2. AddsUp(TakenBy(c), Booked) /\ TakenIn(e, c) = Tally(TakenBy(c), Booked, e)
      BY <1>2, WeightsTyped, TallyFacts, TakenIsTally
    <3> QED
      BY <3>1, <3>2 DEF AddsUp, e
  <2> QED
    BY <2>1, <2>2 DEF AddsUp, e
<1>10. Reconciled(books)
  BY <1>2, <1>6, <1>9 DEF Reconciled
<1>11. LeftStands(books)
  <2>1. LeftOf(books) = SumOver(LeftBy(books), {})
    BY <1>2, <1>4, <1>6, LeftIsSum
  <2>2. WorthOf({}) = SumOver(Worth, {})
    BY <1>4, WorthIsSum
  <2>3. LeftOf(books) = 0 /\ WorthOf({}) = 0
    BY <2>1, <2>2, SumOfNone
  <2>4. Cardinality({}) = 0
    BY FS_EmptySet
  <2>5. IssuedCredits * 0 = 0
    BY SomethingIsSold
  <2> QED
    BY <1>2, <1>6, <1>9, <2>3, <2>4, <2>5 DEF LeftStands
<1>12. CallsTyped
  BY <1>1 DEF CallsTyped
<1> QED
  BY <1>1, <1>5, <1>6, <1>7, <1>8, <1>10, <1>11, <1>12 DEF CardsInv, Stands, BooksStand

\* Every operation keeps the books standing.
LEMMA CardsSteps == CardsInv /\ [CardsNext]_cardVars => CardsInv'
<1> SUFFICES ASSUME CardsInv, [CardsNext]_cardVars PROVE CardsInv'
  OBVIOUS
<1>0. DOMAIN books.cards \subseteq CardIds
  BY ShapeFacts DEF CardsInv, Stands, BooksStand
<1>1. CASE \E c \in CardIds \ PlatformCards, d \in Durations : IssueCard(c, d)
  BY <1>1, IssuesKeep
<1>2. CASE \E c \in PlatformCards, d \in Durations, o \in Orders : FulfillCardOrder(o, c, d)
  BY <1>2, IssuesKeep, SomethingIsSold
<1>3. CASE Books
  <2>1. CASE \E c \in DOMAIN books.cards, r \in CardRequests, n \in RequestCharges :
               ChargeRequest(r, c, n)
    BY <2>1, ChargeKeeps
  <2>2. CASE \E c \in DOMAIN books.cards, code \in TopupCodes : RedeemTopup(c, code)
    BY <2>2, TopupKeeps
  <2>3. CASE \E c \in DOMAIN books.cards, s \in DOMAIN books.cards : RenewWithCard(c, s)
    BY <2>3, RenewalKeeps
  <2>4. CASE \E c \in DOMAIN books.cards, key \in Keys, u \in Upgrades :
               UpgradeCard(c, key, u[1], u[2])
    <3>1. PICK c \in DOMAIN books.cards, key \in Keys, u \in Upgrades :
            UpgradeCard(c, key, u[1], u[2])
      BY <2>4
    <3>2. u[1] \in Nat /\ u[2] \in Nat
      BY SomethingIsSold
    <3> QED
      BY <3>1, <3>2, UpgradeKeeps
  <2>5. CASE \E call \in calls : AdjustCardBalance(call)
    BY <2>5, AdjustmentKeeps
  <2> QED
    BY <1>3, <2>1, <2>2, <2>3, <2>4, <2>5 DEF Books
<1>4. CASE \E c \in DOMAIN books.cards : ActivateCard(c) \/ Operates(c)
  BY <1>4, CardOperations
<1>5. CASE \/ \E ask \in Asks : LookUpRequests(ask)
           \/ \E call \in calls : CallEnds(call)
           \/ DayPasses
  BY <1>5, CallsKeep
<1>6. CASE \E cs \in SUBSET (DOMAIN books.cards \cap OperatedCards) \ {{}} :
             ExtendValidity(cs) \/ \E until \in 1 .. MaxUntil : ExtendUntil(cs, until)
  <2>1. PICK cs \in SUBSET (DOMAIN books.cards \cap OperatedCards) \ {{}} :
             ExtendValidity(cs) \/ \E until \in 1 .. MaxUntil : ExtendUntil(cs, until)
    BY <1>6
  <2>2. cs \in SUBSET DOMAIN books.cards
    OBVIOUS
  <2> QED
    BY <2>1, <2>2, ExtensionsKeep
<1>7. CASE (\E n \in 1 .. Len(books.ledger) : ArchiveEntries(n)) \/ RestartBooks
  BY <1>7, ArchivesKeep
<1>8. CASE UNCHANGED cardVars
  <2>1. books' = books /\ calls' = calls /\ day' = day
    BY <1>8 DEF cardVars
  <2>2. CallsTyped'
    BY <2>1 DEF CardsInv, CallsTyped
  <2> QED
    BY <2>1, <2>2 DEF CardsInv
<1> QED
  BY <1>1, <1>2, <1>3, <1>4, <1>5, <1>6, <1>7, <1>8 DEF CardsNext

\* Whatever is archived and whenever the process dies, the books stand: every card is
\* what its entries say, no key was used twice, and the cards have left what was made.
THEOREM CardsInvariance == CardsSpec => []CardsInv
<1>1. CardsInit => CardsInv
  BY CardsStart
<1>2. CardsInv /\ [CardsNext]_cardVars => CardsInv'
  BY CardsSteps
<1> QED
  BY <1>1, <1>2, PTL DEF CardsSpec

\* Cards, codes and orders are what they should be.
LEMMA StandingTypes == CardsInv => CardsTypeOK
<1> SUFFICES ASSUME CardsInv PROVE CardsTypeOK
  OBVIOUS
<1>1. Shape(books)
  BY DEF CardsInv, Stands, BooksStand
<1>2. /\ DOMAIN books.cards \subseteq CardIds /\ books.codes \subseteq TopupCodes
      /\ DOMAIN books.orders \subseteq Orders /\ Range(books.orders) \subseteq DOMAIN books.cards
  BY <1>1, ShapeFacts DEF Shape
<1>3. \A call \in calls : call.ask \in Asks
  BY DEF CardsInv, CallsTyped, Found
<1>4. \A c \in DOMAIN books.cards :
        /\ Card(c).status \in {"unactivated", "active", "frozen", "banned", "voided"}
        /\ Card(c).frozenFrom \in {"none", "unactivated", "active"}
        /\ Card(c).until \in Nat /\ Card(c).duration \in Nat
        /\ Card(c).total \in Nat /\ Card(c).used \in Nat
  BY CardFacts DEF CardStatuses
<1> QED
  BY <1>2, <1>3, <1>4 DEF CardsTypeOK

\* The books keep their shape.
THEOREM CardsTypes == CardsSpec => []CardsTypeOK
BY CardsInvariance, StandingTypes, PTL

\* Credits are sold once.
LEMMA StandingSold == CardsInv => SoldOnce
<1> SUFFICES ASSUME CardsInv PROVE SoldOnce
  OBVIOUS
<1> DEFINE b == books  s == AllOf(b)
<1>1. /\ Shape(b) /\ b.summary = SummaryOf(b.archives) /\ KeyedOnce(b) /\ Reconciled(b)
      /\ LeftStands(b)
  BY DEF CardsInv, Stands, BooksStand
<1>2. b.archives \in Seq(Booked) /\ b.ledger \in Seq(Booked) /\ s \in Seq(Booked)
  BY <1>1, ShapeFacts
<1>3. CardsReconcile
  <2> SUFFICES ASSUME NEW c \in DOMAIN b.cards
               PROVE  Card(c).total = IssuedCredits + GivenTo(c) /\ Card(c).used = TakenFrom(c)
    BY DEF CardsReconcile
  <2>1. c \in CardIds /\ Card(c) = b.cards[c] /\ Card(c).total \in Nat /\ Card(c).used \in Nat
    BY CardFacts
  <2>2. /\ b.summary.given[c] = GivenIn(b.archives, c)
        /\ b.summary.taken[c] = TakenIn(b.archives, c)
    BY <1>1, <1>2, <2>1, SummaryFacts DEF Summarises
  <2>3. GivenTo(c) = b.summary.given[c] + GivenIn(b.ledger, c)
    BY Zenon DEF GivenTo, GivenIn
  <2>4. TakenFrom(c) = b.summary.taken[c] + TakenIn(b.ledger, c)
    BY Zenon DEF TakenFrom, TakenIn
  <2>5. /\ GivenIn(s, c) = GivenIn(b.archives, c) + GivenIn(b.ledger, c)
        /\ TakenIn(s, c) = TakenIn(b.archives, c) + TakenIn(b.ledger, c)
    BY <1>2, <2>1, SumsJoin DEF AllOf
  <2>6. GivenIn(s, c) = b.cards[c].total - IssuedCredits /\ TakenIn(s, c) = b.cards[c].used
    BY <1>1, <2>1 DEF Reconciled
  <2>7. IssuedCredits \in Int
    BY SomethingIsSold
  <2> HIDE DEF s, b
  <2> QED
    BY <2>1, <2>2, <2>3, <2>4, <2>5, <2>6, <2>7
<1>4. ASSUME NEW key \in Keys
      PROVE  Cardinality({i \in DOMAIN EveryEntry : EveryEntry[i].key = key}) <= 1
  <2> DEFINE P == {i \in DOMAIN s : s[i].key = key}
  <2>1. EveryEntry = s
    BY DEF EveryEntry, AllOf
  <2>2. \A i, j \in P : i = j
    BY <1>1 DEF KeyedOnce
  <2> HIDE DEF P
  <2>3. P = {} => Cardinality(P) = 0
    BY FS_EmptySet
  <2>4. P # {} => Cardinality(P) = 1
    <3> SUFFICES ASSUME NEW i \in P PROVE Cardinality(P) = 1
      OBVIOUS
    <3>1. P = {i}
      BY <2>2
    <3> QED
      BY <3>1, FS_Singleton
  <2>5. Cardinality(P) <= 1
    BY <2>3, <2>4
  <2> QED
    BY <2>1, <2>5 DEF P
<1>5. MapThenSumSet(LAMBDA c : Card(c).total - Card(c).used, DOMAIN books.cards)
        = IssuedCredits * Cardinality(DOMAIN books.cards)
          + MapThenSumSet(LAMBDA t : Worth[t], books.codes)
          + TotalOf(EveryEntry, LAMBDA e : IF e.key \in Keys THEN e.credits
                                          ELSE IF e.kind = "usage" THEN -e.credits ELSE 0)
  <2>1. LeftOf(b) = MapThenSumSet(LAMBDA c : Card(c).total - Card(c).used, DOMAIN books.cards)
    BY Zenon DEF LeftOf, Card
  <2>2. WorthOf(b.codes) = MapThenSumSet(LAMBDA t : Worth[t], books.codes)
    BY Zenon DEF WorthOf
  <2>3. MadeIn(s) = TotalOf(EveryEntry, LAMBDA e : IF e.key \in Keys THEN e.credits
                                          ELSE IF e.kind = "usage" THEN -e.credits ELSE 0)
    BY Zenon DEF MadeIn, EveryEntry, AllOf
  <2> QED
    BY <1>1, <2>1, <2>2, <2>3, Zenon DEF LeftStands
<1> QED
  BY <1>3, <1>4, <1>5, Zenon DEF SoldOnce

\* Over all cards there is as much left as was issued, topped up and given under a key,
\* less what was charged; every card is what its entries say, live or archived; and no
\* retry, crash, archive or renewal makes any of it twice.
THEOREM CardsSoldOnce == CardsSpec => []SoldOnce
BY CardsInvariance, StandingSold, PTL

-----------------------------------------------------------------------------
\* What a compensation is worth to each of its requests.

SumPeels(g, s) ==
  g = [t \in SUBSET DOMAIN s |-> IF t = {} THEN 0 ELSE g[t \ {Max(t)}] + s[Max(t)]]

Itself == [n \in Int |-> n]

\* The sum of a sequence of integers is a tally of its members.
LEMMA SumIsTally ==
  ASSUME NEW s \in Seq(Int)
  PROVE  Sum(s) = Tally(Itself, Int, s)
<1> DEFINE h == CHOOSE g : SumPeels(g, s)
<1>1. Sum(s) = h[DOMAIN s]
  BY DEF Sum, FoldLeft, MapThenFoldSet, SumPeels
<1>2. Itself \in [Int -> Int]
  BY DEF Itself
<1>3. \A g : SumPeels(g, s) <=> TallyPeels(g, Itself, s)
  <2> TAKE g
  <2>1. ASSUME NEW t \in SUBSET DOMAIN s, t # {} PROVE Itself[s[Max(t)]] = s[Max(t)]
    <3>1. DOMAIN s = 1 .. Len(s) /\ Len(s) \in Nat /\ \A i \in 1 .. Len(s) : s[i] \in Int
      OBVIOUS
    <3>2. Max(t) \in 1 .. Len(s)
      BY <2>1, <3>1, LastOfSet
    <3> QED
      BY <3>1, <3>2 DEF Itself
  <2>2. [t \in SUBSET DOMAIN s |-> IF t = {} THEN 0 ELSE g[t \ {Max(t)}] + s[Max(t)]]
        = [t \in SUBSET DOMAIN s |->
             IF t = {} THEN 0 ELSE g[t \ {Max(t)}] + Itself[s[Max(t)]]]
    BY <2>1
  <2> QED
    BY <2>2, Zenon DEF SumPeels, TallyPeels
<1>4. \E g : SumPeels(g, s)
  BY <1>2, <1>3, PeelingTallies
<1>5. TallyPeels(h, Itself, s)
  BY <1>3, <1>4
<1> HIDE DEF h
<1> QED
  BY <1>1, <1>2, <1>5, PeelingTallies

\* Sums are integers, start with nothing and add up.
LEMMA SumAdds ==
  /\ Sum(<<>>) = 0
  /\ \A s \in Seq(Int) : Sum(s) \in Int
  /\ \A s \in Seq(Int), n \in Int : Sum(Append(s, n)) = Sum(s) + n
<1>1. AddsUp(Itself, Int)
  <2>1. Itself \in [Int -> Int]
    BY DEF Itself
  <2> QED
    BY <2>1, TallyFacts
<1>2. <<>> \in Seq(Int) /\ \A s \in Seq(Int), n \in Int : Append(s, n) \in Seq(Int)
  OBVIOUS
<1>3. \A n \in Int : Itself[n] = n
  BY DEF Itself
<1> DEFINE T(s) == Tally(Itself, Int, s)
<1>4. /\ \A s \in Seq(Int) : T(s) \in Int
      /\ T(<<>>) = 0
      /\ \A s \in Seq(Int), n \in Int : T(Append(s, n)) = T(s) + Itself[n]
  BY <1>1, Zenon DEF AddsUp
<1>5. \A s \in Seq(Int) : Sum(s) = T(s)
  BY SumIsTally
<1> HIDE DEF T
<1>6. Sum(<<>>) = 0
  BY <1>2, <1>4, <1>5, Zenon
<1>7. \A s \in Seq(Int) : Sum(s) \in Int
  BY <1>4, <1>5, Zenon
<1>8. ASSUME NEW s \in Seq(Int), NEW n \in Int PROVE Sum(Append(s, n)) = Sum(s) + n
  <2>1. Append(s, n) \in Seq(Int)
    BY <1>2, Zenon
  <2>2. Sum(Append(s, n)) = T(s) + Itself[n]
    BY <1>4, <1>5, <2>1, Zenon
  <2>3. Sum(s) = T(s) /\ Itself[n] = n
    BY <1>3, <1>5, Zenon
  <2> QED
    BY <2>2, <2>3, Zenon
<1> QED
  BY <1>6, <1>7, <1>8, Zenon

\* Sums up to each position.
SumsUpTo(w) ==
  /\ Sum(SubSeq(w, 1, 0)) = 0
  /\ Sum(SubSeq(w, 1, Len(w))) = Sum(w)
  /\ \A i \in 0 .. Len(w) : Sum(SubSeq(w, 1, i)) \in Nat
  /\ \A i \in 1 .. Len(w) : Sum(SubSeq(w, 1, i)) = Sum(SubSeq(w, 1, i - 1)) + w[i]

\* They grow by what is at the position.
LEMMA PartialSums ==
  ASSUME NEW w \in Seq(Nat)
  PROVE  SumsUpTo(w)
<1> DEFINE n == Len(w)  Up(i) == SubSeq(w, 1, i)
           Good == {i \in 0 .. n : Sum(Up(i)) \in Nat}
<1>1. n \in Nat /\ w \in Seq(Int) /\ DOMAIN w = 1 .. n /\ \A i \in 1 .. n : w[i] \in Nat
  OBVIOUS
<1>2. \A i \in 0 .. n : Up(i) \in Seq(Nat) /\ Up(i) \in Seq(Int) /\ Len(Up(i)) = i
                        /\ \A j \in 1 .. i : Up(i)[j] = w[j]
  BY <1>1
<1>3. Up(0) = <<>>
  BY <1>1
<1>4. Up(n) = w
  <2>1. Len(Up(n)) = Len(w) /\ Up(n) \in Seq(Nat) /\ \A j \in 1 .. n : Up(n)[j] = w[j]
    BY <1>1, <1>2
  <2> HIDE DEF Up
  <2> QED
    BY <1>1, <2>1, SequencesEqual
<1>5. ASSUME NEW i \in 1 .. n PROVE Up(i) = Append(Up(i - 1), w[i])
  <2> DEFINE a == Up(i)  b == Up(i - 1)  x == w[i]  c == Append(b, x)
  <2>1. /\ a \in Seq(Nat) /\ Len(a) = i /\ i \in Nat /\ x \in Nat
        /\ b \in Seq(Nat) /\ Len(b) = i - 1
        /\ (\A j \in 1 .. i : a[j] = w[j]) /\ \A j \in 1 .. i - 1 : b[j] = w[j]
    BY <1>1, <1>2
  <2> HIDE DEF a, b
  <2>2. c \in Seq(Nat) /\ Len(c) = i /\ c[i] = x /\ \A j \in 1 .. i - 1 : c[j] = b[j]
    BY <2>1
  <2> HIDE DEF c
  <2>3. \A j \in 1 .. i : a[j] = c[j]
    <3> TAKE j \in 1 .. i
    <3>1. j = i \/ j \in 1 .. i - 1
      BY <2>1
    <3>2. a[j] = w[j]
      BY <2>1, Zenon
    <3>3. CASE j = i
      BY <2>2, <3>2, <3>3, Zenon
    <3>4. CASE j \in 1 .. i - 1
      <4>1. c[j] = b[j] /\ b[j] = w[j]
        BY <2>1, <2>2, <3>4, Zenon
      <4> QED
        BY <3>2, <4>1, Zenon
    <3> QED
      BY <3>1, <3>3, <3>4, Zenon
  <2>4. a = c
    BY <2>1, <2>2, <2>3, SequencesEqual
  <2> QED
    BY <2>4 DEF a, b, c
<1> HIDE DEF Up
<1>6. \A i \in 1 .. n : Sum(Up(i)) = Sum(Up(i - 1)) + w[i]
  <2> TAKE i \in 1 .. n
  <2>1. Up(i - 1) \in Seq(Int) /\ w[i] \in Int
    BY <1>1, <1>2
  <2> QED
    BY <1>5, <2>1, SumAdds
<1>7. 0 \in Good
  BY <1>1, <1>3, SumAdds
<1>8. \A i \in 1 .. n : i - 1 \in Good => i \in Good
  BY <1>1, <1>6
<1>9. Good \in SUBSET (0 .. n)
  OBVIOUS
<1> HIDE DEF Good
<1>10. Good = 0 .. n
  BY <1>1, <1>7, <1>8, <1>9, CountingUp
<1>11. Sum(Up(0)) = 0 /\ Sum(Up(n)) = Sum(w)
  BY <1>3, <1>4, SumAdds
<1>12. \A i \in 0 .. n : Sum(Up(i)) \in Nat
  BY <1>10 DEF Good
<1> QED
  BY <1>6, <1>11, <1>12 DEF SumsUpTo, Up

\* The share that grows from p to p + w of the whole, of no more than the whole, grows
\* by no more than w.
LEMMA ShareBound ==
  ASSUME NEW a \in Nat, NEW t \in Nat, t > 0, a <= t, NEW p \in Nat, NEW w \in Nat
  PROVE  /\ (a * (p + w)) \div t \in Int /\ (a * p) \div t \in Int
         /\ (a * (p + w)) \div t - (a * p) \div t <= w
<1> DEFINE x == a * p  y == a * (p + w)  X == x \div t  Y == y \div t
<1>1. x \in Int /\ y \in Int /\ y = x + a * w /\ a * w <= t * w /\ a * w \in Int /\ t * w \in Int
  <2>1. x \in Int /\ y \in Int /\ a * w \in Int /\ t * w \in Int
    OBVIOUS
  <2>2. y = x + a * w
    OBVIOUS
  <2>3. a * w <= t * w
    <3>1. t * w - a * w = (t - a) * w
      OBVIOUS
    <3>2. (t - a) * w >= 0
      OBVIOUS
    <3> QED
      BY <2>1, <3>1, <3>2
  <2> QED
    BY <2>1, <2>2, <2>3
<1> HIDE DEF x, y
<1>2. X \in Int /\ Y \in Int
  BY <1>1
<1>3. x < t * (X + 1) /\ t * Y <= y
  <2>1. x = t * X + (x % t) /\ (x % t) < t /\ (x % t) \in Int
    BY <1>1
  <2>2. y = t * Y + (y % t) /\ 0 <= (y % t) /\ (y % t) \in Int
    BY <1>1
  <2>3. t * X \in Int /\ t * Y \in Int /\ t * (X + 1) = t * X + t
    BY <1>2
  <2> HIDE DEF X, Y
  <2> QED
    BY <1>1, <2>1, <2>2, <2>3
<1> HIDE DEF X, Y
<1>4. t * Y < t * (X + 1 + w)
  <2>1. t * (X + 1 + w) = t * (X + 1) + t * w /\ t * (X + 1) \in Int /\ t * Y \in Int
    BY <1>2
  <2> QED
    BY <1>1, <1>3, <2>1
<1>5. Y < X + 1 + w
  <2> SUFFICES ASSUME Y >= X + 1 + w PROVE FALSE
    BY <1>2
  <2>1. t * (Y - (X + 1 + w)) >= 0 /\ t * (Y - (X + 1 + w)) = t * Y - t * (X + 1 + w)
    BY <1>2
  <2>2. t * Y \in Int /\ t * (X + 1 + w) \in Int
    BY <1>2
  <2> QED
    BY <1>4, <2>1, <2>2
<1>6. Y - X <= w
  BY <1>2, <1>5
<1> QED
  BY <1>2, <1>6 DEF X, Y, x, y

\* Shares are integers, one for each weight; of an amount that is no more than the
\* weights together, none is more than its weight.
LEMMA SplitFacts ==
  ASSUME NEW amount \in Nat, amount > 0, NEW weights \in Seq(Nat), Len(weights) > 0
  PROVE  /\ Split(amount, weights) \in [1 .. Len(weights) -> Int]
         /\ amount <= Sum(weights) =>
              \A i \in 1 .. Len(weights) : Split(amount, weights)[i] <= weights[i]
<1> DEFINE w == IF Sum(weights) <= 0 THEN [i \in DOMAIN weights |-> 1] ELSE weights
           upto(i) == (amount * Sum(SubSeq(w, 1, i))) \div Sum(w)
           n == Len(weights)
<1>1. Split(amount, weights) = [i \in DOMAIN w |-> upto(i) - upto(i - 1)]
  BY DEF Split
<1>2. n \in Nat /\ n > 0 /\ DOMAIN weights = 1 .. n /\ Sum(weights) \in Nat
  <2>1. SumsUpTo(weights)
    BY PartialSums
  <2> QED
    BY <2>1 DEF SumsUpTo
<1>3. w \in Seq(Nat) /\ Len(w) = n /\ DOMAIN w = 1 .. n
  <2>1. CASE Sum(weights) <= 0
    <3>1. [i \in 1 .. n |-> 1] \in Seq(Nat) /\ Len([i \in 1 .. n |-> 1]) = n
      BY <1>2
    <3> QED
      BY <1>2, <2>1, <3>1
  <2>2. CASE ~(Sum(weights) <= 0)
    BY <1>2, <2>2
  <2> QED
    BY <2>1, <2>2
<1>4. Sum(weights) <= 0 => w[1] = 1
  BY <1>2
<1>5. Sum(weights) > 0 => w = weights
  BY <1>2
<1> HIDE DEF w
<1>6. SumsUpTo(w)
  BY <1>3, PartialSums
<1>7. Sum(w) \in Nat /\ Sum(w) > 0
  <2>1. CASE Sum(weights) > 0
    BY <1>2, <1>5, <2>1
  <2>2. CASE ~(Sum(weights) > 0)
    <3>1. w[1] = 1
      BY <1>2, <1>4, <2>2
    <3> DEFINE Up(i) == Sum(SubSeq(w, 1, i))
               Good == {k \in 0 .. n : k > 0 => Up(k) > 0}
    <3>2. /\ Up(0) = 0 /\ Up(n) = Sum(w)
          /\ \A i \in 0 .. n : Up(i) \in Nat
          /\ \A i \in 1 .. n : Up(i) = Up(i - 1) + w[i] /\ w[i] \in Nat
      BY <1>3, <1>6 DEF SumsUpTo
    <3> HIDE DEF Up
    <3>3. 0 \in Good
      BY <1>2
    <3>4. ASSUME NEW k \in 1 .. n, k - 1 \in Good PROVE k \in Good
      <4>1. k \in 0 .. n /\ k - 1 \in 0 .. n /\ (k # 1 => k - 1 > 0)
        BY <1>2
      <4>2. Up(k) = Up(k - 1) + w[k] /\ w[k] \in Nat /\ Up(k - 1) \in Nat
        BY <3>2, <4>1
      <4>3. k = 1 => Up(k - 1) = 0 /\ w[k] = 1
        BY <3>1, <3>2
      <4>4. k # 1 => Up(k - 1) > 0
        BY <3>4, <4>1
      <4>5. Up(k) > 0
        BY <4>2, <4>3, <4>4
      <4> QED
        BY <4>1, <4>5
    <3>5. Good \in SUBSET (0 .. n) /\ n \in Nat /\ n \in 0 .. n
      BY <1>2
    <3> HIDE DEF Good
    <3>6. Good = 0 .. n
      BY <3>3, <3>4, <3>5, CountingUp
    <3>7. n \in Good
      BY <3>5, <3>6, Zenon
    <3> QED
      BY <1>2, <3>2, <3>7 DEF Good
  <2> QED
    BY <2>1, <2>2
<1>8. ASSUME NEW i \in 0 .. n PROVE upto(i) \in Int
  <2>1. Sum(SubSeq(w, 1, i)) \in Nat
    BY <1>3, <1>6, <1>8 DEF SumsUpTo
  <2>2. amount * Sum(SubSeq(w, 1, i)) \in Int
    BY <2>1
  <2> QED
    BY <1>7, <2>2
<1>9. \A i \in 1 .. n : i - 1 \in 0 .. n /\ i \in 0 .. n
  BY <1>2
<1>10. ASSUME amount <= Sum(weights), NEW i \in 1 .. n PROVE upto(i) - upto(i - 1) <= weights[i]
  <2>1. w = weights
    BY <1>2, <1>5, <1>10
  <2> DEFINE p == Sum(SubSeq(w, 1, i - 1))
  <2>2. p \in Nat /\ Sum(SubSeq(w, 1, i)) = p + w[i] /\ w[i] \in Nat
    BY <1>3, <1>6, <1>9 DEF SumsUpTo
  <2> HIDE DEF p
  <2>3. /\ (amount * (p + w[i])) \div Sum(w) - (amount * p) \div Sum(w) <= w[i]
    BY <1>7, <1>10, <2>1, <2>2, ShareBound
  <2> QED
    BY <2>1, <2>2, <2>3 DEF p
<1> HIDE DEF upto
<1>11. \A i \in 1 .. n : upto(i) - upto(i - 1) \in Int
  BY <1>8, <1>9
<1> QED
  BY <1>1, <1>3, <1>10, <1>11

-----------------------------------------------------------------------------
\* The index of what was given to each request of each card.

\* An entry of which a compensation is a well-formed one: made under a key, and it says
\* what each of its requests was charged.
Sharing == {e \in Booked : IsCompensation(e) => e.key \in Keys /\ Len(e.charged) = Len(e.names)}

Requested == CardIds \X CardRequests

IndexType == UNION {[D -> Int] : D \in SUBSET Requested}

\* What a compensation is for, and what it gives.
Touched(e) == {<<e.card, r>> : r \in Range(e.names)}

Gives(e, x) == IF x \in Touched(e) THEN ShareOf(e, x[2]) ELSE 0

Sofar(idx, x) == IF x \in DOMAIN idx THEN idx[x] ELSE 0

\* A compensation's parts.
LEMMA CompensationFacts ==
  ASSUME NEW e \in Sharing, IsCompensation(e)
  PROVE  /\ e.credits \in Nat /\ e.credits > 0 /\ e.kind = "adjustment" /\ e.key \in Keys
         /\ e.charged \in Seq(Nat) /\ e.names \in Seq(CardRequests) /\ e.card \in CardIds
         /\ Len(e.names) > 0 /\ Len(e.names) \in Nat /\ Len(e.charged) = Len(e.names)
         /\ DOMAIN e.names = 1 .. Len(e.names)
         /\ Range(e.names) \subseteq CardRequests /\ Touched(e) \subseteq Requested
<1>1. e \in BookedType /\ e.credits > 0 /\ e.kind = "adjustment" /\ e.names # <<>>
      /\ e.key \in Keys /\ Len(e.charged) = Len(e.names)
  BY DEF Sharing, Booked, IsCompensation
<1>2. /\ e.credits \in Int /\ e.charged \in Seq(Nat) /\ e.names \in Seq(CardRequests)
      /\ e.card \in CardIds
  BY <1>1 DEF BookedType
<1>3. Len(e.names) > 0 /\ Len(e.names) \in Nat /\ DOMAIN e.names = 1 .. Len(e.names)
  <2> DEFINE s == e.names
  <2>1. s \in Seq(CardRequests) /\ s # <<>>
    BY <1>1, <1>2
  <2> HIDE DEF s
  <2>2. Len(s) > 0 /\ Len(s) \in Nat /\ DOMAIN s = 1 .. Len(s)
    BY <2>1
  <2> QED
    BY <2>2 DEF s
<1>4. Range(e.names) \subseteq CardRequests
  BY <1>2 DEF Range
<1>5. Touched(e) \subseteq Requested
  BY <1>2, <1>4 DEF Touched, Requested
<1> QED
  BY <1>1, <1>2, <1>3, <1>4, <1>5

\* What it gives is an integer.
LEMMA ShareTyped ==
  ASSUME NEW e \in Sharing, IsCompensation(e)
  PROVE  /\ \A r \in Range(e.names) : \E i \in DOMAIN e.names :
              e.names[i] = r /\ ShareOf(e, r) = Split(e.credits, e.charged)[i]
         /\ \A r \in Range(e.names) : ShareOf(e, r) \in Int
         /\ \A x : Gives(e, x) \in Int
<1>1. Split(e.credits, e.charged) \in [DOMAIN e.names -> Int]
  BY CompensationFacts, SplitFacts
<1>2. ASSUME NEW r \in Range(e.names)
      PROVE  \E i \in DOMAIN e.names :
               e.names[i] = r /\ ShareOf(e, r) = Split(e.credits, e.charged)[i]
  <2> DEFINE c == CHOOSE i \in DOMAIN e.names : e.names[i] = r
  <2>1. \E i \in DOMAIN e.names : e.names[i] = r
    BY DEF Range
  <2>2. c \in DOMAIN e.names /\ e.names[c] = r
    BY <2>1
  <2> QED
    BY <2>2 DEF ShareOf
<1>3. \A r \in Range(e.names) : ShareOf(e, r) \in Int
  BY <1>1, <1>2
<1>4. \A x : x \in Touched(e) => x[2] \in Range(e.names)
  BY DEF Touched
<1> QED
  BY <1>2, <1>3, <1>4 DEF Gives

CountsEntry(idx, e, new) ==
  /\ new \in IndexType
  /\ ~IsCompensation(e) => new = idx
  /\ IsCompensation(e) => /\ DOMAIN new = DOMAIN idx \cup Touched(e)
                          /\ \A x \in DOMAIN new : new[x] = Sofar(idx, x) + Gives(e, x)

\* The index with one more entry.
LEMMA AddFacts ==
  ASSUME NEW idx \in IndexType, NEW e \in Sharing
  PROVE  CountsEntry(idx, e, AddCompensation(idx, e))
<1>1. CASE ~IsCompensation(e)
  BY <1>1 DEF CountsEntry, AddCompensation
<1>2. CASE IsCompensation(e)
  <2> DEFINE D == DOMAIN idx \cup Touched(e)
             share == Split(e.credits, e.charged)
             new == [x \in D |->
                       (IF x \in DOMAIN idx THEN idx[x] ELSE 0)
                         + (IF x[1] = e.card /\ x[2] \in Range(e.names)
                            THEN share[CHOOSE i \in DOMAIN e.names : e.names[i] = x[2]] ELSE 0)]
  <2>1. AddCompensation(idx, e) = new
    BY <1>2 DEF AddCompensation, Touched
  <2>2. PICK B \in SUBSET Requested : idx \in [B -> Int]
    BY DEF IndexType
  <2>3. D \in SUBSET Requested
    BY <1>2, <2>2, CompensationFacts
  <2>4. \A x \in D : Sofar(idx, x) \in Int /\ Gives(e, x) \in Int
    BY <1>2, <2>2, ShareTyped DEF Sofar
  <2>5. ASSUME NEW x \in D PROVE new[x] = Sofar(idx, x) + Gives(e, x)
    <3>1. x = <<x[1], x[2]>>
      BY <2>3 DEF Requested
    <3>2. x \in Touched(e) <=> x[1] = e.card /\ x[2] \in Range(e.names)
      BY <3>1 DEF Touched
    <3> QED
      BY <3>2 DEF Sofar, Gives, ShareOf
  <2>6. DOMAIN new = D /\ new = [x \in D |-> new[x]]
    OBVIOUS
  <2> HIDE DEF new, D
  <2>7. new \in [D -> Int]
    BY <2>4, <2>5, <2>6
  <2>8. new \in IndexType
    BY <2>3, <2>7 DEF IndexType
  <2>9. CountsEntry(idx, e, new)
    BY <1>2, <2>5, <2>6, <2>8 DEF CountsEntry, D
  <2> QED
    BY <2>1, <2>9
<1> QED
  BY <1>1, <1>2

\* It does not matter which of two entries is counted first.
LEMMA CountsCommute ==
  ASSUME NEW idx \in IndexType, NEW a \in Sharing, NEW b \in Sharing
  PROVE  AddCompensation(AddCompensation(idx, a), b) = AddCompensation(AddCompensation(idx, b), a)
<1> DEFINE A == AddCompensation(idx, a)  B == AddCompensation(idx, b)
           P == AddCompensation(A, b)  Q == AddCompensation(B, a)
<1>1. CountsEntry(idx, a, A) /\ CountsEntry(idx, b, B)
  BY AddFacts
<1>2. A \in IndexType /\ B \in IndexType
  BY <1>1 DEF CountsEntry
<1> HIDE DEF A, B
<1>3. CountsEntry(A, b, P) /\ CountsEntry(B, a, Q)
  BY <1>2, AddFacts
<1> HIDE DEF P, Q
<1>4. CASE ~IsCompensation(a) \/ ~IsCompensation(b)
  <2>1. CASE ~IsCompensation(a)
    BY <1>1, <1>3, <2>1 DEF CountsEntry, A, B, P, Q
  <2>2. CASE ~IsCompensation(b)
    BY <1>1, <1>3, <2>2 DEF CountsEntry, A, B, P, Q
  <2> QED
    BY <1>4, <2>1, <2>2
<1>5. CASE IsCompensation(a) /\ IsCompensation(b)
  <2>1. /\ DOMAIN A = DOMAIN idx \cup Touched(a) /\ DOMAIN B = DOMAIN idx \cup Touched(b)
        /\ DOMAIN P = DOMAIN A \cup Touched(b) /\ DOMAIN Q = DOMAIN B \cup Touched(a)
    BY <1>1, <1>3, <1>5 DEF CountsEntry
  <2>2. DOMAIN P = DOMAIN Q
    BY <2>1
  <2>3. ASSUME NEW x \in DOMAIN P PROVE P[x] = Q[x]
    <3>1. P[x] = Sofar(A, x) + Gives(b, x) /\ Q[x] = Sofar(B, x) + Gives(a, x)
      BY <1>3, <1>5, <2>2 DEF CountsEntry
    <3>2. Gives(a, x) \in Int /\ Gives(b, x) \in Int
      BY <1>5, ShareTyped
    <3>3. Sofar(idx, x) \in Int
      BY DEF IndexType, Sofar
    <3>4. Sofar(A, x) = Sofar(idx, x) + Gives(a, x)
      <4>1. CASE x \in DOMAIN A
        BY <1>1, <1>5, <4>1 DEF CountsEntry, Sofar
      <4>2. CASE x \notin DOMAIN A
        BY <2>1, <4>2 DEF Sofar, Gives
      <4> QED
        BY <4>1, <4>2
    <3>5. Sofar(B, x) = Sofar(idx, x) + Gives(b, x)
      <4>1. CASE x \in DOMAIN B
        BY <1>1, <1>5, <4>1 DEF CountsEntry, Sofar
      <4>2. CASE x \notin DOMAIN B
        BY <2>1, <4>2 DEF Sofar, Gives
      <4> QED
        BY <4>1, <4>2
    <3> QED
      BY <3>1, <3>2, <3>3, <3>4, <3>5
  <2>4. P = [x \in DOMAIN P |-> P[x]] /\ Q = [x \in DOMAIN Q |-> Q[x]]
    BY <1>3 DEF CountsEntry, IndexType
  <2>5. P = Q
    BY <2>2, <2>3, <2>4
  <2> QED
    BY <2>5 DEF P, Q, A, B
<1> QED
  BY <1>4, <1>5

-----------------------------------------------------------------------------
\* The adjustments a summary keeps, counted in the order CHOOSE names their keys.

CountsBy(g, adj, S) ==
  g = [t \in SUBSET S |->
         IF t = {} THEN <<>>
         ELSE AddCompensation(g[t \ {CHOOSE k \in t : TRUE}], adj[CHOOSE k \in t : TRUE])]

CountingOf(adj, S) == CHOOSE g : CountsBy(g, adj, S)

\* Adjustments kept under S.
IndexOf(adj, S) == CountingOf(adj, S)[S]

\* The index starts with what the summary keeps.
LEMMA IndexOfSummary ==
  ASSUME NEW adj
  PROVE  FoldSet(LAMBDA k, idx : AddCompensation(idx, adj[k]), <<>>, DOMAIN adj)
           = IndexOf(adj, DOMAIN adj)
BY DEF FoldSet, MapThenFoldSet, IndexOf, CountingOf, CountsBy

\* Two countings of adjustments that agree agree.
LEMMA CountingUnique ==
  ASSUME NEW S, IsFiniteSet(S), NEW A, NEW B, NEW f, NEW e, NEW g, NEW h,
         S \subseteq A, S \subseteq B,
         \A x \in S : f[x] = e[x],
         CountsBy(g, f, A), CountsBy(h, e, B)
  PROVE  \A s \in SUBSET S : g[s] = h[s]
<1> DEFINE Good == {s \in SUBSET S : g[s] = h[s]}
<1>1. ASSUME NEW X \in SUBSET S, \A Y \in SUBSET X : Y # X => Y \in Good
      PROVE  X \in Good
  <2> DEFINE c == CHOOSE x \in X : TRUE
  <2>1. g[X] = IF X = {} THEN <<>> ELSE AddCompensation(g[X \ {c}], f[c])
    BY DEF CountsBy
  <2>2. h[X] = IF X = {} THEN <<>> ELSE AddCompensation(h[X \ {c}], e[c])
    BY DEF CountsBy
  <2>3. CASE X = {}
    BY <2>1, <2>2, <2>3
  <2>4. CASE X # {}
    <3>1. c \in X
      BY <2>4
    <3> HIDE DEF c
    <3>2. X \ {c} \in Good
      BY <3>1, <1>1
    <3> QED
      BY <2>1, <2>2, <2>4, <3>1, <3>2
  <2> QED
    BY <2>3, <2>4
<1> HIDE DEF Good
<1>2. Good \in SUBSET SUBSET S
  BY DEF Good
<1>3. Good = SUBSET S
  BY <1>1, <1>2, SubsetInduction
<1> QED
  BY <1>3 DEF Good

\* Finitely many adjustments can be counted.
LEMMA CountingExists ==
  ASSUME NEW S, IsFiniteSet(S), NEW f
  PROVE  CountsBy(CountingOf(f, S), f, S)
<1> DEFINE Good == {s \in SUBSET S : \E g : CountsBy(g, f, s)}
<1>1. ASSUME NEW X \in SUBSET S, \A Y \in SUBSET X : Y # X => Y \in Good
      PROVE  X \in Good
  <2> DEFINE c == CHOOSE x \in X : TRUE
             below == {Y \in SUBSET X : Y # X}
             part == [Y \in below |-> CHOOSE g : CountsBy(g, f, Y)]
             G == [s \in SUBSET X |-> IF s = X
                     THEN IF X = {} THEN <<>> ELSE AddCompensation(part[X \ {c}][X \ {c}], f[c])
                     ELSE part[s][s]]
  <2>1. \A Y \in below : CountsBy(part[Y], f, Y)
    BY <1>1
  <2>2. \A Y \in below : \A Z \in SUBSET Y : part[Y][Z] = part[Z][Z]
    <3> TAKE Y \in below
    <3> TAKE Z \in SUBSET Y
    <3>1. Z \in below
      OBVIOUS
    <3>2. IsFiniteSet(Z)
      BY FS_Subset
    <3> HIDE DEF part, below
    <3>3. \A s \in SUBSET Z : part[Y][s] = part[Z][s]
      BY <2>1, <3>1, <3>2, CountingUnique
    <3> QED
      BY <3>3
  <2>3. ASSUME NEW s \in SUBSET X
        PROVE  G[s] = IF s = {} THEN <<>>
                      ELSE AddCompensation(G[s \ {CHOOSE x \in s : TRUE}],
                                           f[CHOOSE x \in s : TRUE])
    <3> DEFINE d == CHOOSE x \in s : TRUE
    <3>1. CASE s = X
      <4>1. CASE X = {}
        BY <4>1, <3>1
      <4>2. CASE X # {}
        <5>1. d = c /\ d \in X
          BY <3>1, <4>2
        <5> HIDE DEF c, d, part
        <5>2. G[s] = AddCompensation(part[X \ {c}][X \ {c}], f[c])
          BY <3>1, <4>2
        <5>3. G[X \ {c}] = part[X \ {c}][X \ {c}]
          BY <5>1
        <5> QED
          BY <5>1, <5>2, <5>3, <3>1, <4>2 DEF d
      <4> QED
        BY <4>1, <4>2
    <3>2. CASE s # X
      <4>1. s \in below
        BY <3>2
      <4>2. G[s] = part[s][s]
        BY <3>2
      <4>3. part[s][s] = IF s = {} THEN <<>> ELSE AddCompensation(part[s][s \ {d}], f[d])
        <5> HIDE DEF part, below
        <5> QED BY <2>1, <4>1 DEF CountsBy
      <4>4. CASE s = {}
        BY <4>2, <4>3, <4>4
      <4>5. CASE s # {}
        <5>1. d \in s
          BY <4>5
        <5> HIDE DEF d
        <5>2. part[s][s \ {d}] = part[s \ {d}][s \ {d}]
          <6> HIDE DEF part, below
          <6> QED BY <4>1, <2>2
        <5>3. G[s \ {d}] = part[s \ {d}][s \ {d}]
          <6> HIDE DEF part
          <6> QED BY <5>1
        <5> HIDE DEF G, part
        <5> QED
          BY <4>2, <4>3, <4>5, <5>2, <5>3 DEF d
      <4> QED
        BY <4>4, <4>5
    <3> QED
      BY <3>1, <3>2
  <2>4. DOMAIN G = SUBSET X
    OBVIOUS
  <2>5. G = [s \in SUBSET X |-> G[s]]
    BY <2>4
  <2> HIDE DEF G
  <2>6. CountsBy(G, f, X)
    BY <2>3, <2>5 DEF CountsBy
  <2> QED
    BY <2>6
<1> HIDE DEF Good
<1>2. Good \in SUBSET SUBSET S
  BY DEF Good
<1>3. Good = SUBSET S
  BY <1>1, <1>2, SubsetInduction
<1>4. \E g : CountsBy(g, f, S)
  BY <1>3 DEF Good
<1> QED
  BY <1>4 DEF CountingOf

Keeps(adj, S) == IsFiniteSet(S) /\ \A k \in S : adj[k] \in Sharing

IndexLaws(adj, S) ==
  /\ IndexOf(adj, S) \in IndexType
  /\ \A k \in S : IndexOf(adj, S) = AddCompensation(IndexOf(adj, S \ {k}), adj[k])

\* Any of them may be counted last.
LEMMA CountedLast ==
  ASSUME NEW adj, NEW S, Keeps(adj, S)
  PROVE  IndexLaws(adj, S)
<1> DEFINE g == CountingOf(adj, S)
           Good == {s \in SUBSET S :
                      /\ g[s] \in IndexType
                      /\ \A k \in s : g[s] = AddCompensation(g[s \ {k}], adj[k])}
<1>0. CountsBy(g, adj, S)
  BY CountingExists DEF Keeps
<1> HIDE DEF g
<1>1. ASSUME NEW X \in SUBSET S, \A Y \in SUBSET X : Y # X => Y \in Good
      PROVE  X \in Good
  <2> DEFINE c == CHOOSE x \in X : TRUE
  <2>1. g[X] = IF X = {} THEN <<>> ELSE AddCompensation(g[X \ {c}], adj[c])
    BY <1>0 DEF CountsBy
  <2>2. CASE X = {}
    <3>1. <<>> \in [{} -> Int]
      OBVIOUS
    <3>2. <<>> \in IndexType
      BY <3>1 DEF IndexType
    <3> QED
      BY <2>1, <2>2, <3>2
  <2>3. CASE X # {}
    <3>1. c \in X
      BY <2>3
    <3> HIDE DEF c
    <3>2. g[X] = AddCompensation(g[X \ {c}], adj[c]) /\ g[X \ {c}] \in IndexType
          /\ adj[c] \in Sharing
      BY <1>1, <2>1, <2>3, <3>1 DEF Keeps
    <3>3. g[X] \in IndexType
      BY <3>2, AddFacts DEF CountsEntry
    <3>4. ASSUME NEW k \in X PROVE g[X] = AddCompensation(g[X \ {k}], adj[k])
      <4>1. CASE k = c
        BY <3>2, <4>1
      <4>2. CASE k # c
        <5> DEFINE W == (X \ {c}) \ {k}
        <5>1. X \ {c} \in Good /\ X \ {k} \in Good
          BY <1>1, <3>1
        <5>2. g[X \ {c}] = AddCompensation(g[W], adj[k])
          BY <4>2, <5>1
        <5>3. g[X \ {k}] = AddCompensation(g[W], adj[c])
          <6>1. (X \ {k}) \ {c} = W
            OBVIOUS
          <6> QED
            BY <3>1, <4>2, <5>1, <6>1
        <5>4. g[W] \in IndexType /\ adj[k] \in Sharing
          <6>1. W \in SUBSET X /\ W # X
            BY <3>1
          <6> HIDE DEF W
          <6> QED
            BY <1>1, <6>1 DEF Keeps
        <5> HIDE DEF W
        <5> QED
          BY <3>2, <5>2, <5>3, <5>4, CountsCommute
      <4> QED
        BY <4>1, <4>2
    <3> QED
      BY <3>3, <3>4
  <2> QED
    BY <2>2, <2>3
<1> HIDE DEF Good
<1>2. Good \in SUBSET SUBSET S
  BY DEF Good
<1>3. S \in Good
  <2>1. Good = SUBSET S
    BY <1>1, <1>2, SubsetInduction DEF Keeps
  <2> QED
    BY <2>1
<1>4. IndexOf(adj, S) = g[S]
  BY DEF IndexOf, g
<1>5. ASSUME NEW k \in S PROVE g[S \ {k}] = IndexOf(adj, S \ {k})
  <2> DEFINE U == S \ {k}  h == CountingOf(adj, U)
  <2>1. IsFiniteSet(U) /\ U \subseteq S /\ U \subseteq U
    BY FS_Subset DEF Keeps
  <2> HIDE DEF U
  <2>2. CountsBy(h, adj, U)
    BY <2>1, CountingExists
  <2> HIDE DEF h
  <2>3. \A s \in SUBSET U : g[s] = h[s]
    BY <1>0, <2>1, <2>2, CountingUnique
  <2>4. g[U] = h[U]
    BY <2>3
  <2> QED
    BY <2>4 DEF IndexOf, h, U
<1> QED
  BY <1>3, <1>4, <1>5 DEF Good, IndexLaws

SameIndex(f, e, S) == (\A k \in S : f[k] = e[k]) => IndexOf(f, S) = IndexOf(e, S)

\* The index depends on no more than what is counted.
LEMMA IndexSame ==
  ASSUME NEW S, IsFiniteSet(S), NEW f, NEW e
  PROVE  SameIndex(f, e, S)
<1> SUFFICES ASSUME \A k \in S : f[k] = e[k] PROVE IndexOf(f, S) = IndexOf(e, S)
  BY DEF SameIndex
<1> DEFINE g == CountingOf(f, S)  h == CountingOf(e, S)
<1>1. CountsBy(g, f, S) /\ CountsBy(h, e, S)
  BY CountingExists
<1> HIDE DEF g, h
<1>2. \A s \in SUBSET S : g[s] = h[s]
  BY <1>1, CountingUnique
<1> QED
  BY <1>2 DEF IndexOf, g, h

-----------------------------------------------------------------------------
\* The index of a sequence of entries.

GivenIndex(s) == FoldLeft(AddCompensation, <<>>, s)

Counting == [p \in IndexType \X Sharing |-> AddCompensation(p[1], p[2])]

CountPeels(g, b, s) ==
  g = [t \in SUBSET DOMAIN s |->
         IF t = {} THEN b ELSE AddCompensation(g[t \ {Max(t)}], s[Max(t)])]

\* Entries are counted one after another.
LEMMA CountingIsFold ==
  ASSUME NEW b \in IndexType, NEW s \in Seq(Sharing)
  PROVE  FoldLeft(AddCompensation, b, s) = Folded(Counting, b, s)
<1> DEFINE h == CHOOSE g : CountPeels(g, b, s)
<1>1. FoldLeft(AddCompensation, b, s) = h[DOMAIN s]
  BY DEF FoldLeft, MapThenFoldSet, CountPeels
<1>2. /\ Counting \in [IndexType \X Sharing -> IndexType]
      /\ \A a \in IndexType, e \in Sharing : Counting[<<a, e>>] = AddCompensation(a, e)
  BY AddFacts DEF Counting, CountsEntry
<1>3. DOMAIN s = 1 .. Len(s) /\ Len(s) \in Nat /\ \A i \in 1 .. Len(s) : s[i] \in Sharing
  OBVIOUS
<1>4. \E g : CountPeels(g, b, s)
  <2>1. PICK g \in [SUBSET (1 .. Len(s)) -> IndexType] : PeelsLast(g, Counting, b, s)
    BY <1>2, PeelingExists
  <2>2. ASSUME NEW t \in SUBSET (1 .. Len(s))
        PROVE  g[t] = IF t = {} THEN b ELSE AddCompensation(g[t \ {Max(t)}], s[Max(t)])
    <3>1. CASE t = {}
      BY <2>1, <3>1 DEF PeelsLast
    <3>2. CASE t # {}
      <4>1. Max(t) \in 1 .. Len(s)
        BY <1>3, <3>2, LastOfSet
      <4>2. g[t] = Counting[<<g[t \ {Max(t)}], s[Max(t)]>>]
        BY <2>1, <3>2 DEF PeelsLast
      <4>3. g[t \ {Max(t)}] \in IndexType /\ s[Max(t)] \in Sharing
        BY <1>3, <4>1
      <4> QED
        BY <1>2, <3>2, <4>2, <4>3
    <3> QED
      BY <3>1, <3>2
  <2> QED
    BY <1>3, <2>2 DEF CountPeels
<1>5. CountPeels(h, b, s)
  BY <1>4
<1> HIDE DEF h
<1>6. h[{}] = b
  BY <1>3, <1>5 DEF CountPeels
<1>7. ASSUME NEW t \in SUBSET (1 .. Len(s)), t # {}, h[t \ {Max(t)}] \in IndexType
      PROVE  h[t] = Counting[<<h[t \ {Max(t)}], s[Max(t)]>>]
  <2>1. s[Max(t)] \in Sharing
    BY <1>3, <1>7, LastOfSet
  <2>2. h[t] = AddCompensation(h[t \ {Max(t)}], s[Max(t)])
    BY <1>3, <1>5, <1>7 DEF CountPeels
  <2> QED
    BY <1>2, <1>7, <2>1, <2>2
<1>8. PeelsWithin(h, Counting, b, s, IndexType, Sharing)
  BY <1>6, <1>7 DEF PeelsWithin
<1>9. EndsAs(h, Counting, b, s)
  BY <1>2, <1>8, PeelingIsFold
<1> QED
  BY <1>1, <1>3, <1>9 DEF EndsAs

\* The index of no entries, of one more, and of two parts.
LEMMA IndexGrows ==
  /\ <<>> \in IndexType /\ GivenIndex(<<>>) = <<>>
  /\ \A s \in Seq(Sharing) : GivenIndex(s) \in IndexType
  /\ \A s \in Seq(Sharing), e \in Sharing :
       GivenIndex(Append(s, e)) = AddCompensation(GivenIndex(s), e)
  /\ \A s, r \in Seq(Sharing) : FoldLeft(AddCompensation, GivenIndex(s), r) = GivenIndex(s \o r)
  /\ \A idx \in IndexType : FoldLeft(AddCompensation, idx, <<>>) = idx
  /\ \A idx \in IndexType, e \in Sharing :
       FoldLeft(AddCompensation, idx, <<e>>) = AddCompensation(idx, e)
<1>1. /\ Counting \in [IndexType \X Sharing -> IndexType]
      /\ \A a \in IndexType, e \in Sharing : Counting[<<a, e>>] = AddCompensation(a, e)
  BY AddFacts DEF Counting, CountsEntry
<1>2. <<>> \in IndexType
  <2>1. <<>> \in [{} -> Int]
    OBVIOUS
  <2> QED
    BY <2>1 DEF IndexType
<1>3. ASSUME NEW idx \in IndexType
      PROVE  /\ Folded(Counting, idx, <<>>) = idx
             /\ \A s \in Seq(Sharing) : Folded(Counting, idx, s) \in IndexType
             /\ \A s \in Seq(Sharing), e \in Sharing :
                  Folded(Counting, idx, Append(s, e)) = AddCompensation(Folded(Counting, idx, s), e)
  <2>1. FoldsStep(Counting, idx, IndexType, Sharing)
    BY <1>1, FoldedFacts
  <2> QED
    BY <1>1, <2>1 DEF FoldsStep
<1>4. /\ <<>> \in Seq(Sharing) /\ \A s \in Seq(Sharing), e \in Sharing : Append(s, e) \in Seq(Sharing)
      /\ \A s, r \in Seq(Sharing) : s \o r \in Seq(Sharing)
  OBVIOUS
<1>5. \A s \in Seq(Sharing) : GivenIndex(s) = Folded(Counting, <<>>, s)
  BY <1>2, CountingIsFold DEF GivenIndex
<1>6. GivenIndex(<<>>) = <<>> /\ \A s \in Seq(Sharing) : GivenIndex(s) \in IndexType
  BY <1>2, <1>3, <1>4, <1>5
<1>7. ASSUME NEW s \in Seq(Sharing), NEW e \in Sharing
      PROVE  GivenIndex(Append(s, e)) = AddCompensation(GivenIndex(s), e)
  <2>1. Append(s, e) \in Seq(Sharing)
    BY <1>4
  <2>2. Folded(Counting, <<>>, Append(s, e)) = AddCompensation(Folded(Counting, <<>>, s), e)
    BY <1>2, <1>3
  <2>3. /\ GivenIndex(Append(s, e)) = Folded(Counting, <<>>, Append(s, e))
        /\ GivenIndex(s) = Folded(Counting, <<>>, s)
    BY <1>5, <2>1
  <2> QED
    BY <2>2, <2>3
<1>8. ASSUME NEW s \in Seq(Sharing), NEW r \in Seq(Sharing)
      PROVE  FoldLeft(AddCompensation, GivenIndex(s), r) = GivenIndex(s \o r)
  <2>1. FoldLeft(AddCompensation, GivenIndex(s), r) = Folded(Counting, GivenIndex(s), r)
    BY <1>6, CountingIsFold
  <2>2. FoldsJoin(Counting, <<>>, s, Sharing)
    BY <1>1, <1>2, FoldedConcat
  <2> QED
    BY <1>4, <1>5, <2>1, <2>2 DEF FoldsJoin
<1>9. \A idx \in IndexType : FoldLeft(AddCompensation, idx, <<>>) = idx
  BY <1>3, <1>4, CountingIsFold
<1>10. ASSUME NEW idx \in IndexType, NEW e \in Sharing
       PROVE  FoldLeft(AddCompensation, idx, <<e>>) = AddCompensation(idx, e)
  <2>1. <<e>> = Append(<<>>, e) /\ <<e>> \in Seq(Sharing)
    OBVIOUS
  <2>2. FoldLeft(AddCompensation, idx, <<e>>) = Folded(Counting, idx, <<e>>)
    BY <2>1, CountingIsFold
  <2>3. Folded(Counting, idx, Append(<<>>, e)) = AddCompensation(Folded(Counting, idx, <<>>), e)
    BY <1>3, <1>4
  <2>4. Folded(Counting, idx, <<>>) = idx
    BY <1>3
  <2> QED
    BY <2>1, <2>2, <2>3, <2>4
<1> QED
  BY <1>2, <1>6, <1>7, <1>8, <1>9, <1>10

\* Everything a compensation was for is in the index.
LEMMA IndexCovers ==
  \A s \in Seq(Sharing) : \A i \in DOMAIN s :
    IsCompensation(s[i]) => Touched(s[i]) \subseteq DOMAIN GivenIndex(s)
<1> DEFINE Covered(s) == \A i \in DOMAIN s :
                           IsCompensation(s[i]) => Touched(s[i]) \subseteq DOMAIN GivenIndex(s)
           Good == {s \in Seq(Sharing) : Covered(s)}
<1>1. <<>> \in Good
  <2>1. DOMAIN <<>> = {} /\ <<>> \in Seq(Sharing)
    OBVIOUS
  <2> QED
    BY <2>1
<1>2. ASSUME NEW s \in Good, NEW e \in Sharing PROVE Append(s, e) \in Good
  <2> DEFINE r == Append(s, e)  old == GivenIndex(s)  new == GivenIndex(r)
  <2>1. /\ s \in Seq(Sharing) /\ r \in Seq(Sharing) /\ Len(s) \in Nat
        /\ DOMAIN s = 1 .. Len(s) /\ DOMAIN r = 1 .. Len(s) + 1
        /\ r[Len(s) + 1] = e /\ \A i \in DOMAIN s : r[i] = s[i]
    OBVIOUS
  <2>2. \A i \in DOMAIN s : IsCompensation(s[i]) => Touched(s[i]) \subseteq DOMAIN old
    OBVIOUS
  <2>3. CountsEntry(old, e, new)
    BY <2>1, IndexGrows, AddFacts
  <2> HIDE DEF r, old, new
  <2>4. DOMAIN old \subseteq DOMAIN new /\ (IsCompensation(e) => Touched(e) \subseteq DOMAIN new)
    BY <2>3 DEF CountsEntry
  <2>5. ASSUME NEW i \in DOMAIN r, IsCompensation(r[i]) PROVE Touched(r[i]) \subseteq DOMAIN new
    <3>1. i \in DOMAIN s \/ i = Len(s) + 1
      BY <2>1
    <3> QED
      BY <2>1, <2>2, <2>4, <2>5, <3>1
  <2> QED
    BY <2>1, <2>5 DEF r, new
<1>3. Good \in SUBSET Seq(Sharing)
  OBVIOUS
<1> HIDE DEF Good
<1>4. Good = Seq(Sharing)
  BY <1>1, <1>2, <1>3, SequenceInduction DEF GrowsByOne
<1> QED
  BY <1>4 DEF Good

\* The summary with one more entry.
LEMMA SummaryGrows ==
  ASSUME NEW s \in Seq(Booked), NEW e \in Booked
  PROVE  SummaryOf(Append(s, e)) = Include(SummaryOf(s), e)
<1>1. /\ NoSummary \in SummaryType /\ Including \in [SummaryType \X Booked -> SummaryType]
      /\ \A a \in SummaryType, x \in Booked : Including[<<a, x>>] = Include(a, x)
      /\ \A r \in Seq(Booked) : SummaryOf(r) = Folded(Including, NoSummary, r)
  BY NoSummaryTyped, IncludeFacts, IncludeIsFold DEF Including, SummaryOf
<1>2. FoldsStep(Including, NoSummary, SummaryType, Booked)
  BY <1>1, FoldedFacts
<1>3. SummaryOf(s) \in SummaryType
  BY SummaryFacts DEF Summarises
<1>4. Append(s, e) \in Seq(Booked)
  OBVIOUS
<1>5. SummaryOf(Append(s, e)) = Including[<<SummaryOf(s), e>>]
  BY <1>1, <1>2, <1>4 DEF FoldsStep
<1> QED
  BY <1>1, <1>3, <1>5

\* Keys of operators are used once.
UsedOnce(s) ==
  \A i, j \in DOMAIN s : s[i].key \in Keys /\ s[j].key = s[i].key => i = j

AdjustedIn(s) == SummaryOf(s).adjustments

\* A summary keeps finitely many adjustments, all of them entries.
LEMMA SummaryKeeps ==
  ASSUME NEW s \in Seq(Sharing)
  PROVE  /\ Summarises(SummaryOf(s), s) /\ SummaryOf(s) \in SummaryType
         /\ Keeps(AdjustedIn(s), DOMAIN AdjustedIn(s))
         /\ \A k \in DOMAIN AdjustedIn(s) : \E i \in DOMAIN s : s[i] = AdjustedIn(s)[k] /\ s[i].key = k
<1>1. /\ s \in Seq(Booked) /\ DOMAIN s = 1 .. Len(s) /\ Len(s) \in Nat
      /\ \A i \in DOMAIN s : s[i] \in Sharing
  <2>1. Sharing \subseteq Booked
    BY DEF Sharing
  <2> QED
    BY <2>1
<1>2. Summarises(SummaryOf(s), s)
  BY <1>1, SummaryFacts
<1>3. \A k \in DOMAIN AdjustedIn(s) : \E i \in DOMAIN s : s[i] = AdjustedIn(s)[k] /\ s[i].key = k
  BY <1>2 DEF Summarises, AdjustedIn
<1>4. IsFiniteSet(DOMAIN AdjustedIn(s))
  <2> DEFINE f == [i \in DOMAIN s |-> s[i].key]
  <2>1. IsFiniteSet(DOMAIN s)
    BY <1>1, FS_Interval
  <2>2. DOMAIN AdjustedIn(s) \subseteq {f[i] : i \in DOMAIN s}
    BY <1>3
  <2>3. f \in Surjection(DOMAIN s, {f[i] : i \in DOMAIN s})
    BY DEF Surjection
  <2> HIDE DEF f
  <2>4. IsFiniteSet({f[i] : i \in DOMAIN s})
    BY <2>1, <2>3, FS_Surjection
  <2> QED
    BY <2>2, <2>4, FS_Subset
<1>5. \A k \in DOMAIN AdjustedIn(s) : AdjustedIn(s)[k] \in Sharing
  BY <1>1, <1>3
<1> QED
  BY <1>2, <1>3, <1>4, <1>5 DEF Keeps, Summarises

\* What the summary of the archives keeps gives the index of the archives.
LEMMA SummaryIndex ==
  \A s \in Seq(Sharing) :
    UsedOnce(s) => IndexOf(AdjustedIn(s), DOMAIN AdjustedIn(s)) = GivenIndex(s)
<1> DEFINE Told(s) == UsedOnce(s) => IndexOf(AdjustedIn(s), DOMAIN AdjustedIn(s)) = GivenIndex(s)
           Good == {s \in Seq(Sharing) : Told(s)}
<1>1. <<>> \in Good
  <2>1. <<>> \in Seq(Sharing) /\ DOMAIN <<>> = {}
    OBVIOUS
  <2>2. DOMAIN AdjustedIn(<<>>) = {}
    BY <2>1, SummaryKeeps
  <2>3. IndexOf(AdjustedIn(<<>>), {}) = <<>>
    <3> DEFINE adj == AdjustedIn(<<>>)  g == CountingOf(adj, {})
    <3>1. CountsBy(g, adj, {})
      BY FS_EmptySet, CountingExists
    <3> HIDE DEF g, adj
    <3>2. g[{}] = <<>>
      BY <3>1 DEF CountsBy
    <3> QED
      BY <3>2 DEF IndexOf, g, adj
  <2> QED
    BY <2>1, <2>2, <2>3, IndexGrows
<1>2. ASSUME NEW s \in Good, NEW e \in Sharing PROVE Append(s, e) \in Good
  <2> DEFINE r == Append(s, e)  a == AdjustedIn(s)  n == AdjustedIn(r)
             S == DOMAIN a  N == DOMAIN n  k == e.key
  <2>1. /\ s \in Seq(Sharing) /\ r \in Seq(Sharing) /\ Len(s) \in Nat
        /\ DOMAIN s = 1 .. Len(s) /\ DOMAIN r = 1 .. Len(s) + 1
        /\ r[Len(s) + 1] = e /\ \A i \in DOMAIN s : r[i] = s[i]
    OBVIOUS
  <2> SUFFICES ASSUME UsedOnce(r) PROVE IndexOf(n, N) = GivenIndex(r)
    BY <2>1
  <2>2. Told(s)
    OBVIOUS
  <2>3. UsedOnce(s) /\ \A i \in DOMAIN s : s[i].key = k => k \notin Keys
    <3> HIDE DEF r, k
    <3>1. \A i \in DOMAIN s : i \in DOMAIN r /\ i # Len(s) + 1 /\ Len(s) + 1 \in DOMAIN r
      BY <2>1
    <3>2. UsedOnce(s)
      BY <2>1, <3>1 DEF UsedOnce
    <3>3. ASSUME NEW i \in DOMAIN s, s[i].key = k, k \in Keys PROVE FALSE
      <4>1. i \in DOMAIN r /\ i # Len(s) + 1 /\ Len(s) + 1 \in DOMAIN r
        BY <3>1
      <4>2. r[i].key \in Keys /\ r[Len(s) + 1].key = r[i].key
        BY <2>1, <3>3 DEF k
      <4> QED
        BY <4>1, <4>2 DEF UsedOnce
    <3> QED
      BY <3>2, <3>3
  <2>4. IndexOf(a, S) = GivenIndex(s) /\ GivenIndex(s) \in IndexType
    BY <2>1, <2>2, <2>3, IndexGrows
  <2>5. GivenIndex(r) = AddCompensation(GivenIndex(s), e)
    BY <2>1, IndexGrows
  <2>6. e \in Booked /\ (IsCompensation(e) => k \in Keys /\ e.kind = "adjustment" /\ k # "none")
    <3>1. e \in Booked
      BY DEF Sharing
    <3>2. IsCompensation(e) => k \in Keys /\ e.kind = "adjustment"
      BY DEF Sharing, IsCompensation
    <3> QED
      BY <3>1, <3>2, KeysApart
  <2>7. /\ Keeps(a, S) /\ Keeps(n, N)
        /\ \A x \in S : \E i \in DOMAIN s : s[i] = a[x] /\ s[i].key = x
    BY <2>1, SummaryKeeps
  <2>8. /\ e.kind = "adjustment" /\ k # "none" =>
             N = S \cup {k} /\ n[k] = e /\ \A x \in S : x # k => n[x] = a[x]
        /\ ~(e.kind = "adjustment" /\ k # "none") => n = a
    <3>1. SummaryOf(s) \in SummaryType
      BY <2>1, SummaryKeeps
    <3>2. s \in Seq(Booked)
      BY <2>1 DEF Sharing
    <3>3. SummaryOf(r) = Include(SummaryOf(s), e)
      BY <2>6, <3>2, SummaryGrows
    <3> QED
      BY <2>6, <3>1, <3>3, IncludeFacts DEF AdjustedIn
  <2> HIDE DEF r, a, n, k, Told
  <2>9. CASE ~(e.kind = "adjustment" /\ k # "none")
    <3>1. ~IsCompensation(e) /\ n = a
      BY <2>6, <2>8, <2>9
    <3>2. CountsEntry(GivenIndex(s), e, AddCompensation(GivenIndex(s), e))
      BY <2>4, AddFacts
    <3>3. AddCompensation(GivenIndex(s), e) = GivenIndex(s)
      BY <3>1, <3>2 DEF CountsEntry
    <3> QED
      BY <2>4, <2>5, <3>1, <3>3
  <2>10. CASE e.kind = "adjustment" /\ k # "none"
    <3> DEFINE U == S \ {k}
    <3>1. N = S \cup {k} /\ n[k] = e /\ \A x \in U : n[x] = a[x]
      BY <2>8, <2>10
    <3>2. IsFiniteSet(U) /\ N \ {k} = U /\ k \in N
      BY <2>7, <3>1, FS_Subset DEF Keeps
    <3>3. IndexOf(n, N) = AddCompensation(IndexOf(n, U), e)
      <4>1. IndexLaws(n, N)
        BY <2>7, CountedLast
      <4> QED
        BY <3>1, <3>2, <4>1 DEF IndexLaws
    <3>4. IndexOf(n, U) = IndexOf(a, U)
      <4>1. SameIndex(n, a, U)
        BY <3>2, IndexSame
      <4> QED
        BY <3>1, <4>1 DEF SameIndex
    <3>5. IndexOf(a, S) = IndexOf(a, U)
      <4>1. CASE k \in S
        <5>1. IndexLaws(a, S)
          BY <2>7, CountedLast
        <5>2. IndexOf(a, S) = AddCompensation(IndexOf(a, U), a[k])
          BY <4>1, <5>1 DEF IndexLaws
        <5>3. ~IsCompensation(a[k]) /\ a[k] \in Sharing
          <6>1. a[k] \in Sharing
            BY <2>7, <4>1 DEF Keeps
          <6>2. PICK i \in DOMAIN s : s[i] = a[k] /\ s[i].key = k
            BY <2>7, <4>1
          <6>3. k \notin Keys
            BY <2>3, <6>2
          <6>4. IsCompensation(a[k]) => a[k].key \in Keys
            BY <6>1 DEF Sharing
          <6> QED
            BY <6>1, <6>2, <6>3, <6>4
        <5>4. IndexOf(a, U) \in IndexType
          <6>1. Keeps(a, U)
            BY <2>7, <3>2 DEF Keeps
          <6> QED
            BY <6>1, CountedLast DEF IndexLaws
        <5>5. CountsEntry(IndexOf(a, U), a[k], AddCompensation(IndexOf(a, U), a[k]))
          BY <5>3, <5>4, AddFacts
        <5> QED
          BY <5>2, <5>3, <5>5 DEF CountsEntry
      <4>2. CASE k \notin S
        <5>1. U = S
          BY <4>2
        <5> QED
          BY <5>1
      <4> QED
        BY <4>1, <4>2
    <3> QED
      BY <2>4, <2>5, <3>3, <3>4, <3>5
  <2> QED
    BY <2>9, <2>10
<1>3. Good \in SUBSET Seq(Sharing)
  OBVIOUS
<1> HIDE DEF Good
<1>4. Good = Seq(Sharing)
  BY <1>1, <1>2, <1>3, SequenceInduction DEF GrowsByOne
<1> QED
  BY <1>4 DEF Good

\* The index a start builds is that of all entries, archived or live.
LEMMA StartIndex ==
  ASSUME NEW b, BooksStand(b), AllOf(b) \in Seq(Sharing)
  PROVE  BuildIndex(b) = GivenIndex(AllOf(b))
<1> DEFINE A == b.archives  L == b.ledger  adj == b.summary.adjustments
<1>1. /\ Shape(b) /\ b.summary = SummaryOf(A) /\ KeyedOnce(b)
      /\ A \in Seq(Booked) /\ L \in Seq(Booked) /\ AllOf(b) = A \o L
  BY ShapeFacts DEF BooksStand, AllOf
<1>2. /\ \A i \in DOMAIN A : i \in DOMAIN AllOf(b) /\ AllOf(b)[i] = A[i]
      /\ \A i \in DOMAIN L : Len(A) + i \in DOMAIN AllOf(b) /\ AllOf(b)[Len(A) + i] = L[i]
  <2> HIDE DEF A, L
  <2>1. Joined(Booked, A, L)
    BY <1>1, ConcatFacts
  <2>2. /\ DOMAIN A = 1 .. Len(A) /\ DOMAIN L = 1 .. Len(L) /\ Len(A) \in Nat /\ Len(L) \in Nat
        /\ DOMAIN (A \o L) = 1 .. Len(A) + Len(L)
    BY <1>1
  <2> QED
    BY <1>1, <2>1, <2>2 DEF Joined
<1> HIDE DEF A, L
<1>3. A \in Seq(Sharing) /\ L \in Seq(Sharing)
  <2>1. \A i \in DOMAIN AllOf(b) : AllOf(b)[i] \in Sharing
    OBVIOUS
  <2>2. (\A i \in DOMAIN A : A[i] \in Sharing) /\ \A i \in DOMAIN L : L[i] \in Sharing
    BY <1>2, <2>1
  <2> QED
    BY <1>1, <2>2
<1>4. UsedOnce(A)
  BY <1>1, <1>2 DEF KeyedOnce, UsedOnce
<1>5. FoldSet(LAMBDA k, idx : AddCompensation(idx, adj[k]), <<>>, DOMAIN adj) = GivenIndex(A)
  <2>1. adj = AdjustedIn(A)
    BY <1>1 DEF AdjustedIn
  <2>2. IndexOf(adj, DOMAIN adj) = GivenIndex(A)
    BY <1>3, <1>4, <2>1, SummaryIndex
  <2> HIDE DEF adj
  <2> QED
    BY <2>2, IndexOfSummary
<1>6. BuildIndex(b) = FoldLeft(AddCompensation, GivenIndex(A), L)
  BY <1>5, Zenon DEF BuildIndex, L
<1> QED
  BY <1>1, <1>3, <1>6, IndexGrows

-----------------------------------------------------------------------------
\* Requests are made up for once.

\* The entries by which a request was charged.
ChargesFor(s, r) == {e \in Range(s) : e.kind = "usage" /\ e.key = r}

\* A compensation is for requests its card was charged, and knows what.
PaidFor(s, e) ==
  \A n \in DOMAIN e.names : \E j \in DOMAIN s :
    /\ s[j].kind = "usage" /\ s[j].key = e.names[n]
    /\ s[j].card = e.card /\ s[j].credits = e.charged[n]

\* No request is charged twice; what is given for requests, unless it says so, was
\* charged for them, and not given before.
RightlyGiven(s) ==
  /\ \A i, j \in DOMAIN s :
       s[i].kind = "usage" /\ s[j].kind = "usage" /\ s[i].key = s[j].key => i = j
  /\ \A i \in DOMAIN s : IsCompensation(s[i]) =>
       PaidFor(s, s[i]) /\ (s[i].again \/ s[i].credits <= Sum(s[i].charged))
  /\ \A i, j \in DOMAIN s :
       i # j /\ IsCompensation(s[i]) /\ IsCompensation(s[j])
         /\ Range(s[i].names) \cap Range(s[j].names) # {} => s[i].again \/ s[j].again

\* What the calls were told is still so.
LookedUp(s, cs) ==
  \A call \in cs : \A i \in DOMAIN call.found : call.found[i] = ChargesFor(s, call.ask.names[i])

GivenRight(s, idx, cs) ==
  /\ s \in Seq(Sharing) /\ idx = GivenIndex(s)
  /\ RightlyGiven(s) /\ LookedUp(s, cs)

CompensationInv == GivenRight(AllOf(books), index, calls)

\* What an entry must be to come next.
MayCome(s, e) ==
  /\ e \in Sharing
  /\ e.kind = "usage" => ChargesFor(s, e.key) = {}
  /\ IsCompensation(e) =>
       /\ PaidFor(s, e)
       /\ e.again \/ (e.credits <= Sum(e.charged) /\ Touched(e) \cap DOMAIN GivenIndex(s) = {})

\* One more entry that may come.
LEMMA OneMoreGiven ==
  ASSUME NEW s \in Seq(Sharing), RightlyGiven(s), NEW e, MayCome(s, e)
  PROVE  RightlyGiven(Append(s, e))
<1> DEFINE r == Append(s, e)  n == Len(s) + 1
<1>1. e \in Sharing
  BY DEF MayCome
<1>2. /\ r \in Seq(Sharing) /\ Len(s) \in Nat /\ DOMAIN s = 1 .. Len(s)
      /\ r[n] = e /\ \A i \in DOMAIN s : r[i] = s[i] /\ s[i] \in Sharing
  BY <1>1
<1>3. n \in DOMAIN r /\ DOMAIN s \subseteq DOMAIN r /\ n \notin DOMAIN s
      /\ \A i \in DOMAIN r : i = n \/ i \in DOMAIN s
  BY <1>1
<1> HIDE DEF r, n
<1>4. /\ \A i, j \in DOMAIN s :
           s[i].kind = "usage" /\ s[j].kind = "usage" /\ s[i].key = s[j].key => i = j
      /\ \A i \in DOMAIN s : IsCompensation(s[i]) =>
           PaidFor(s, s[i]) /\ (s[i].again \/ s[i].credits <= Sum(s[i].charged))
      /\ \A i, j \in DOMAIN s :
           i # j /\ IsCompensation(s[i]) /\ IsCompensation(s[j])
             /\ Range(s[i].names) \cap Range(s[j].names) # {} => s[i].again \/ s[j].again
  BY DEF RightlyGiven
<1>5. ASSUME NEW i \in DOMAIN r, NEW j \in DOMAIN r,
             r[i].kind = "usage", r[j].kind = "usage", r[i].key = r[j].key
      PROVE  i = j
  <2>1. ASSUME NEW m \in DOMAIN s, e.kind = "usage", s[m].kind = "usage", s[m].key = e.key
        PROVE  FALSE
    <3>1. s[m] \in ChargesFor(s, e.key)
      BY <2>1 DEF ChargesFor, Range
    <3> QED
      BY <2>1, <3>1 DEF MayCome
  <2>2. (i \in DOMAIN s /\ j \in DOMAIN s) \/ i = n \/ j = n
    BY <1>3
  <2>3. CASE i \in DOMAIN s /\ j \in DOMAIN s
    BY <1>2, <1>4, <1>5, <2>3
  <2>4. CASE i = n /\ j # n
    BY <1>2, <1>3, <1>5, <2>1, <2>4
  <2>5. CASE j = n /\ i # n
    BY <1>2, <1>3, <1>5, <2>1, <2>5
  <2> QED
    BY <2>2, <2>3, <2>4, <2>5
<1>6. ASSUME NEW x, PaidFor(s, x) PROVE PaidFor(r, x)
  BY <1>2, <1>3, <1>6 DEF PaidFor
<1>7. ASSUME NEW i \in DOMAIN r, IsCompensation(r[i])
      PROVE  PaidFor(r, r[i]) /\ (r[i].again \/ r[i].credits <= Sum(r[i].charged))
  <2>1. CASE i = n
    BY <1>2, <1>6, <1>7, <2>1 DEF MayCome
  <2>2. CASE i \in DOMAIN s
    BY <1>2, <1>4, <1>6, <1>7, <2>2
  <2> QED
    BY <1>3, <2>1, <2>2
<1>8. ASSUME NEW i \in DOMAIN s, IsCompensation(s[i]), IsCompensation(e),
             Range(s[i].names) \cap Range(e.names) # {}
      PROVE  s[i].again \/ e.again
  <2> SUFFICES ASSUME ~e.again PROVE FALSE
    OBVIOUS
  <2>1. Touched(e) \cap DOMAIN GivenIndex(s) = {} /\ PaidFor(s, e) /\ PaidFor(s, s[i])
    BY <1>4, <1>8 DEF MayCome
  <2>2. PICK q : q \in Range(s[i].names) /\ q \in Range(e.names)
    BY <1>8
  <2>3. PICK a \in DOMAIN s : s[a].kind = "usage" /\ s[a].key = q /\ s[a].card = s[i].card
    BY <2>1, <2>2 DEF PaidFor, Range
  <2>4. PICK c \in DOMAIN s : s[c].kind = "usage" /\ s[c].key = q /\ s[c].card = e.card
    BY <2>1, <2>2 DEF PaidFor, Range
  <2>5. a = c
    BY <1>4, <2>3, <2>4
  <2>6. <<e.card, q>> \in Touched(s[i]) /\ <<e.card, q>> \in Touched(e)
    BY <2>2, <2>3, <2>4, <2>5 DEF Touched
  <2>7. Touched(s[i]) \subseteq DOMAIN GivenIndex(s)
    BY <1>8, IndexCovers
  <2> QED
    BY <2>1, <2>6, <2>7
<1>9. ASSUME NEW i \in DOMAIN r, NEW j \in DOMAIN r, i # j,
             IsCompensation(r[i]), IsCompensation(r[j]),
             Range(r[i].names) \cap Range(r[j].names) # {}
      PROVE  r[i].again \/ r[j].again
  <2>1. CASE i \in DOMAIN s /\ j \in DOMAIN s
    <3>1. r[i] = s[i] /\ r[j] = s[j]
      BY <1>2, <2>1
    <3> QED
      BY <1>4, <1>9, <2>1, <3>1
  <2>2. CASE i = n /\ j \in DOMAIN s
    <3>1. r[i] = e /\ r[j] = s[j]
      BY <1>2, <2>2
    <3> QED
      BY <1>8, <1>9, <2>2, <3>1
  <2>3. CASE j = n /\ i \in DOMAIN s
    <3>1. r[i] = s[i] /\ r[j] = e
      BY <1>2, <2>3
    <3> QED
      BY <1>8, <1>9, <2>3, <3>1
  <2> QED
    BY <1>3, <1>9, <2>1, <2>2, <2>3
<1>10. RightlyGiven(r)
  BY <1>5, <1>7, <1>9 DEF RightlyGiven
<1> QED
  BY <1>10 DEF r

\* What the calls were told stays so.
LEMMA StillLookedUp ==
  ASSUME NEW s \in Seq(Sharing), NEW e, MayCome(s, e), NEW cs, LookedUp(s, cs),
         \A call \in cs : \A i \in DOMAIN call.found : call.found[i] # {}
  PROVE  LookedUp(Append(s, e), cs)
<1> DEFINE r == Append(s, e)
<1>1. e \in Sharing
  BY DEF MayCome
<1>2. Range(r) = Range(s) \cup {e}
  <2>1. /\ Len(s) \in Nat /\ DOMAIN s = 1 .. Len(s) /\ DOMAIN r = 1 .. Len(s) + 1
        /\ r[Len(s) + 1] = e /\ \A i \in DOMAIN s : r[i] = s[i]
    BY <1>1
  <2>2. Len(s) + 1 \in DOMAIN r /\ \A i \in DOMAIN r : i = Len(s) + 1 \/ i \in DOMAIN s
    BY <2>1
  <2>3. DOMAIN s \subseteq DOMAIN r
    BY <2>1
  <2> HIDE DEF r
  <2> QED
    BY <2>1, <2>2, <2>3 DEF Range
<1> HIDE DEF r
<1>3. ASSUME NEW q, ChargesFor(s, q) # {} PROVE ChargesFor(r, q) = ChargesFor(s, q)
  <2>1. ~(e.kind = "usage" /\ e.key = q)
    BY <1>3 DEF MayCome
  <2> QED
    BY <1>2, <2>1 DEF ChargesFor
<1> QED
  BY <1>3 DEF LookedUp, r

-----------------------------------------------------------------------------
\* Operations on what is given.

\* What stands after a commit, whether or not the process survives it.
GivenNow(idx) == calls' \subseteq calls /\ (index' = idx \/ index' = BuildIndex(books'))

\* A commit gives what it is to give.
LEMMA CommitGiven ==
  ASSUME NEW next, NEW idx, NEW rest, rest \subseteq calls, CommitBooks(next, idx, rest)
  PROVE  books' = next /\ GivenNow(idx)
BY DEF CommitBooks, GivenNow

\* What the invariant says of the books and calls.
LEMMA GivenFacts ==
  ASSUME CardsInv, CompensationInv
  PROVE  /\ Shape(books) /\ AllOf(books) \in Seq(Sharing) /\ index = GivenIndex(AllOf(books))
         /\ index \in IndexType /\ RightlyGiven(AllOf(books)) /\ LookedUp(AllOf(books), calls)
         /\ \A call \in calls : \A i \in DOMAIN call.found : call.found[i] # {}
         /\ books.ledger \in Seq(Booked) /\ books.archives \in Seq(Booked)
         /\ \A r : ChargeOf(books, r) = ChargesFor(AllOf(books), r)
<1>1. /\ Shape(books) /\ AllOf(books) \in Seq(Sharing) /\ index = GivenIndex(AllOf(books))
      /\ RightlyGiven(AllOf(books)) /\ LookedUp(AllOf(books), calls)
      /\ \A call \in calls : \A i \in DOMAIN call.found : call.found[i] # {}
  BY DEF CardsInv, Stands, BooksStand, CallsTyped, CompensationInv, GivenRight
<1>2. index \in IndexType
  BY <1>1, IndexGrows
<1>3. books.ledger \in Seq(Booked) /\ books.archives \in Seq(Booked)
  BY <1>1, ShapeFacts
<1>4. Range(AllOf(books)) = Range(books.ledger) \cup Range(books.archives)
  BY <1>1, AllFacts DEF Range
<1>5. \A r : ChargeOf(books, r) = ChargesFor(AllOf(books), r)
  BY <1>4 DEF ChargeOf, ChargesFor
<1> QED
  BY <1>1, <1>2, <1>3, <1>5

\* No more is booked.
LEMMA NothingGiven ==
  ASSUME CardsInv, CardsInv', CompensationInv, AllOf(books') = AllOf(books), GivenNow(index)
  PROVE  CompensationInv'
<1>1. /\ AllOf(books) \in Seq(Sharing) /\ index = GivenIndex(AllOf(books))
      /\ RightlyGiven(AllOf(books)) /\ LookedUp(AllOf(books), calls)
  BY GivenFacts
<1>2. BooksStand(books')
  BY DEF CardsInv, Stands
<1>3. index' = GivenIndex(AllOf(books'))
  BY <1>1, <1>2, StartIndex DEF GivenNow
<1>4. LookedUp(AllOf(books), calls')
  BY <1>1 DEF LookedUp, GivenNow
<1> QED
  BY <1>1, <1>3, <1>4 DEF CompensationInv, GivenRight

\* One more entry is booked, and counted.
LEMMA EntryGiven ==
  ASSUME CardsInv, CardsInv', CompensationInv, NEW e, MayCome(AllOf(books), e),
         AllOf(books') = Append(AllOf(books), e), GivenNow(AddCompensation(index, e))
  PROVE  CompensationInv'
<1> DEFINE s == AllOf(books)  r == AllOf(books')
<1>1. /\ s \in Seq(Sharing) /\ index = GivenIndex(s) /\ RightlyGiven(s) /\ LookedUp(s, calls)
      /\ \A call \in calls : \A i \in DOMAIN call.found : call.found[i] # {}
  BY GivenFacts
<1>2. BooksStand(books') /\ r = Append(s, e) /\ e \in Sharing
  BY DEF CardsInv, Stands, MayCome
<1> HIDE DEF s, r
<1>3. r \in Seq(Sharing)
  BY <1>1, <1>2
<1>4. index' = GivenIndex(r)
  <2>1. GivenIndex(r) = AddCompensation(index, e)
    BY <1>1, <1>2, IndexGrows
  <2>2. BuildIndex(books') = GivenIndex(r)
    BY <1>2, <1>3, StartIndex DEF r
  <2> QED
    BY <2>1, <2>2 DEF GivenNow
<1>5. RightlyGiven(r)
  BY <1>1, <1>2, OneMoreGiven DEF s
<1>6. LookedUp(r, calls')
  <2>1. LookedUp(r, calls)
    BY <1>1, <1>2, StillLookedUp DEF s
  <2> QED
    BY <2>1 DEF LookedUp, GivenNow
<1> QED
  BY <1>3, <1>4, <1>5, <1>6 DEF CompensationInv, GivenRight, r

\* An entry that is no compensation leaves the index.
LEMMA PlainEntry ==
  ASSUME NEW c \in CardIds, NEW kind \in {"usage", "topup", "adjustment"}, NEW n \in Int,
         NEW key \in EntryKeys, kind # "adjustment" => n \in Nat
  PROVE  LET e == [Entry(c, kind, n) EXCEPT !.key = key]
         IN /\ e \in Sharing /\ e \in Booked /\ ~IsCompensation(e) /\ e.kind = kind /\ e.key = key
            /\ \A idx \in IndexType : AddCompensation(idx, e) = idx
<1> DEFINE e == [Entry(c, kind, n) EXCEPT !.key = key]
<1>1. e \in Booked /\ e.kind = kind /\ e.key = key
  BY EntryFacts
<1>2. e.names = <<>>
  BY DEF Entry
<1> HIDE DEF e
<1>3. ~IsCompensation(e)
  BY <1>2 DEF IsCompensation
<1>4. e \in Sharing
  BY <1>1, <1>3 DEF Sharing
<1>5. \A idx \in IndexType : AddCompensation(idx, e) = idx
  BY <1>3, <1>4, AddFacts DEF CountsEntry
<1> QED
  BY <1>1, <1>3, <1>4, <1>5 DEF e

\* The entry of a card's change comes last.
LEMMA ChangedAll ==
  ASSUME NEW b, Shape(b), NEW c, NEW k, NEW codes, NEW e \in Booked
  PROVE  AllOf(Changed(b, c, k, codes, Append(b.ledger, e))) = Append(AllOf(b), e)
<1> DEFINE A == b.archives  L == b.ledger
<1>1. A \in Seq(Booked) /\ L \in Seq(Booked) /\ AllOf(b) = A \o L
  BY ShapeFacts DEF AllOf
<1>2. AllOf(Changed(b, c, k, codes, Append(L, e))) = A \o Append(L, e)
  BY DEF AllOf, Changed
<1> HIDE DEF A, L
<1>3. A \o Append(L, e) = Append(A \o L, e)
  BY <1>1
<1> QED
  BY <1>1, <1>2, <1>3 DEF L

\* A card changes and no entry comes, or a plain one.
LEMMA ChangeGiven ==
  ASSUME CardsInv, CardsInv', CompensationInv, NEW c, NEW k,
         \/ Change(c, k, <<>>)
         \/ \E e : /\ Change(c, k, <<e>>) /\ e.card = c
                   /\ e \in Sharing /\ ~IsCompensation(e)
                   /\ e.kind = "usage" => ChargesFor(AllOf(books), e.key) = {}
  PROVE  CompensationInv'
<1>1. Shape(books) /\ index \in IndexType /\ books.ledger \in Seq(Booked)
  BY GivenFacts
<1>2. CASE Change(c, k, <<>>)
  <2>1. FoldLeft(AddCompensation, index, <<>>) = index /\ books.ledger \o <<>> = books.ledger
    BY <1>1, IndexGrows
  <2>2. CommitBooks([books EXCEPT !.cards[c] = k, !.ledger = @ \o <<>>], index, calls)
    BY <1>2, <2>1 DEF Change
  <2>3. ChangesTo(books, c, k, books.ledger \o <<>>)
    BY <1>1, ChangeForm
  <2>4. [books EXCEPT !.cards[c] = k, !.ledger = @ \o <<>>]
          = Changed(books, c, k, books.codes, books.ledger \o <<>>)
    BY <2>3, Zenon DEF ChangesTo
  <2>5. books' = Changed(books, c, k, books.codes, books.ledger) /\ GivenNow(index)
    <3>1. books' = [books EXCEPT !.cards[c] = k, !.ledger = @ \o <<>>] /\ GivenNow(index)
      BY <2>2, CommitGiven
    <3> QED
      BY <2>1, <2>4, <3>1
  <2>6. AllOf(books') = AllOf(books)
    BY <2>5 DEF AllOf, Changed
  <2> QED
    BY <2>5, <2>6, NothingGiven
<1>3. CASE \E e : /\ Change(c, k, <<e>>) /\ e.card = c
                  /\ e \in Sharing /\ ~IsCompensation(e)
                  /\ e.kind = "usage" => ChargesFor(AllOf(books), e.key) = {}
  <2>1. PICK e : /\ Change(c, k, <<e>>) /\ e.card = c
                 /\ e \in Sharing /\ ~IsCompensation(e)
                 /\ e.kind = "usage" => ChargesFor(AllOf(books), e.key) = {}
    BY <1>3
  <2>2. e \in Booked /\ MayCome(AllOf(books), e)
    BY <2>1 DEF Sharing, MayCome
  <2>3. FoldLeft(AddCompensation, index, <<e>>) = AddCompensation(index, e)
    BY <1>1, <2>1, IndexGrows
  <2>4. CommitBooks(Changed(books, c, k, books.codes, Append(books.ledger, e)),
                    AddCompensation(index, e), calls)
    BY <2>1, <2>2, <2>3, ChangeAdds
  <2>5. /\ books' = Changed(books, c, k, books.codes, Append(books.ledger, e))
        /\ GivenNow(AddCompensation(index, e))
    BY <2>4, CommitGiven
  <2>6. AllOf(books') = Append(AllOf(books), e)
    BY <1>1, <2>2, <2>5, ChangedAll
  <2> QED
    BY <2>2, <2>5, <2>6, EntryGiven
<1> QED
  BY <1>2, <1>3

Parts(C, O, L, A, Y, R) ==
  [cards |-> C, codes |-> O, ledger |-> L, archives |-> A, summary |-> Y, orders |-> R]

PartsReplaced(C, O, L, A, Y, R, X) ==
  LET b == Parts(C, O, L, A, Y, R)
  IN /\ [b EXCEPT !.cards = X] = Parts(X, O, L, A, Y, R)
     /\ [b EXCEPT !.codes = X] = Parts(C, X, L, A, Y, R)
     /\ [b EXCEPT !.ledger = X] = Parts(C, O, X, A, Y, R)
     /\ [b EXCEPT !.orders = X] = Parts(C, O, L, A, Y, X)
     /\ b.cards = C /\ b.ledger = L /\ b.archives = A

\* One part of the books is replaced.
LEMMA ReplacesPart == \A C, O, L, A, Y, R, X : PartsReplaced(C, O, L, A, Y, R, X)
<1> TAKE C, O, L, A, Y, R, X
<1> DEFINE b == Parts(C, O, L, A, Y, R)
<1>1. b = [cards |-> C, codes |-> O, ledger |-> L, archives |-> A, summary |-> Y, orders |-> R]
  BY DEF Parts
<1> HIDE DEF b
<1>2. [b EXCEPT !.cards = X] = Parts(X, O, L, A, Y, R)
  BY <1>1 DEF Parts
<1>3. [b EXCEPT !.codes = X] = Parts(C, X, L, A, Y, R)
  BY <1>1 DEF Parts
<1>4. [b EXCEPT !.ledger = X] = Parts(C, O, X, A, Y, R)
  BY <1>1 DEF Parts
<1>5. [b EXCEPT !.orders = X] = Parts(C, O, L, A, Y, X)
  BY <1>1 DEF Parts
<1>6. b.cards = C /\ b.ledger = L /\ b.archives = A
  BY <1>1
<1> QED
  BY <1>2, <1>3, <1>4, <1>5, <1>6 DEF PartsReplaced, b

\* Cards are issued, and validity is extended: nothing is booked.
LEMMA CardsOnly ==
  ASSUME CardsInv, CardsInv', CompensationInv, NEW C,
         \/ CommitBooks([books EXCEPT !.cards = C], index, calls)
         \/ \E R : CommitBooks([[books EXCEPT !.cards = C] EXCEPT !.orders = R], index, calls)
  PROVE  CompensationInv'
<1> DEFINE L == books.ledger  A == books.archives
           O == books.codes  Y == books.summary  Q == books.orders
           b1 == [books EXCEPT !.cards = C]
           Stay(b) == b.ledger = L /\ b.archives = A
<1>1. books = Parts(books.cards, O, L, A, Y, Q)
  BY GivenFacts, ShapeFacts DEF Parts
<1>2. b1 = Parts(C, O, L, A, Y, Q)
  <2> DEFINE C0 == books.cards
  <2>1. books = Parts(C0, O, L, A, Y, Q) /\ PartsReplaced(C0, O, L, A, Y, Q, C)
    BY <1>1, ReplacesPart
  <2> HIDE DEF C0, O, L, A, Y, Q
  <2> QED
    BY <2>1 DEF PartsReplaced
<1> HIDE DEF b1, O, L, A, Y, Q
<1>3. Stay(b1)
  <2>1. PartsReplaced(C, O, L, A, Y, Q, Q)
    BY ReplacesPart
  <2> QED
    BY <1>2, <2>1 DEF PartsReplaced
<1>4. ASSUME NEW R, CommitBooks([b1 EXCEPT !.orders = R], index, calls)
      PROVE  GivenNow(index) /\ Stay(books')
  <2> DEFINE b2 == [b1 EXCEPT !.orders = R]
  <2>1. PartsReplaced(C, O, L, A, Y, Q, R) /\ PartsReplaced(C, O, L, A, Y, R, R)
    BY ReplacesPart
  <2>2. b2 = Parts(C, O, L, A, Y, R)
    BY <1>2, <2>1 DEF PartsReplaced
  <2>3. CommitBooks(b2, index, calls)
    BY <1>4
  <2> HIDE DEF b2
  <2>4. Stay(b2)
    BY <2>1, <2>2 DEF PartsReplaced
  <2> QED
    BY <2>3, <2>4, CommitGiven
<1>5. GivenNow(index) /\ Stay(books')
  <2>1. CASE CommitBooks([books EXCEPT !.cards = C], index, calls)
    BY <1>3, <2>1, CommitGiven DEF b1
  <2>2. CASE \E R : CommitBooks([[books EXCEPT !.cards = C] EXCEPT !.orders = R], index, calls)
    <3>1. PICK R : CommitBooks([b1 EXCEPT !.orders = R], index, calls)
      BY <2>2 DEF b1
    <3> QED
      BY <1>4, <3>1
  <2> QED
    BY <2>1, <2>2
<1>6. AllOf(books') = AllOf(books)
  BY <1>5 DEF AllOf, L, A
<1> QED
  BY <1>5, <1>6, NothingGiven

\* A card's status, validity and place.
LEMMA OperationsGive ==
  ASSUME CardsInv, CardsInv', CompensationInv, NEW c, ActivateCard(c) \/ Operates(c)
  PROVE  CompensationInv'
<1>1. \E k : Change(c, k, <<>>)
  BY DEF ActivateCard, Operates, Freeze, Unfreeze, Ban, Unban, Void, ArchiveCard, UnarchiveCard
<1> QED
  BY <1>1, ChangeGiven

\* A request is charged once.
LEMMA ChargeGives ==
  ASSUME CardsInv, CardsInv', CompensationInv, NEW r \in CardRequests,
         NEW c \in DOMAIN books.cards, NEW n \in RequestCharges, ChargeRequest(r, c, n)
  PROVE  CompensationInv'
<1> DEFINE e == [Entry(c, "usage", n) EXCEPT !.key = r]
<1>1. c \in CardIds /\ n \in Nat /\ r \in EntryKeys
  BY CardFacts, SomethingIsSold DEF EntryKeys
<1>2. e \in Sharing /\ ~IsCompensation(e) /\ e.key = r
  BY <1>1, PlainEntry
<1>3. e.card = c
  BY DEF Entry
<1>4. ChargesFor(AllOf(books), r) = {}
  BY GivenFacts DEF ChargeRequest
<1>5. \E k : Change(c, k, <<e>>)
  BY DEF ChargeRequest
<1> HIDE DEF e
<1> QED
  BY <1>2, <1>3, <1>4, <1>5, ChangeGiven

\* An upgrade is an adjustment for no request.
LEMMA UpgradeGives ==
  ASSUME CardsInv, CardsInv', CompensationInv, NEW c \in DOMAIN books.cards, NEW key \in Keys,
         NEW n \in Nat, NEW d \in Nat, UpgradeCard(c, key, n, d)
  PROVE  CompensationInv'
<1> DEFINE e == [Entry(c, "adjustment", n) EXCEPT !.key = key]
<1>1. c \in CardIds /\ key \in EntryKeys
  BY CardFacts DEF EntryKeys
<1>2. e \in Sharing /\ ~IsCompensation(e) /\ e.kind = "adjustment"
  BY <1>1, PlainEntry
<1>3. e.card = c
  BY DEF Entry
<1>4. \E k : Change(c, k, <<e>>)
  BY DEF UpgradeCard
<1> HIDE DEF e
<1> QED
  BY <1>2, <1>3, <1>4, ChangeGiven

\* A code's credits are for no request.
LEMMA TopupGives ==
  ASSUME CardsInv, CardsInv', CompensationInv, NEW c \in DOMAIN books.cards,
         NEW code \in TopupCodes, RedeemTopup(c, code)
  PROVE  CompensationInv'
<1> DEFINE e == [Entry(c, "topup", Worth[code]) EXCEPT !.key = code]
           C0 == books.cards  O == books.codes  L == books.ledger  A == books.archives
           Y == books.summary  R0 == books.orders
<1>1. c \in CardIds /\ code \in EntryKeys /\ Worth[code] \in Nat
  BY CardFacts, SomethingIsSold DEF EntryKeys
<1>2. /\ e \in Sharing /\ e \in Booked /\ ~IsCompensation(e) /\ e.kind = "topup"
      /\ \A idx \in IndexType : AddCompensation(idx, e) = idx
  BY <1>1, PlainEntry
<1>3. /\ books = [cards |-> C0, codes |-> O, ledger |-> L, archives |-> A, summary |-> Y,
                  orders |-> R0]
      /\ L \in Seq(Booked) /\ A \in Seq(Booked) /\ index \in IndexType
  BY GivenFacts, ShapeFacts
<1> DEFINE u == IF Days[code] > 0 THEN Later(books.cards[c].until, day) + Days[code]
                ELSE books.cards[c].until
           C1 == [books.cards EXCEPT ![c].total = books.cards[c].total + Worth[code]]
           b0 == [books EXCEPT !.codes = books.codes \cup {code}]
           b1 == [b0 EXCEPT !.cards[c].total = books.cards[c].total + Worth[code]]
           b2 == [b1 EXCEPT !.cards[c].until = u]
           b3 == [b2 EXCEPT !.ledger = Append(L, e)]
<1>4. books' = b3 /\ GivenNow(index)
  <2>1. CommitBooks(b3, index, calls)
    BY Zenon DEF RedeemTopup
  <2> HIDE DEF b3
  <2> QED
    BY <2>1, CommitGiven
<1>5. b3.ledger = Append(L, e) /\ b3.archives = A
  <2> DEFINE x == [b0.cards EXCEPT ![c].total = books.cards[c].total + Worth[code]]
             y == [b1.cards EXCEPT ![c].until = u]
             N == books.codes \cup {code}
             q == Append(L, e)
  <2> HIDE DEF u, q
  <2>1. books = Parts(C0, O, L, A, Y, R0) /\ PartsReplaced(C0, O, L, A, Y, R0, N)
    BY <1>3, ReplacesPart DEF Parts
  <2>2. b0 = Parts(C0, N, L, A, Y, R0)
    <3>1. b0 = [books EXCEPT !.codes = N]
      OBVIOUS
    <3> HIDE DEF b0, N, C0, O, L, A, Y, R0
    <3> QED
      BY <2>1, <3>1 DEF PartsReplaced
  <2>3. b1 = [b0 EXCEPT !.cards = x] /\ PartsReplaced(C0, N, L, A, Y, R0, x)
    BY ReplacesPart
  <2> HIDE DEF b0, x
  <2>4. b1 = Parts(x, N, L, A, Y, R0)
    <3> HIDE DEF b1, N, C0, O, L, A, Y, R0
    <3> QED
      BY <2>2, <2>3 DEF PartsReplaced
  <2>5. b2 = [b1 EXCEPT !.cards = y] /\ PartsReplaced(x, N, L, A, Y, R0, y)
    BY ReplacesPart
  <2> HIDE DEF b1, y
  <2>6. b2 = Parts(y, N, L, A, Y, R0)
    <3> HIDE DEF b2, N, C0, O, L, A, Y, R0
    <3> QED
      BY <2>4, <2>5 DEF PartsReplaced
  <2>7. b3 = [b2 EXCEPT !.ledger = q] /\ PartsReplaced(y, N, L, A, Y, R0, q)
        /\ PartsReplaced(y, N, q, A, Y, R0, q)
    BY ReplacesPart DEF q
  <2> HIDE DEF b2, N, C0, O, L, A, Y, R0
  <2>8. b3 = Parts(y, N, q, A, Y, R0)
    <3> HIDE DEF b3
    <3> QED
      BY <2>6, <2>7 DEF PartsReplaced
  <2> HIDE DEF b3
  <2>9. b3.ledger = q /\ b3.archives = A
    BY <2>7, <2>8 DEF PartsReplaced
  <2> QED
    BY <2>9 DEF q
<1> HIDE DEF b3, e
<1>6. AllOf(books') = Append(AllOf(books), e)
  <2>1. AllOf(books') = A \o Append(L, e) /\ AllOf(books) = A \o L
    BY <1>4, <1>5 DEF AllOf
  <2> HIDE DEF A, L
  <2> QED
    BY <1>2, <1>3, <2>1
<1>7. MayCome(AllOf(books), e) /\ AddCompensation(index, e) = index
  BY <1>2, <1>3 DEF MayCome
<1> QED
  BY <1>4, <1>6, <1>7, EntryGiven

\* A card that is issued has no entry yet.
LEMMA IssuesGive ==
  ASSUME CardsInv, CardsInv', CompensationInv, NEW c, NEW d,
         IssueCard(c, d) \/ \E o \in Orders : FulfillCardOrder(o, c, d)
  PROVE  CompensationInv'
<1> DEFINE C == [x \in DOMAIN books.cards \cup {c} |->
                   IF x = c THEN NewCard(d) ELSE books.cards[x]]
           b1 == [books EXCEPT !.cards = C]
<1>1. Issued(books, c, d) = b1
  BY DEF Issued
<1> HIDE DEF b1
<1>2. CASE IssueCard(c, d)
  <2>1. CommitBooks(b1, index, calls)
    BY <1>1, <1>2 DEF IssueCard
  <2> QED
    BY <2>1, CardsOnly DEF b1
<1>3. CASE \E o \in Orders : FulfillCardOrder(o, c, d)
  <2>1. PICK o \in Orders : FulfillCardOrder(o, c, d)
    BY <1>3
  <2> DEFINE R == [x \in DOMAIN b1.orders \cup {o} |-> IF x = o THEN c ELSE b1.orders[x]]
  <2>2. CommitBooks([Issued(books, c, d) EXCEPT
                       !.orders = [x \in DOMAIN @ \cup {o} |-> IF x = o THEN c ELSE @[x]]],
                    index, calls)
    BY <2>1 DEF FulfillCardOrder
  <2>3. [b1 EXCEPT !.orders = [x \in DOMAIN @ \cup {o} |-> IF x = o THEN c ELSE @[x]]]
          = [b1 EXCEPT !.orders = R]
    OBVIOUS
  <2> HIDE DEF R
  <2>4. CommitBooks([b1 EXCEPT !.orders = R], index, calls)
    BY <1>1, <2>2, <2>3
  <2>5. \E r : CommitBooks([[books EXCEPT !.cards = C] EXCEPT !.orders = r], index, calls)
    BY <2>4 DEF b1
  <2> HIDE DEF C
  <2> QED
    BY <2>5, CardsOnly
<1> QED
  BY <1>2, <1>3

\* Days are no credits.
LEMMA ExtensionsGive ==
  ASSUME CardsInv, CardsInv', CompensationInv, NEW cs,
         ExtendValidity(cs) \/ \E until \in 1 .. MaxUntil : ExtendUntil(cs, until)
  PROVE  CompensationInv'
<1>1. \E C : CommitBooks([books EXCEPT !.cards = C], index, calls)
  <2>1. CASE ExtendValidity(cs)
    <3> DEFINE C == [c \in DOMAIN books.cards |->
                       IF c \in cs THEN Extended(books.cards[c], 1) ELSE books.cards[c]]
    <3>1. CommitBooks([books EXCEPT !.cards = C], index, calls)
      BY <2>1 DEF ExtendValidity
    <3> HIDE DEF C
    <3> QED
      BY <3>1
  <2>2. CASE \E until \in 1 .. MaxUntil : ExtendUntil(cs, until)
    <3>1. PICK until \in 1 .. MaxUntil : ExtendUntil(cs, until)
      BY <2>2
    <3> DEFINE C == [c \in DOMAIN books.cards |->
                       IF c \in cs THEN [books.cards[c] EXCEPT !.until = until]
                       ELSE books.cards[c]]
    <3>2. CommitBooks([books EXCEPT !.cards = C], index, calls)
      BY <3>1 DEF ExtendUntil
    <3> HIDE DEF C
    <3> QED
      BY <3>2
  <2> QED
    BY <2>1, <2>2
<1> QED
  BY <1>1, CardsOnly

\* Archiving moves entries, and a restart reads them again.
LEMMA ArchivesGive ==
  ASSUME CardsInv, CardsInv', CompensationInv,
         (\E n \in 1 .. Len(books.ledger) : ArchiveEntries(n)) \/ RestartBooks
  PROVE  CompensationInv'
<1> DEFINE C == books.cards  O == books.codes  L == books.ledger  A == books.archives
           Y == books.summary  R == books.orders
<1>1. Y = SummaryOf(A)
  BY DEF CardsInv, Stands, BooksStand
<1>2. /\ books = [cards |-> C, codes |-> O, ledger |-> L, archives |-> A, summary |-> Y,
                  orders |-> R]
      /\ L \in Seq(Booked) /\ A \in Seq(Booked)
  BY GivenFacts, ShapeFacts
<1>3. CASE \E n \in 1 .. Len(L) : ArchiveEntries(n)
  <2>1. PICK n \in 1 .. Len(L) : ArchiveEntries(n)
    BY <1>3
  <2> DEFINE d == SubSeq(L, 1, n)  l == SubSeq(L, n + 1, Len(L))
             a == A \o d  y == FoldLeft(Include, Y, d)
             x1 == [books EXCEPT !.ledger = l]
             x2 == [x1 EXCEPT !.archives = a]
             x3 == [x2 EXCEPT !.summary = y]
  <2>2. a \o l = A \o L
    <3> HIDE DEF L, A
    <3> QED
      BY <1>2, <2>1, ArchivedParts
  <2>3. CommitBooks(x3, index, calls)
    <3>1. CommitBooks([books EXCEPT !.ledger = SubSeq(@, n + 1, Len(@)),
                                    !.archives = @ \o SubSeq(books.ledger, 1, n),
                                    !.summary = FoldLeft(Include, @, SubSeq(books.ledger, 1, n))],
                      index, calls)
      BY <2>1, Zenon DEF ArchiveEntries
    <3>2. [books EXCEPT !.ledger = SubSeq(@, n + 1, Len(@)),
                        !.archives = @ \o SubSeq(books.ledger, 1, n),
                        !.summary = FoldLeft(Include, @, SubSeq(books.ledger, 1, n))] = x3
      BY Zenon DEF l, a, y, d
    <3> HIDE DEF x3
    <3> QED
      BY <3>1, <3>2
  <2>4. books' = x3 /\ GivenNow(index)
    <3> HIDE DEF x3
    <3> QED
      BY <2>3, CommitGiven
  <2>5. x3.ledger = l /\ x3.archives = a
    <3> HIDE DEF C, O, L, A, Y, R, l, a, y
    <3>1. x1 = [cards |-> C, codes |-> O, ledger |-> l, archives |-> A, summary |-> Y,
                orders |-> R]
      BY <1>2
    <3> HIDE DEF x1
    <3>2. x2 = [cards |-> C, codes |-> O, ledger |-> l, archives |-> a, summary |-> Y,
                orders |-> R]
      BY <3>1
    <3> HIDE DEF x2
    <3> QED
      BY <3>2
  <2> HIDE DEF x3, l, a
  <2>6. AllOf(books') = AllOf(books)
    BY <2>2, <2>4, <2>5 DEF AllOf
  <2> QED
    BY <2>4, <2>6, NothingGiven
<1>4. CASE RestartBooks
  <2>1. PICK y \in {Y, FoldLeft(Include, NoSummary, A)} :
          books' = [books EXCEPT !.summary = y]
    BY <1>4 DEF RestartBooks
  <2>2. y = Y
    BY <1>1, <2>1 DEF SummaryOf
  <2>3. books' = books
    <3> HIDE DEF C, O, L, A, R
    <3>1. books.summary = Y
      OBVIOUS
    <3> HIDE DEF Y
    <3> QED
      BY <1>2, <2>1, <2>2, <3>1
  <2>4. calls' = {} /\ index' = BuildIndex(books')
    BY <1>4 DEF RestartBooks
  <2>5. GivenNow(index)
    BY <2>4 DEF GivenNow
  <2>6. AllOf(books') = AllOf(books)
    BY <2>3
  <2> QED
    BY <2>5, <2>6, NothingGiven
<1> QED
  BY <1>3, <1>4

\* What a call finds is so; and a call may end at any time.
LEMMA CallsGive ==
  ASSUME CardsInv, CardsInv', CompensationInv,
         \/ \E ask \in Asks : LookUpRequests(ask)
         \/ \E call \in calls : CallEnds(call)
         \/ DayPasses
         \/ UNCHANGED cardVars
  PROVE  CompensationInv'
<1>1. /\ AllOf(books) \in Seq(Sharing) /\ index = GivenIndex(AllOf(books))
      /\ RightlyGiven(AllOf(books)) /\ LookedUp(AllOf(books), calls)
      /\ \A r : ChargeOf(books, r) = ChargesFor(AllOf(books), r)
  BY GivenFacts
<1>2. books' = books /\ index' = index
  BY DEF LookUpRequests, CallEnds, DayPasses, cardVars
<1>3. LookedUp(AllOf(books), calls')
  <2>1. CASE \E ask \in Asks : LookUpRequests(ask)
    <3>1. PICK ask \in Asks : LookUpRequests(ask)
      BY <2>1
    <3> DEFINE found == [i \in DOMAIN ask.names |-> ChargeOf(books, ask.names[i])]
               call == [ask |-> ask, found |-> found]
    <3>2. calls' = calls \cup {call}
      BY <3>1 DEF LookUpRequests
    <3>3. call.ask = ask /\ call.found = found
      OBVIOUS
    <3>4. \A i \in DOMAIN found : found[i] = ChargesFor(AllOf(books), ask.names[i])
      BY <1>1
    <3> HIDE DEF call, found
    <3> QED
      BY <1>1, <3>2, <3>3, <3>4 DEF LookedUp
  <2>2. CASE ~ \E ask \in Asks : LookUpRequests(ask)
    <3>1. calls' \subseteq calls
      BY <2>2 DEF CallEnds, DayPasses, cardVars
    <3> QED
      BY <1>1, <3>1 DEF LookedUp
  <2> QED
    BY <2>1, <2>2
<1> QED
  BY <1>1, <1>2, <1>3 DEF CompensationInv, GivenRight

\* The entries of a renewal come last.
LEMMA RenewedEntries ==
  ASSUME CardsInv, NEW c, NEW s
  PROVE  /\ Renewed(c, s).archives = books.archives
         /\ Renewed(c, s).ledger
              = books.ledger \o <<[Entry(c, "topup", Card(s).total) EXCEPT !.key = s],
                                  [Entry(s, "adjustment", -Card(s).total) EXCEPT !.key = s]>>
<1> DEFINE C0 == books.cards  O == books.codes  L == books.ledger  A == books.archives
           Y == books.summary  R == books.orders
           q == L \o <<[Entry(c, "topup", Card(s).total) EXCEPT !.key = s],
                       [Entry(s, "adjustment", -Card(s).total) EXCEPT !.key = s]>>
           n == Card(s).total
           u == IF books.cards[c].until = 0 THEN 0
                ELSE Later(books.cards[c].until, day + RenewalDays)
           t == books.cards[c].total + n
           x1 == [books EXCEPT !.cards[c].total = t]
           x2 == [x1 EXCEPT !.cards[c].until = u]
           x3 == [x2 EXCEPT !.cards[s].status = "voided"]
           x4 == [x3 EXCEPT !.cards[s].used = n]
           x5 == [x4 EXCEPT !.ledger = q]
           C1 == [C0 EXCEPT ![c].total = t]
           C2 == [x1.cards EXCEPT ![c].until = u]
           C3 == [x2.cards EXCEPT ![s].status = "voided"]
           C4 == [x3.cards EXCEPT ![s].used = n]
           With(C) == Parts(C, O, L, A, Y, R)
<1>1. books = With(C0)
  BY ShapeFacts DEF CardsInv, Stands, BooksStand, Parts
<1>2. Renewed(c, s) = x5
  BY Zenon DEF Renewed
<1>3. x1 = [books EXCEPT !.cards = C1] /\ x2 = [x1 EXCEPT !.cards = C2]
      /\ x3 = [x2 EXCEPT !.cards = C3] /\ x4 = [x3 EXCEPT !.cards = C4]
  <2> HIDE DEF t, u, n
  <2>1. x1 = [books EXCEPT !.cards = C1]
    OBVIOUS
  <2> HIDE DEF x1
  <2>2. x2 = [x1 EXCEPT !.cards = C2]
    OBVIOUS
  <2> HIDE DEF x2
  <2>3. x3 = [x2 EXCEPT !.cards = C3]
    OBVIOUS
  <2> HIDE DEF x3
  <2>4. x4 = [x3 EXCEPT !.cards = C4]
    OBVIOUS
  <2> QED
    BY <2>1, <2>2, <2>3, <2>4 DEF x1, x2, x3
<1> HIDE DEF x1, x2, x3, x4, C1, C2, C3, C4, C0
<1>4. x4 = With(C4)
  <2> HIDE DEF O, L, A, Y, R
  <2>0. /\ PartsReplaced(C0, O, L, A, Y, R, C1) /\ PartsReplaced(C1, O, L, A, Y, R, C2)
        /\ PartsReplaced(C2, O, L, A, Y, R, C3) /\ PartsReplaced(C3, O, L, A, Y, R, C4)
    BY ReplacesPart
  <2>1. x1 = With(C1)
    BY <1>1, <1>3, <2>0 DEF PartsReplaced
  <2>2. x2 = With(C2)
    BY <1>3, <2>0, <2>1 DEF PartsReplaced
  <2>3. x3 = With(C3)
    BY <1>3, <2>0, <2>2 DEF PartsReplaced
  <2> QED
    BY <1>3, <2>0, <2>3 DEF PartsReplaced
<1> HIDE DEF q
<1>5. x5.ledger = q /\ x5.archives = A
  <2> HIDE DEF A, L, O, Y, R
  <2>1. PartsReplaced(C4, O, L, A, Y, R, q) /\ PartsReplaced(C4, O, q, A, Y, R, q)
    BY ReplacesPart
  <2> QED
    BY <1>4, <2>1 DEF PartsReplaced
<1> HIDE DEF x5
<1> QED
  BY <1>2, <1>5 DEF q

\* The entries of a renewal are for no request.
LEMMA RenewalGives ==
  ASSUME CardsInv, CardsInv', CompensationInv, NEW c \in DOMAIN books.cards,
         NEW s \in DOMAIN books.cards, RenewWithCard(c, s)
  PROVE  CompensationInv'
<1> DEFINE L == books.ledger  A == books.archives  n == Card(s).total
           e == [Entry(c, "topup", n) EXCEPT !.key = s]
           f == [Entry(s, "adjustment", -n) EXCEPT !.key = s]
           a == AllOf(books)  b == Append(a, e)  r == AllOf(books')
<1>1. c \in CardIds /\ s \in CardIds /\ s \in EntryKeys /\ n \in Nat /\ -n \in Int
  BY CardFacts DEF EntryKeys
<1>2. /\ e \in Sharing /\ e \in Booked /\ ~IsCompensation(e) /\ e.kind = "topup"
      /\ \A idx \in IndexType : AddCompensation(idx, e) = idx
  <2> HIDE DEF n
  <2> QED
    BY <1>1, PlainEntry
<1>3. /\ f \in Sharing /\ f \in Booked /\ ~IsCompensation(f) /\ f.kind = "adjustment"
      /\ \A idx \in IndexType : AddCompensation(idx, f) = idx
  <2> DEFINE m == -n
  <2>1. m \in Int
    BY <1>1
  <2> HIDE DEF m
  <2>2. LET g == [Entry(s, "adjustment", m) EXCEPT !.key = s]
        IN /\ g \in Sharing /\ g \in Booked /\ ~IsCompensation(g) /\ g.kind = "adjustment"
           /\ \A idx \in IndexType : AddCompensation(idx, g) = idx
    BY <1>1, <2>1, PlainEntry
  <2> QED
    BY <2>2 DEF m
<1>4. /\ a \in Seq(Sharing) /\ index = GivenIndex(a) /\ index \in IndexType
      /\ RightlyGiven(a) /\ LookedUp(a, calls) /\ L \in Seq(Booked) /\ A \in Seq(Booked)
      /\ \A call \in calls : \A i \in DOMAIN call.found : call.found[i] # {}
  BY GivenFacts
<1>5. books' = Renewed(c, s) /\ GivenNow(index)
  <2>1. CommitBooks(Renewed(c, s), index, calls)
    BY DEF RenewWithCard
  <2> QED
    BY <2>1, CommitGiven
<1>6. r = Append(b, f)
  <2>1. r = A \o (L \o <<e, f>>) /\ a = A \o L
    BY <1>5, RenewedEntries DEF AllOf
  <2> HIDE DEF A, L, e, f, a, r
  <2>2. e \in Booked /\ f \in Booked /\ A \in Seq(Booked) /\ L \in Seq(Booked)
    BY <1>2, <1>3, <1>4, Zenon
  <2>3. L \o <<e, f>> = Append(Append(L, e), f) /\ Append(L, e) \in Seq(Booked)
    BY <2>2
  <2>4. \A S \in Seq(Booked), x \in Booked : A \o Append(S, x) = Append(A \o S, x)
    BY <2>2
  <2>5. A \o (L \o <<e, f>>) = Append(Append(A \o L, e), f)
    BY <2>2, <2>3, <2>4, Zenon
  <2> QED
    BY <2>1, <2>5, Zenon
<1>7. BooksStand(books')
  BY DEF CardsInv, Stands
<1> HIDE DEF e, f, a
<1>8. MayCome(a, e) /\ b \in Seq(Sharing)
  BY <1>2, <1>4 DEF MayCome
<1>9. RightlyGiven(b) /\ LookedUp(b, calls)
  BY <1>4, <1>8, OneMoreGiven, StillLookedUp
<1>10. GivenIndex(b) = index
  BY <1>2, <1>4, IndexGrows
<1> HIDE DEF b
<1>11. MayCome(b, f) /\ r \in Seq(Sharing)
  BY <1>3, <1>6, <1>8 DEF MayCome
<1>12. RightlyGiven(r) /\ LookedUp(r, calls)
  BY <1>4, <1>6, <1>8, <1>9, <1>11, OneMoreGiven, StillLookedUp
<1>13. GivenIndex(r) = index
  BY <1>3, <1>4, <1>6, <1>8, <1>10, IndexGrows
<1>14. index' = GivenIndex(r)
  <2>1. BuildIndex(books') = GivenIndex(r)
    BY <1>7, <1>11, StartIndex DEF r
  <2> QED
    BY <1>5, <1>13, <2>1 DEF GivenNow
<1>15. LookedUp(r, calls')
  BY <1>5, <1>12 DEF LookedUp, GivenNow
<1> QED
  BY <1>11, <1>12, <1>14, <1>15 DEF CompensationInv, GivenRight, r

\* A call's adjustment gives for requests that were charged, and not again unless it
\* is to: what was found before the lock is still so.
LEMMA AdjustmentGives ==
  ASSUME CardsInv, CardsInv', CompensationInv, NEW call \in calls, AdjustCardBalance(call)
  PROVE  CompensationInv'
<1> DEFINE ask == call.ask  c == ask.card  d == ask.delta  k == Card(c)
           e == AdjustmentEntry(call)  F == call.found  N == ask.names  P == PaidBy(call)
           m == IF d > 0 THEN [k EXCEPT !.total = @ + d] ELSE [k EXCEPT !.used = @ - d]
           s == AllOf(books)
<1>1. /\ ask \in Asks /\ c \in CardIds /\ d \in Int /\ ask.key \in Keys
      /\ DOMAIN F = DOMAIN N /\ N \in Seq(CardRequests)
      /\ P \in Seq(Nat) /\ Len(P) = Len(N)
      /\ e \in Booked /\ e.card = c /\ e.key = ask.key /\ e.kind = "adjustment"
      /\ e.credits = d /\ e.names = N /\ e.again = ask.again /\ e.charged = P
  BY AdjustmentFacts
<1>2. /\ Shape(books) /\ s \in Seq(Sharing) /\ index = GivenIndex(s) /\ LookedUp(s, calls)
      /\ \A i \in DOMAIN F : F[i] # {}
  BY GivenFacts
<1>3. CommitBooks(Changed(books, c, m, books.codes, Append(books.ledger, e)),
                  AddCompensation(index, e), calls \ {call})
  <2>1. ChangesTo(books, c, m, Append(books.ledger, e))
    BY <1>2, ChangeForm
  <2>2. CommitBooks([books EXCEPT !.cards[c] = m, !.ledger = Append(@, e)],
                    AddCompensation(index, e), calls \ {call})
    BY DEF AdjustCardBalance
  <2> HIDE DEF c, m, e
  <2>3. [books EXCEPT !.cards[c] = m, !.ledger = Append(@, e)]
          = Changed(books, c, m, books.codes, Append(books.ledger, e))
    BY <2>1, Zenon DEF ChangesTo
  <2> QED
    BY <2>2, <2>3
<1>4. RequestsOf(ask, F) /\ CheckCompensation(ask, F)
  BY DEF AdjustCardBalance
<1> HIDE DEF e, m, s
<1>5. \A i \in DOMAIN N : /\ F[i] # {} /\ F[i] = ChargesFor(s, N[i])
                         /\ P[i] = (CHOOSE x \in F[i] : TRUE).credits
  BY <1>1, <1>2 DEF LookedUp, PaidBy
<1>6. PaidFor(s, e)
  <2> SUFFICES ASSUME NEW i \in DOMAIN e.names
               PROVE  \E j \in DOMAIN s : /\ s[j].kind = "usage" /\ s[j].key = e.names[i]
                                          /\ s[j].card = e.card /\ s[j].credits = e.charged[i]
    BY Zenon DEF PaidFor
  <2>0. i \in DOMAIN N /\ e.names[i] = N[i] /\ e.card = c /\ e.charged[i] = P[i]
    BY <1>1
  <2> DEFINE x == CHOOSE y \in F[i] : TRUE
  <2>1. x \in F[i] /\ P[i] = x.credits
    BY <1>5, <2>0
  <2> HIDE DEF x
  <2>2. x \in Range(s) /\ x.kind = "usage" /\ x.key = N[i]
    BY <1>5, <2>0, <2>1 DEF ChargesFor
  <2>3. x.card = c
    BY <1>1, <1>4, <2>0, <2>1 DEF RequestsOf
  <2>4. PICK j \in DOMAIN s : s[j] = x
    BY <2>2 DEF Range
  <2> QED
    BY <2>0, <2>1, <2>2, <2>3, <2>4
<1>7. ASSUME IsCompensation(e), ~e.again
      PROVE  e.credits <= Sum(e.charged) /\ Touched(e) \cap DOMAIN GivenIndex(s) = {}
  <2>1. d > 0 /\ ~ask.again
    BY <1>1, <1>7 DEF IsCompensation
  <2>2. /\ \A i \in DOMAIN F : <<c, N[i]>> \notin DOMAIN index
        /\ d <= Sum(P)
    BY <1>1, <1>4, <2>1 DEF CheckCompensation, PaidBy
  <2>3. Touched(e) \cap DOMAIN index = {}
    BY <1>1, <2>2 DEF Touched, Range
  <2> QED
    BY <1>1, <1>2, <2>2, <2>3
<1>8. e \in Sharing
  BY <1>1 DEF Sharing
<1>9. MayCome(s, e)
  BY <1>1, <1>6, <1>7, <1>8 DEF MayCome
<1>10. /\ books' = Changed(books, c, m, books.codes, Append(books.ledger, e))
       /\ GivenNow(AddCompensation(index, e))
  BY <1>3, CommitGiven
<1>11. AllOf(books') = Append(s, e)
  BY <1>1, <1>2, <1>10, ChangedAll DEF s
<1> QED
  BY <1>9, <1>10, <1>11, EntryGiven DEF s

\* Nothing was given before anything is sold.
LEMMA GivenStart == CardsInit => CompensationInv
<1> SUFFICES ASSUME CardsInit PROVE CompensationInv
  OBVIOUS
<1> DEFINE e == <<>>
<1>1. books.archives = e /\ books.ledger = e /\ index = e /\ calls = {}
  BY DEF CardsInit
<1>2. e \o e = e /\ e \in Seq(Sharing) /\ DOMAIN e = {}
  OBVIOUS
<1> HIDE DEF e
<1>3. AllOf(books) = e
  BY <1>1, <1>2 DEF AllOf
<1>4. GivenIndex(e) = e
  BY IndexGrows DEF e
<1> QED
  BY <1>1, <1>2, <1>3, <1>4 DEF CompensationInv, GivenRight, RightlyGiven, LookedUp

\* Every operation gives rightly.
LEMMA GivenSteps ==
  CardsInv /\ CardsInv' /\ CompensationInv /\ [CardsNext]_cardVars => CompensationInv'
<1> SUFFICES ASSUME CardsInv, CardsInv', CompensationInv, [CardsNext]_cardVars
             PROVE  CompensationInv'
  OBVIOUS
<1>1. CASE \E c \in CardIds \ PlatformCards, d \in Durations : IssueCard(c, d)
  BY <1>1, IssuesGive
<1>2. CASE \E c \in PlatformCards, d \in Durations, o \in Orders : FulfillCardOrder(o, c, d)
  BY <1>2, IssuesGive
<1>3. CASE Books
  <2>1. CASE \E c \in DOMAIN books.cards, r \in CardRequests, n \in RequestCharges :
               ChargeRequest(r, c, n)
    BY <2>1, ChargeGives
  <2>2. CASE \E c \in DOMAIN books.cards, code \in TopupCodes : RedeemTopup(c, code)
    BY <2>2, TopupGives
  <2>3. CASE \E c \in DOMAIN books.cards, s \in DOMAIN books.cards : RenewWithCard(c, s)
    BY <2>3, RenewalGives
  <2>4. CASE \E c \in DOMAIN books.cards, key \in Keys, u \in Upgrades :
               UpgradeCard(c, key, u[1], u[2])
    <3>1. PICK c \in DOMAIN books.cards, key \in Keys, u \in Upgrades :
            UpgradeCard(c, key, u[1], u[2])
      BY <2>4
    <3>2. u[1] \in Nat /\ u[2] \in Nat
      BY SomethingIsSold
    <3> QED
      BY <3>1, <3>2, UpgradeGives
  <2>5. CASE \E call \in calls : AdjustCardBalance(call)
    BY <2>5, AdjustmentGives
  <2> QED
    BY <1>3, <2>1, <2>2, <2>3, <2>4, <2>5 DEF Books
<1>4. CASE \E c \in DOMAIN books.cards : ActivateCard(c) \/ Operates(c)
  BY <1>4, OperationsGive
<1>5. CASE \/ \E ask \in Asks : LookUpRequests(ask)
           \/ \E call \in calls : CallEnds(call)
           \/ DayPasses
           \/ UNCHANGED cardVars
  BY <1>5, CallsGive
<1>6. CASE \E cs \in SUBSET (DOMAIN books.cards \cap OperatedCards) \ {{}} :
             ExtendValidity(cs) \/ \E until \in 1 .. MaxUntil : ExtendUntil(cs, until)
  BY <1>6, ExtensionsGive
<1>7. CASE (\E n \in 1 .. Len(books.ledger) : ArchiveEntries(n)) \/ RestartBooks
  BY <1>7, ArchivesGive
<1> QED
  BY <1>1, <1>2, <1>3, <1>4, <1>5, <1>6, <1>7 DEF CardsNext

\* Between any two operations, crashes and restarts included, the index of what was given
\* to each request is that of all entries, archived or live; what was given was charged
\* before, and nothing is given twice that was not to be; and what a call found before it
\* waited for the lock is still so when it has it.
THEOREM CompensationInvariance == CardsSpec => []CompensationInv
<1>1. CardsInit => CompensationInv
  BY GivenStart
<1>2. CardsInv /\ CardsInv' /\ CompensationInv /\ [CardsNext]_cardVars => CompensationInv'
  BY GivenSteps
<1> QED
  BY <1>1, <1>2, CardsInvariance, PTL DEF CardsSpec

-----------------------------------------------------------------------------
\* What a request was given is no more than it was charged.

\* At most one position weighs something, and that no more than n.
WeighsOnce(w, s, n) ==
  /\ \A i, j \in 1 .. Len(s) : w[s[i]] # 0 /\ w[s[j]] # 0 => i = j
  /\ \A i \in 1 .. Len(s) : w[s[i]] <= n

\* Then all of it weighs no more.
LEMMA TallyOnce ==
  ASSUME NEW E, NEW w \in [E -> Int], NEW s \in Seq(E), NEW n \in Nat, WeighsOnce(w, s, n)
  PROVE  Tally(w, E, s) <= n
<1>1. PICK h \in [0 .. Len(s) -> Int] : TalliesAlong(h, w, s) /\ h[Len(s)] = Tally(w, E, s)
  BY TallyAlong
<1>2. Len(s) \in Nat /\ \A k \in 1 .. Len(s) : w[s[k]] \in Int /\ w[s[k]] <= n
  BY DEF WeighsOnce
<1> DEFINE None(k) == \A j \in 1 .. k : w[s[j]] = 0
           Good == {k \in 0 .. Len(s) : h[k] <= n /\ (None(k) => h[k] = 0)}
<1>3. 0 \in Good
  BY <1>1, <1>2 DEF TalliesAlong
<1>4. ASSUME NEW k \in 1 .. Len(s), k - 1 \in Good PROVE k \in Good
  <2>1. h[k] = h[k - 1] + w[s[k]] /\ h[k - 1] \in Int /\ k \in 0 .. Len(s)
    BY <1>1, <1>2 DEF TalliesAlong
  <2>2. CASE w[s[k]] = 0
    <3>1. None(k) => None(k - 1)
      OBVIOUS
    <3> QED
      BY <1>4, <2>1, <2>2, <3>1
  <2>3. CASE w[s[k]] # 0
    <3>1. None(k - 1)
      BY <1>2, <2>3 DEF WeighsOnce
    <3>2. ~None(k)
      BY <1>2, <2>3
    <3> HIDE DEF None
    <3>3. h[k - 1] = 0
      BY <1>4, <3>1
    <3>4. h[k] <= n
      BY <1>2, <2>1, <3>3
    <3> QED
      BY <2>1, <3>2, <3>4
  <2> QED
    BY <2>2, <2>3
<1>5. Good \in SUBSET (0 .. Len(s))
  OBVIOUS
<1> HIDE DEF Good
<1>6. Good = 0 .. Len(s)
  BY <1>2, <1>3, <1>4, <1>5, CountingUp
<1> QED
  BY <1>1, <1>2, <1>6 DEF Good

\* What an entry gives for a request, and entries together.
GivenFor(r) == [e \in Sharing |-> IF Compensates(e, r) THEN ShareOf(e, r) ELSE 0]

GivenForIn(s, r) == TotalOf(s, LAMBDA e : IF Compensates(e, r) THEN ShareOf(e, r) ELSE 0)

GivenForPeels(g, s, r) ==
  g = [t \in SUBSET DOMAIN s |->
         IF t = {} THEN 0
         ELSE g[t \ {Max(t)}]
                + (IF Compensates(s[Max(t)], r) THEN ShareOf(s[Max(t)], r) ELSE 0)]

\* What was given for a request is a sum.
LEMMA GivenForIsTally ==
  ASSUME NEW s \in Seq(Sharing), NEW r
  PROVE  /\ GivenFor(r) \in [Sharing -> Int]
         /\ GivenForIn(s, r) = Tally(GivenFor(r), Sharing, s)
<1> DEFINE w == GivenFor(r)
           h == CHOOSE g : GivenForPeels(g, s, r)
<1>1. GivenForIn(s, r) = h[DOMAIN s]
  BY DEF GivenForIn, TotalOf, FoldLeft, MapThenFoldSet, GivenForPeels
<1>2. w \in [Sharing -> Int]
  <2>1. \A e \in Sharing : Compensates(e, r) => ShareOf(e, r) \in Int
    BY ShareTyped DEF Compensates
  <2> QED
    BY <2>1 DEF GivenFor
<1>3. \A g : GivenForPeels(g, s, r) <=> TallyPeels(g, w, s)
  <2> TAKE g
  <2>1. ASSUME NEW t \in SUBSET DOMAIN s, t # {}
        PROVE  w[s[Max(t)]] = (IF Compensates(s[Max(t)], r) THEN ShareOf(s[Max(t)], r) ELSE 0)
    <3>1. DOMAIN s = 1 .. Len(s) /\ Len(s) \in Nat /\ \A i \in 1 .. Len(s) : s[i] \in Sharing
      OBVIOUS
    <3>2. Max(t) \in 1 .. Len(s)
      BY <2>1, <3>1, LastOfSet
    <3>3. s[Max(t)] \in Sharing
      BY <3>1, <3>2
    <3> QED
      BY <3>3 DEF GivenFor
  <2> HIDE DEF w
  <2>2. [t \in SUBSET DOMAIN s |->
           IF t = {} THEN 0
           ELSE g[t \ {Max(t)}]
                  + (IF Compensates(s[Max(t)], r) THEN ShareOf(s[Max(t)], r) ELSE 0)]
        = [t \in SUBSET DOMAIN s |->
             IF t = {} THEN 0 ELSE g[t \ {Max(t)}] + w[s[Max(t)]]]
    BY <2>1
  <2> QED
    BY <2>2, Zenon DEF GivenForPeels, TallyPeels
<1>4. \E g : GivenForPeels(g, s, r)
  BY <1>2, <1>3, PeelingTallies
<1> HIDE DEF w
<1>5. TallyPeels(h, w, s)
  BY <1>3, <1>4
<1> HIDE DEF h
<1>6. h[DOMAIN s] = Tally(w, Sharing, s)
  BY <1>2, <1>5, PeelingTallies
<1> QED
  BY <1>1, <1>2, <1>6 DEF w

CreditsOf(S) == MapThenSumSet(LAMBDA e : e.credits, S)

CreditsAdd(g, S) ==
  g = [s \in SUBSET S |->
         IF s = {} THEN 0
         ELSE (CHOOSE x \in s : TRUE).credits + g[s \ {CHOOSE x \in s : TRUE}]]

\* The credits of no entry, and of one.
LEMMA CreditsOfOne ==
  /\ CreditsOf({}) = 0
  /\ \A u : u.credits \in Int => CreditsOf({u}) = u.credits
<1>1. ASSUME NEW S, IsFiniteSet(S)
      PROVE  CreditsOf(S) = SumOver([e \in S |-> e.credits], S)
  <2> DEFINE w == [e \in S |-> e.credits]
             h == CHOOSE g : CreditsAdd(g, S)
  <2>1. CreditsOf(S) = h[S]
    BY DEF CreditsOf, MapThenSumSet, MapThenFoldSet, CreditsAdd
  <2>2. Adds(RunningSum(w, S), w, S)
    BY <1>1, RunningExists
  <2>3. \A g : CreditsAdd(g, S) <=> Adds(g, w, S)
    <3> TAKE g
    <3>1. \A s \in SUBSET S : s # {} =>
            (CHOOSE x \in s : TRUE).credits = w[CHOOSE x \in s : TRUE]
      OBVIOUS
    <3> HIDE DEF w
    <3>2. [s \in SUBSET S |->
             IF s = {} THEN 0
             ELSE (CHOOSE x \in s : TRUE).credits + g[s \ {CHOOSE x \in s : TRUE}]]
          = [s \in SUBSET S |->
               IF s = {} THEN 0
               ELSE w[CHOOSE x \in s : TRUE] + g[s \ {CHOOSE x \in s : TRUE}]]
      BY <3>1
    <3> QED
      BY <3>2, Zenon DEF CreditsAdd, Adds
  <2> HIDE DEF w
  <2>4. CreditsAdd(h, S)
    BY <2>2, <2>3
  <2> HIDE DEF h
  <2>5. Adds(h, w, S) /\ S \subseteq S /\ S \in SUBSET S /\ \A x \in S : w[x] = w[x]
    BY <2>3, <2>4
  <2>6. \A s \in SUBSET S : h[s] = RunningSum(w, S)[s]
    BY <1>1, <2>2, <2>5, RunningUnique
  <2> QED
    BY <2>1, <2>5, <2>6 DEF SumOver, w
<1>2. CreditsOf({}) = 0
  BY <1>1, SumOfNone, FS_EmptySet
<1>3. ASSUME NEW u, u.credits \in Int PROVE CreditsOf({u}) = u.credits
  <2> DEFINE S == {u}  w == [e \in S |-> e.credits]
  <2>1. IsFiniteSet({}) /\ IsFiniteSet(S)
    BY FS_EmptySet, FS_Singleton
  <2>2. w[u] = u.credits /\ Weighted(w, {}) /\ Weighted(w, {} \cup {u}) /\ u \notin {}
        /\ {} \cup {u} = S
    BY <1>3, <2>1 DEF Weighted
  <2>3. CreditsOf(S) = SumOver(w, S)
    BY <1>1, <2>1
  <2> HIDE DEF w, S
  <2>4. OneAdded(w, w, {}, u)
    BY SumWithOne
  <2>5. SumOver(w, S) = SumOver(w, {}) + w[u]
    BY <2>2, <2>4 DEF OneAdded
  <2> QED
    BY <1>3, <2>2, <2>3, <2>5, SumOfNone DEF S
<1> QED
  BY <1>2, <1>3

\* What was given for a request nothing gives again.
LEMMA GivenOnce ==
  ASSUME NEW s \in Seq(Sharing), RightlyGiven(s), NEW r,
         \A e \in Range(s) : Compensates(e, r) => ~e.again
  PROVE  GivenForIn(s, r) <= CreditsOf(ChargesFor(s, r))
<1> DEFINE w == GivenFor(r)  U == ChargesFor(s, r)  n == CreditsOf(U)
<1>1. /\ \A i, j \in DOMAIN s :
           s[i].kind = "usage" /\ s[j].kind = "usage" /\ s[i].key = s[j].key => i = j
      /\ \A i \in DOMAIN s : IsCompensation(s[i]) =>
           PaidFor(s, s[i]) /\ (s[i].again \/ s[i].credits <= Sum(s[i].charged))
      /\ \A i, j \in DOMAIN s :
           i # j /\ IsCompensation(s[i]) /\ IsCompensation(s[j])
             /\ Range(s[i].names) \cap Range(s[j].names) # {} => s[i].again \/ s[j].again
  BY DEF RightlyGiven
<1>2. /\ DOMAIN s = 1 .. Len(s)
      /\ \A i \in DOMAIN s : /\ s[i] \in Sharing /\ s[i] \in Range(s) /\ s[i] \in Booked
                             /\ w[s[i]] = IF Compensates(s[i], r) THEN ShareOf(s[i], r) ELSE 0
  <2>1. \A i \in DOMAIN s : s[i] \in Sharing /\ s[i] \in Range(s)
    BY DEF Range
  <2> QED
    BY <2>1 DEF GivenFor, Sharing
<1> HIDE DEF w
<1>3. \A j \in DOMAIN s : s[j].kind = "usage" /\ s[j].key = r =>
        U = {s[j]} /\ s[j].credits \in Nat
  <2> SUFFICES ASSUME NEW j \in DOMAIN s, s[j].kind = "usage", s[j].key = r
               PROVE  U = {s[j]} /\ s[j].credits \in Nat
    OBVIOUS
  <2>1. s[j].credits \in Nat
    BY <1>2 DEF Booked
  <2>2. s[j] \in U /\ \A e \in U : \E i \in DOMAIN s : e = s[i] /\ i = j
    BY <1>1 DEF ChargesFor, Range
  <2> HIDE DEF U
  <2> QED
    BY <2>1, <2>2
<1>4. \A j \in DOMAIN s : s[j].kind = "usage" /\ s[j].key = r => n = s[j].credits
  <2> SUFFICES ASSUME NEW j \in DOMAIN s, s[j].kind = "usage", s[j].key = r
               PROVE  n = s[j].credits
    OBVIOUS
  <2>1. U = {s[j]} /\ s[j].credits \in Int
    BY <1>3
  <2> HIDE DEF U
  <2> QED
    BY <2>1, CreditsOfOne
<1>5. n \in Nat
  <2>1. CASE U = {}
    BY <2>1, CreditsOfOne
  <2>2. CASE U # {}
    <3>1. PICK j \in DOMAIN s : s[j].kind = "usage" /\ s[j].key = r
      BY <2>2 DEF ChargesFor, Range
    <3> QED
      BY <1>3, <1>4, <3>1
  <2> QED
    BY <2>1, <2>2
<1> HIDE DEF n, U
<1>6. ASSUME NEW i \in DOMAIN s PROVE w[s[i]] <= n
  <2>1. CASE ~Compensates(s[i], r)
    BY <1>2, <1>5, <2>1
  <2>2. CASE Compensates(s[i], r)
    <3> DEFINE e == s[i]
    <3>1. /\ e \in Sharing /\ IsCompensation(e) /\ r \in Range(e.names) /\ ~e.again
          /\ w[e] = ShareOf(e, r)
      BY <1>2, <2>2 DEF Compensates
    <3>2. PaidFor(s, e) /\ e.credits <= Sum(e.charged)
      BY <1>1, <3>1
    <3> HIDE DEF e
    <3>3. PICK m \in DOMAIN e.names :
            e.names[m] = r /\ ShareOf(e, r) = Split(e.credits, e.charged)[m]
      BY <3>1, ShareTyped
    <3>4. PICK j \in DOMAIN s : /\ s[j].kind = "usage" /\ s[j].key = r
                                /\ s[j].credits = e.charged[m]
      BY <3>2, <3>3 DEF PaidFor
    <3>5. /\ e.credits \in Nat /\ e.credits > 0 /\ e.charged \in Seq(Nat)
          /\ Len(e.charged) > 0 /\ DOMAIN e.names = 1 .. Len(e.charged)
      BY <3>1, CompensationFacts
    <3>6. Split(e.credits, e.charged)[m] <= e.charged[m]
      BY <3>2, <3>5, SplitFacts
    <3> QED
      BY <1>4, <3>1, <3>3, <3>4, <3>6 DEF e
  <2> QED
    BY <2>1, <2>2
<1>7. ASSUME NEW i \in DOMAIN s, NEW j \in DOMAIN s, w[s[i]] # 0, w[s[j]] # 0
      PROVE  i = j
  <2>1. Compensates(s[i], r) /\ Compensates(s[j], r)
    BY <1>2, <1>7
  <2>2. ~s[i].again /\ ~s[j].again
    BY <1>2, <2>1
  <2> QED
    BY <1>1, <2>1, <2>2 DEF Compensates
<1>8. WeighsOnce(w, s, n)
  BY <1>2, <1>6, <1>7 DEF WeighsOnce
<1>9. w \in [Sharing -> Int] /\ GivenForIn(s, r) = Tally(w, Sharing, s)
  BY GivenForIsTally DEF w
<1>10. Tally(w, Sharing, s) <= n
  BY <1>5, <1>8, <1>9, TallyOnce
<1> QED
  BY <1>9, <1>10 DEF n, U

\* Requests are made up for once.
LEMMA StandingCompensated == CardsInv /\ CompensationInv => CompensatedOnce
<1> SUFFICES ASSUME CardsInv, CompensationInv PROVE CompensatedOnce
  OBVIOUS
<1>1. /\ AllOf(books) \in Seq(Sharing) /\ index = GivenIndex(AllOf(books))
      /\ RightlyGiven(AllOf(books)) /\ \A r : ChargeOf(books, r) = ChargesFor(AllOf(books), r)
  BY GivenFacts
<1>2. EveryEntry = AllOf(books)
  BY DEF EveryEntry, AllOf
<1>3. index = BuildIndex(books)
  BY <1>1, StartIndex DEF CardsInv, Stands
<1>4. ASSUME NEW r \in CardRequests, \A e \in Range(EveryEntry) : Compensates(e, r) => ~e.again
      PROVE  GivenForIn(EveryEntry, r) <= CreditsOf(ChargeOf(books, r))
  BY <1>1, <1>2, <1>4, GivenOnce
<1>5. ASSUME NEW r \in CardRequests
      PROVE  /\ GivenForIn(EveryEntry, r)
                  = TotalOf(EveryEntry, LAMBDA e : IF Compensates(e, r) THEN ShareOf(e, r) ELSE 0)
             /\ CreditsOf(ChargeOf(books, r))
                  = MapThenSumSet(LAMBDA e : e.credits, ChargeOf(books, r))
  BY Zenon DEF GivenForIn, CreditsOf
<1>6. ASSUME NEW r \in CardRequests, \A e \in Range(EveryEntry) : Compensates(e, r) => ~e.again
      PROVE  TotalOf(EveryEntry, LAMBDA e : IF Compensates(e, r) THEN ShareOf(e, r) ELSE 0)
               <= MapThenSumSet(LAMBDA e : e.credits, ChargeOf(books, r))
  BY <1>4, <1>5, <1>6, Zenon
<1> QED
  BY <1>3, <1>6, Zenon DEF CompensatedOnce

\* A request is made up for once and for no more than it was charged, unless an operator
\* said to do it again, whatever is archived, charged or compensated between a
\* compensation's lookup and its commit; and a restart would decide as this process does.
THEOREM CardsCompensatedOnce == CardsSpec => []CompensatedOnce
BY CardsInvariance, CompensationInvariance, StandingCompensated, PTL

=============================================================================
