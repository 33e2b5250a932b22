------------------------------ MODULE Templates ------------------------------
(***************************************************************************)
(* Fixed answers sold at a fixed price (response_templates.rs of billing   *)
(* and of the gateway): a prompt that matches a rule is answered with a    *)
(* file to write, without a model. The price is charged when the write is  *)
(* sent, after a wait that the customer may give up, and a receipt lets a  *)
(* retry have the same write again for a day. The permanent record of what *)
(* was answered this way lives on when receipts expire and entries are     *)
(* archived.                                                               *)
(*                                                                         *)
(* One rule, one card. Whether a prompt and the client's tools match is    *)
(* given by the attempt; holds and charges of models are Billing's.        *)
(***************************************************************************)
EXTENDS Integers, Sequences, FiniteSets, SequencesExt

CONSTANTS
  Attempts,          \* requests, retries among them
  Invocation,        \* [Attempts -> the invocation each is of]
  OldInvocations,    \* invocations an older release may have answered, each alone
  Prices,            \* what a template may be sold for
  OldPrice,          \* and was sold for by that release
  ModelPrice,        \* what a model's answer costs
  Deposit,           \* the credits of the card
  MaxConcurrency,    \* requests the card may have at once
  MaxReceipts,       \* receipts the card may have (256)
  MaxRevision,       \* bound on publications
  MaxRestarts        \* bound on restarts

Invocations == {Invocation[r] : r \in Attempts}

ASSUME TemplateAssumption ==
  /\ Prices \subseteq Nat \ {0} /\ OldPrice \in Nat \ {0}
  /\ ModelPrice \in Nat /\ MaxReceipts \in Nat \ {0}

VARIABLES
  saved,     \* the committed state: rule, receipts, ledger, archives, tombstones
  records,   \* reservations by invocation: none, held or settled
  waits,     \* template_waits: invocations waiting for their write
  lanes,     \* the gateway's record of invocations: free, busy or done
  attempts,  \* each attempt: where it is, and the rule it read
  sent,      \* history: the writes sent, each with the price it announced
  restarts

templateVars == <<saved, records, waits, lanes, attempts, sent, restarts>>

Off == 0   \* no rule enabled

Charged(i, kind, price) == [inv |-> i, kind |-> kind, price |-> price]

EntriesOf(s) == s.archives \o s.ledger

TemplateCharges(entries) == {e.inv : e \in {x \in Range(entries) : x.kind = "template"}}

----------------------------------------------------------------------------
(* Loading.                                                                *)

\* MUTANT: the index of an older release is taken as complete.
RestoreLive(s) ==
  [s EXCEPT !.tombstones = @ \cup TemplateCharges(s.ledger), !.complete = TRUE]

\* Releases before the index left it out: it is made from the archives, once.
RestoreTemplateInvocations(s) ==
  [s EXCEPT !.tombstones = (IF s.complete THEN @ ELSE TemplateCharges(s.archives))
                             \cup TemplateCharges(s.ledger),
            !.complete = TRUE]

\* What validation asks of receipts: one an invocation, and for each its charge in the
\* ledger, or, once that is archived, in the index.
ValidReceipts(s) ==
  /\ \A a, b \in s.receipts : a.inv = b.inv => a = b
  /\ \A receipt \in s.receipts :
       LET live == {e \in Range(s.ledger) : e.inv = receipt.inv} IN
       IF live # {}
       THEN \A e \in live : e.kind = "template" /\ e.price = receipt.price
       ELSE receipt.inv \in s.tombstones

Fresh == [offer |-> Off, revision |-> 0, receipts |-> {}, ledger |-> <<>>,
          archives |-> <<>>, tombstones |-> {}, complete |-> TRUE,
          used |-> 0, active |-> TRUE]

\* An older release answered an invocation with a template and archived its charge.
Older(i, price, receipts) ==
  [Fresh EXCEPT !.archives = <<Charged(i, "template", price)>>, !.complete = FALSE,
                !.receipts = receipts, !.used = price]

----------------------------------------------------------------------------
(* The card.                                                               *)

Held == {i \in Invocations : records[i] = "held"}

\* active_card_concurrency: holds and waits, the latter without an excluded one.
ActiveConcurrency(except) == Cardinality(Held) + Cardinality(waits \ except)

CanPay(price) == saved.active /\ Deposit - saved.used - ModelPrice * Cardinality(Held) >= price

ReceiptFor(i) == {receipt \in saved.receipts : receipt.inv = i /\ receipt.live}

At(r, pc) == attempts[r].pc = pc

Inv(r) == Invocation[r]

Goes(r, pc) == attempts' = [attempts EXCEPT ![r].pc = pc]

Ends(r, lane) == Goes(r, "over") /\ lanes' = [lanes EXCEPT ![Inv(r)] = lane]

----------------------------------------------------------------------------
(* Attempts.                                                               *)

\* The lane is taken; an invocation that is in progress or done is refused, or, when
\* it was answered with a template, may have the same write again.
Arrive(r) ==
  /\ At(r, "new")
  /\ CASE lanes[Inv(r)] = "free" -> /\ Goes(r, "respond")
                                    /\ lanes' = [lanes EXCEPT ![Inv(r)] = "busy"]
                                    /\ UNCHANGED sent
       [] lanes[Inv(r)] = "busy" -> Goes(r, "over") /\ UNCHANGED <<lanes, sent>>
       [] lanes[Inv(r)] = "done" -> /\ Goes(r, "over")
                                    /\ \/ /\ saved.active
                                          /\ sent' = sent \cup ReceiptFor(Inv(r))
                                       \/ UNCHANGED sent
                                    /\ UNCHANGED lanes
  /\ UNCHANGED <<saved, records, waits, restarts>>

\* A receipt answers the retry; otherwise the rule is read, and a prompt no rule is
\* for goes to a model.
Respond(r) ==
  /\ At(r, "respond")
  /\ IF ReceiptFor(Inv(r)) # {}
     THEN \/ /\ saved.active
             /\ sent' = sent \cup ReceiptFor(Inv(r))
             /\ Goes(r, "answering") /\ UNCHANGED lanes
          \/ Ends(r, "free") /\ UNCHANGED sent
     ELSE /\ attempts' = [attempts EXCEPT
               ![r] = [pc |-> IF saved.offer = Off THEN "model" ELSE "matched",
                       price |-> saved.offer, revision |-> saved.revision]]
          /\ UNCHANGED <<lanes, sent>>
  /\ UNCHANGED <<saved, records, waits, restarts>>

\* The limit on concurrent requests, shared by both kinds.
Admits(except) == ActiveConcurrency(except) < MaxConcurrency

BeginResponseTemplateWait(r) ==
  /\ At(r, "matched")
  /\ saved.offer # Off /\ saved.revision = attempts[r].revision
  /\ Inv(r) \notin waits /\ records[Inv(r)] = "none"
  /\ CanPay(attempts[r].price) /\ Admits({})
  /\ waits' = waits \cup {Inv(r)}
  /\ Goes(r, "waiting")
  /\ UNCHANGED <<saved, records, lanes, sent, restarts>>

\* MUTANT: only the receipts say what was answered.
AnsweredByReceipt(i) == \E receipt \in saved.receipts : receipt.inv = i

\* An invocation that was charged before, or answered with a template however long ago.
AnsweredBefore(i) ==
  \/ records[i] # "none"
  \/ i \in {e.inv : e \in Range(saved.ledger)}
  \/ i \in saved.tombstones
  \/ \E receipt \in saved.receipts : receipt.inv = i

\* Receipts that expired make room.
Kept == {receipt \in saved.receipts : receipt.live}

\* The debit, its receipt and its place in the index, in one commit.
Debit(receipt) ==
  [saved EXCEPT !.used = @ + receipt.price,
                !.ledger = Append(@, Charged(receipt.inv, "template", receipt.price)),
                !.receipts = Kept \cup {receipt},
                !.tombstones = @ \cup {receipt.inv}]

MayDebit(receipt, revision) ==
  /\ saved.revision = revision /\ saved.offer = receipt.price
  /\ ~AnsweredBefore(receipt.inv)
  /\ Cardinality(Kept) < MaxReceipts
  /\ CanPay(receipt.price) /\ Admits({receipt.inv})

\* The wait is over: the write is charged and sent, and, the last event of the answer,
\* ends the wait.
SendWrite(r) ==
  LET receipt == [inv |-> Inv(r), price |-> attempts[r].price, live |-> TRUE] IN
  /\ At(r, "waiting")
  /\ MayDebit(receipt, attempts[r].revision)
  /\ saved' = Debit(receipt)
  /\ waits' = waits \ {Inv(r)}
  /\ sent' = sent \cup {receipt}
  /\ Goes(r, "answering")
  /\ UNCHANGED <<records, lanes, restarts>>

\* The answer was read to its end.
Answered(r) ==
  /\ At(r, "answering")
  /\ Ends(r, "done")
  /\ UNCHANGED <<saved, records, waits, sent, restarts>>

\* The ordinary path: a hold, which the index refuses for ever what was answered
\* with a template.
TryReserve(r) ==
  /\ At(r, "model")
  /\ Inv(r) \notin waits /\ records[Inv(r)] = "none"
  /\ Inv(r) \notin saved.tombstones
  /\ CanPay(ModelPrice) /\ Admits({})
  /\ records' = [records EXCEPT ![Inv(r)] = "held"]
  /\ Goes(r, "serving")
  /\ UNCHANGED <<saved, waits, lanes, sent, restarts>>

ModelAnswers(r) ==
  /\ At(r, "serving")
  /\ records' = [records EXCEPT ![Inv(r)] = "settled"]
  /\ saved' = [saved EXCEPT !.used = @ + ModelPrice,
                            !.ledger = Append(@, Charged(Inv(r), "model", ModelPrice))]
  /\ Ends(r, "done")
  /\ UNCHANGED <<waits, sent, restarts>>

\* Refused, failed before anything was charged, or given up by the client.
Leaves(r) ==
  /\ ~At(r, "new") /\ ~At(r, "over")
  /\ Ends(r, "free")
  /\ waits' = IF At(r, "waiting") THEN waits \ {Inv(r)} ELSE waits
  /\ records' = IF At(r, "serving") THEN [records EXCEPT ![Inv(r)] = "none"] ELSE records
  /\ UNCHANGED <<saved, sent, restarts>>

----------------------------------------------------------------------------
(* Around them.                                                            *)

\* The operator replaces the rules: another price, the same one, or none.
PublishTemplates(offer) ==
  /\ saved.revision < MaxRevision
  /\ saved' = [saved EXCEPT !.offer = offer, !.revision = @ + 1]
  /\ UNCHANGED <<records, waits, lanes, attempts, sent, restarts>>

Expires(receipt) ==
  /\ receipt.live
  /\ saved' = [saved EXCEPT !.receipts = (@ \ {receipt}) \cup {[receipt EXCEPT !.live = FALSE]}]
  /\ UNCHANGED <<records, waits, lanes, attempts, sent, restarts>>

ArchiveLedger ==
  /\ saved.ledger # <<>>
  /\ saved' = [saved EXCEPT !.ledger = <<>>, !.archives = EntriesOf(saved),
                            !.tombstones = @ \cup TemplateCharges(saved.ledger)]
  /\ UNCHANGED <<records, waits, lanes, attempts, sent, restarts>>

Suspend ==
  /\ saved' = [saved EXCEPT !.active = ~@]
  /\ UNCHANGED <<records, waits, lanes, attempts, sent, restarts>>

\* Terminal reservations are forgotten in time; so are the lanes of what is done.
Forget(i) ==
  /\ \/ records[i] = "settled" /\ records' = [records EXCEPT ![i] = "none"] /\ UNCHANGED lanes
     \/ lanes[i] = "done" /\ lanes' = [lanes EXCEPT ![i] = "free"] /\ UNCHANGED records
  /\ UNCHANGED <<saved, waits, attempts, sent, restarts>>

\* What was in memory is gone: holds are released, entries that are recent become
\* settled reservations.
RestartTemplates ==
  /\ restarts < MaxRestarts
  /\ restarts' = restarts + 1
  /\ saved' = RestoreTemplateInvocations(saved)
  /\ records' = [i \in Invocations |->
                   IF records[i] = "settled" \/ i \in {e.inv : e \in Range(saved.ledger)}
                   THEN "settled" ELSE "none"]
  /\ waits' = {} /\ lanes' = [i \in Invocations |-> "free"]
  /\ attempts' = [r \in Attempts |->
                    IF At(r, "new") THEN attempts[r] ELSE [attempts[r] EXCEPT !.pc = "over"]]
  /\ UNCHANGED sent

----------------------------------------------------------------------------

\* A new installation, or the state of an older release, loaded.
TemplatesInit ==
  /\ \/ saved = Fresh
     \/ \E i \in OldInvocations, live \in BOOLEAN :
          \E receipts \in {{}, {[inv |-> i, price |-> OldPrice, live |-> live]}} :
            saved = RestoreTemplateInvocations(Older(i, OldPrice, receipts))
  /\ records = [i \in Invocations |-> "none"]
  /\ waits = {} /\ lanes = [i \in Invocations |-> "free"]
  /\ attempts = [r \in Attempts |-> [pc |-> "new", price |-> Off, revision |-> 0]]
  /\ sent = {} /\ restarts = 0

TemplatesNext ==
  \/ \E r \in Attempts :
       \/ Arrive(r) \/ Respond(r) \/ BeginResponseTemplateWait(r)
       \/ SendWrite(r) \/ Answered(r)
       \/ TryReserve(r) \/ ModelAnswers(r) \/ Leaves(r)
  \/ \E offer \in Prices \cup {Off} : PublishTemplates(offer)
  \/ \E receipt \in saved.receipts : Expires(receipt)
  \/ \E i \in Invocations : Forget(i)
  \/ ArchiveLedger \/ Suspend \/ RestartTemplates

TemplatesSpec == TemplatesInit /\ [][TemplatesNext]_templateVars

----------------------------------------------------------------------------
(* Properties.                                                             *)

TemplateEndsInvocation ==
  LET all == EntriesOf(saved) IN
  \A j \in DOMAIN all : all[j].kind = "template" =>
    /\ \A k \in DOMAIN all : k > j => all[k].inv # all[j].inv
    /\ all[j].inv \notin Held

WritesArePaid == \A w \in sent : Charged(w.inv, "template", w.price) \in Range(EntriesOf(saved))

ReceiptsLoad == ValidReceipts(saved) /\ ValidReceipts(RestoreTemplateInvocations(saved))

\* An invocation answered with a template is never charged again and never has a hold,
\* neither by the rule as it is now nor by a model after the rule was withdrawn, and a
\* write is only sent after its charge is durable, to a retry as to the first attempt:
\* when the receipt expired, the entry was archived, the gateway forgot the invocation
\* or restarted. What is saved can be loaded again, every receipt with its charge, also
\* the state of an older release.
TemplatesArePaidOnce == TemplateEndsInvocation /\ WritesArePaid /\ ReceiptsLoad
=============================================================================
