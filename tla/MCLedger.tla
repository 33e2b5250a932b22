------------------------------- MODULE MCLedger ------------------------------
(* Small instances of Billing, Reports and Traces in one run. They share no   *)
(* state, so one moves only while the others are where they start: the run    *)
(* visits every behaviour of each.                                            *)
EXTENDS MCRequests, Reports

CONSTANTS c1, c2, small, large

\* The small plan becomes dearer or cheaper.
Offer(plan, price) == [plan |-> plan, price |-> price]
MCOffers == {Offer(small, 1), Offer(small, 2), Offer(large, 2)}

MCKinds == {[name |-> "gift", credits |-> 1], [name |-> "refund", credits |-> -1]}

MCReportsInit == ReportsInit /\ face.now = 1 /\ catalog[small] = 1 /\ books = <<>>

LedgerInit == Init /\ ReportsInit /\ TracesInit

LedgerNext ==
  \/ MCReportsInit /\ TracesInit /\ Next /\ UNCHANGED <<reportVars, traceVars>>
  \/ Init /\ TracesInit /\ ReportsNext /\ UNCHANGED <<vars, traceVars>>
  \/ Init /\ MCReportsInit /\ TracesNext /\ UNCHANGED <<vars, reportVars>>

LedgerSpec == LedgerInit /\ [][LedgerNext]_<<vars, reportVars, traceVars>>
=============================================================================
