------------------------------- MODULE MCBooks -------------------------------
(* What the billing engine saves and how: small instances of SnapshotStore,    *)
(* Cards and Templates in one run. They share no state, so one moves only      *)
(* while the others are where they start: the run visits every behaviour of    *)
(* each.                                                                       *)
EXTENDS SnapshotStore, Cards, Templates

CONSTANTS c1, c2, t1, o1, r1, r2, k1, k2, i1, i2, a1, a2, a3

\* A code is worth two credits and a day; an upgrade is one of each.
MCWorth == [t \in TopupCodes |-> 2]
MCDays == [t \in TopupCodes |-> 1]
MCUpgrades == {<<1, 1>>}

\* Three compensations that share a request, a deduction, and two keys for them.
Ask(delta, names, key) ==
  [card |-> c1, delta |-> delta, names |-> names, again |-> FALSE, key |-> key]
MCAsks == {Ask(2, <<r1>>, k1), Ask(3, <<r1, r2>>, k1), Ask(1, <<r1>>, k2), Ask(-1, <<>>, k2)}

\* Two attempts of one invocation and one of another.
MCInvocation == [r \in Attempts |-> IF r = a3 THEN i2 ELSE i1]

StoreRests == Init /\ mirror = NoFile
TemplatesRest == TemplatesInit /\ saved = Fresh

BooksInit ==
  /\ CardsInit
  /\ \/ Init /\ TemplatesRest
     \/ StoreRests /\ TemplatesInit

BooksNext ==
  \/ CardsInit /\ TemplatesRest /\ Next /\ UNCHANGED <<cardVars, templateVars>>
  \/ StoreRests /\ TemplatesRest /\ CardsNext /\ UNCHANGED <<vars, templateVars>>
  \/ StoreRests /\ CardsInit /\ TemplatesNext /\ UNCHANGED <<vars, cardVars>>

BooksSpec == BooksInit /\ [][BooksNext]_<<vars, cardVars, templateVars>>
=============================================================================
