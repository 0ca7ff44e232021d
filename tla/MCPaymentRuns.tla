--------------------------- MODULE MCPaymentRuns ----------------------------
(***************************************************************************)
(* Small instances of PaymentRuns.                                         *)
(***************************************************************************)
EXTENDS PaymentRuns, TLC

CONSTANTS ann, cy, dan, nobody,   \* a clerk and two administrators
          acme, i1, i2,
          null, old, new, other

\* A clerk, and an administrator who may lend the clerk every permission.
Pair == {ann, cy}
ClerkAndAdmin == [u \in Pair |-> IF u = ann THEN "ap_clerk" ELSE "admin"]

\* Two people who hold every permission: the rules without an exemption for
\* administrators are all that keeps them apart.
Admins == {cy, dan}
AllAdmin == [u \in Admins |-> "admin"]

NoPairs == {}
ClerkStandsIn == {<<cy, ann>>}

TwoInvoices == {i1, i2}
AllAcme == [i \in Invoices |-> acme]

Details(iban, bank) == [f \in {"iban", "bank_name"} |-> IF f = "iban" THEN iban ELSE bank]
RoutableFields == {"iban"}
FirstAccount == {Details(old, null)}
NewIban == {Details(new, null)}
TwoProposals == {Details(new, null), Details(null, other)}

Symmetry == Permutations(TwoInvoices) \cup Permutations(Admins)

\* The books as the runs find them: one vendor, active and with an account,
\* entered by one of the users; i2 approved, and i1 either still to come or
\* approved as well.  Init leads here: the vendor created active, the invoice
\* recorded, validated, submitted and approved.
Books(coming, founders) ==
  /\ invState = [i \in Invoices |-> IF i \in coming THEN "absent" ELSE "approved"]
  /\ invAmount = [i \in Invoices |-> IF i \in coming THEN 0 ELSE 1]
  /\ venStatus = [v \in Vendors |-> "active"]
  /\ \E u \in founders : venCreator = [v \in Vendors |-> u]
  /\ account = [v \in Vendors |-> Details(old, null)]
  /\ BankInit /\ DelegationInit /\ RunInit

OpenSpec == Books({i1}, {ann}) /\ [][Next]_vars

\* Both invoices approved, and the desk and the vendor screen left alone: the
\* runs on bank changes spend their states on two changes instead.
BankSpec == Books({}, Admins) /\ [][PayStep \/ ChangeBankDetails]_vars

=============================================================================
