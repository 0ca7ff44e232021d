---------------------------- MODULE VendorMaster ----------------------------
(***************************************************************************)
(* The vendor master record (app/services/vendor_service.py): its status,  *)
(* who created it, and the bank details money is sent to.                  *)
(*                                                                         *)
(* A vendor is named by its legal name, which create_vendor keeps unique.  *)
(* "absent" is a vendor not on file, "withdrawn" one that was soft-        *)
(* deleted: no query returns it any more.                                  *)
(***************************************************************************)
EXTENDS Delegation

CONSTANTS Vendors,
          Fields,      \* the bank fields
          Routable,    \* those that name a destination: iban and account number
          Values,      \* what a bank field may hold
          NoValue,     \* a bank field that is NULL
          Accounts,    \* bound: the bank details a vendor may be entered with
          Statuses     \* bound: the statuses a request gives a vendor

BankDetails == [Fields -> Values \cup {NoValue}]

ASSUME AccountsAssumption == Accounts \subseteq BankDetails
ASSUME RoutableAssumption == Routable \subseteq Fields

ASSUME StatusesAssumption ==
  Statuses \subseteq {"active", "inactive", "blocked", "pending_verification"}

VARIABLES venStatus, venCreator, account

VendorStatus == {"active", "inactive", "blocked", "pending_verification"}

OnFile(v) == venStatus[v] \in VendorStatus

VendorInit ==
  /\ venStatus = [v \in Vendors |-> "absent"]
  /\ venCreator = [v \in Vendors |-> NoUser]
  /\ account = [v \in Vendors |-> [f \in Fields |-> NoValue]]

\* The status comes with the request (ACTIVE when it is left out), and so do
\* the first bank details.
CreateVendor(u, v, status, details) ==
  /\ May(u, "vendors.manage")
  /\ venStatus[v] = "absent"
  /\ venStatus' = [venStatus EXCEPT ![v] = status]
  /\ venCreator' = [venCreator EXCEPT ![v] = u]
  /\ account' = [account EXCEPT ![v] = details]

\* _resolve_vendor: an invoice that names a vendor not on file creates it, with
\* no bank details, for a person to verify.
AutoCreateVendors(u, S) ==
  /\ venStatus' = [v \in Vendors |-> IF v \in S THEN "pending_verification" ELSE venStatus[v]]
  /\ venCreator' = [v \in Vendors |-> IF v \in S THEN u ELSE venCreator[v]]

CanSetVendorStatus(u, v, status) ==
  /\ May(u, "vendors.manage")
  /\ OnFile(v)
  /\ status = "active" => ~ViolatesSelfVendorActivation(venCreator[v], u)

SetVendorStatus(u, v, status) ==
  /\ CanSetVendorStatus(u, v, status)
  /\ venStatus' = [venStatus EXCEPT ![v] = status]
  /\ UNCHANGED <<venCreator, account>>

\* Mutant: nobody looks for invoices of the vendor.
DeleteVendorUnlinked(u, v, linkedInvoices) ==
  /\ May(u, "vendors.manage")
  /\ OnFile(v)
  /\ venStatus' = [venStatus EXCEPT ![v] = "withdrawn"]
  /\ UNCHANGED <<venCreator, account>>

\* update_vendor writes contact data only: it refuses every bank field, so
\* nothing modelled here changes.  delete_vendor is refused while an invoice
\* that is not withdrawn links to the vendor.
DeleteVendor(u, v, linkedInvoices) ==
  /\ May(u, "vendors.manage")
  /\ OnFile(v)
  /\ linkedInvoices = {}
  /\ venStatus' = [venStatus EXCEPT ![v] = "withdrawn"]
  /\ UNCHANGED <<venCreator, account>>

=============================================================================
