-------------------------- MODULE AccountsAndAround --------------------------
(***************************************************************************)
(* A customer's account as staff manage it, and what is done with it in    *)
(* parts that share no state with one another: its documents, its proof of *)
(* identity, the requests of a member of staff, and those that bear the    *)
(* customer's token.  A behaviour runs one of them, `part`; the rest stay  *)
(* as they start.                                                          *)
(***************************************************************************)
EXTENDS CustomerAccounts

VARIABLE part

\* One identity document, replaced; customers who prove who they are.
CONSTANT Uploads
VARIABLES stored, row, upload
KD == INSTANCE KycDocuments
documentVars == <<stored, row, upload>>

CONSTANTS Customers, Liveness, Nins, Checks
VARIABLES minted, pending, check, nin, vouched, bearer
NV == INSTANCE NinVerification
ninVars == <<minted, pending, check, nin, vouched, bearer>>

\* What a member of staff, and the bearer of a customer's token, get done.
CONSTANTS Calls, DeviceRequired, Pins
VARIABLES member, approved, ask
SA == INSTANCE StaffAccess WITH Requests <- Calls
staffVars == <<member, approved, ask>>

VARIABLES alive, good, pin, locked, asked
CA == INSTANCE CustomerAccess WITH Requests <- Calls
customerVars == <<alive, good, pin, locked, asked>>

\* An upload's name is not the key of a row that names none, and there is a PIN.
ASSUME AroundAssumption == KD!NoKey \notin Uploads /\ Pins # {}

-----------------------------------------------------------------------------
othersVars == <<documentVars, ninVars, staffVars, customerVars>>

AccountsInit ==
    /\ part \in {"accounts", "documents", "nin", "staff", "customer"}
    /\ Init /\ KD!Init /\ NV!Init /\ SA!Init /\ CA!Init
    /\ part # "accounts" => balance = 0 /\ verified

AccountsNext ==
    /\ UNCHANGED part
    /\ \/ part = "accounts" /\ Next /\ UNCHANGED othersVars
       \/ /\ part = "documents" /\ KD!Next
          /\ UNCHANGED <<vars, ninVars, staffVars, customerVars>>
       \/ /\ part = "nin" /\ NV!Next
          /\ UNCHANGED <<vars, documentVars, staffVars, customerVars>>
       \/ /\ part = "staff" /\ SA!Next
          /\ UNCHANGED <<vars, documentVars, ninVars, customerVars>>
       \/ /\ part = "customer" /\ CA!Next
          /\ UNCHANGED <<vars, documentVars, ninVars, staffVars>>

AccountsSpec == AccountsInit /\ [][AccountsNext]_<<part, vars, othersVars>>

\* The file a document's row names is in the store.
FileIsThere == KD!FileIsThere

\* One liveness check, one verified NIN.
LivenessSpentOnce == NV!LivenessSpentOnce

\* Staff do what their account allows while they ask, and nothing on the
\* strength of what it allowed before.
TakesEffectAtOnce == SA!TakesEffectAtOnce

\* What staff are told was done is in the audit log.
AuditedOrFailed == SA!AuditedOrFailed

\* No payment, no limit and no new PIN but on the customer's PIN.
PinStandsBehind == CA!PinStandsBehind
=============================================================================
