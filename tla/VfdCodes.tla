------------------------------ MODULE VfdCodes ------------------------------
(***************************************************************************)
(* How the payment service reads the answers of the bank provider (VFD).   *)
(*                                                                         *)
(* Each status code of VFD's two tables is a row with a category, a        *)
(* reversal instruction and a "run a status query" flag.  The codes        *)
(* themselves are abstracted: rows with equal columns are one row here.    *)
(* ResolveVfdOutcome is the single decision point of both call sites.      *)
(***************************************************************************)
Row(category, reversal, tsqRequired) ==
    [category |-> category, reversal |-> reversal, tsqRequired |-> tsqRequired]

(***************************************************************************)
(* The synchronous answer of /transfer: 00; 99 and 02; 98; 500 and every   *)
(* code the table does not list.                                           *)
(***************************************************************************)
TransferRows ==
    { Row("SUCCESSFUL", "NONE", FALSE),
      Row("FAILED", "NO_DEBIT", FALSE),
      Row("FAILED", "NO_DEBIT", TRUE),
      Row("PENDING", "NONE", TRUE) }

(***************************************************************************)
(* The transactionStatus of a status query (TSQ): 00 and 26; 01 .. 96      *)
(* pending; 03 .. 97 failed with reversal; 91 and the literal null; 51 and *)
(* 99; 98; 34, 35 and 63 (suspected fraud: do not reverse).                *)
(***************************************************************************)
StatusRows ==
    { Row("SUCCESSFUL", "NONE", FALSE),
      Row("PENDING", "NONE", TRUE),
      Row("FAILED", "REVERSE", FALSE),
      Row("FAILED", "REVERSE", TRUE),
      Row("FAILED", "NO_DEBIT", FALSE),
      Row("FAILED", "NO_DEBIT", TRUE),
      Row("FAILED", "NO_REVERSAL", FALSE) }

Outcomes == {"SUCCESSFUL", "FAILED", "HOLD", "REQUERY"}

\* The reversal instruction ignored: a suspected fraud is refunded.
IgnoreReversal(row) ==
    IF row.tsqRequired \/ row.category = "PENDING" THEN "REQUERY"
    ELSE IF row.category = "SUCCESSFUL" THEN "SUCCESSFUL" ELSE "FAILED"

(***************************************************************************)
(* tsqRequired always wins; then the category; a failure VFD says not to   *)
(* reverse is held.                                                        *)
(***************************************************************************)
ResolveVfdOutcome(row) ==
    IF row.tsqRequired \/ row.category = "PENDING" THEN "REQUERY"
    ELSE IF row.category = "SUCCESSFUL" THEN "SUCCESSFUL"
    ELSE IF row.reversal = "NO_REVERSAL" THEN "HOLD" ELSE "FAILED"

\* A definite code tells the truth; one that asks for a status query may come
\* at any time.
Consistent(r, fate) ==
    \/ r.tsqRequired \/ r.category = "PENDING"
    \/ r.category = "SUCCESSFUL" /\ fate = "paid"
    \/ r.category = "FAILED" /\ r.reversal # "NO_REVERSAL" /\ fate = "refused"
    \/ r.category = "FAILED" /\ r.reversal = "NO_REVERSAL" /\ fate = "blocked"

\* An unreachable provider reads as REQUERY.
Answers(rows, fate) ==
    {"REQUERY"} \cup {ResolveVfdOutcome(r) : r \in {x \in rows : Consistent(x, fate)}}
=============================================================================
