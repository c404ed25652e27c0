---------------------------- MODULE WalletLedger ----------------------------
(***************************************************************************)
(* What the payment service promises of the money in its wallets, and      *)
(* nothing else: every movement is one entry, an entry moves its money     *)
(* once, a debit is covered by the balance, and a refund returns exactly   *)
(* what its debit took to the wallet it took it from.                      *)
(***************************************************************************)
EXTENDS Integers

CONSTANTS Wallets, Entries, Funds,
          Totals   \* what an entry may move

VARIABLES balance, entry

None == [kind |-> "NONE"]

Init ==
    /\ balance = Funds
    /\ entry = [e \in Entries |-> None]

Written(e, kind, w, total) ==
    entry' = [entry EXCEPT ![e] = [kind |-> kind, wallet |-> w, total |-> total]]

Debit(e, w, total) ==
    /\ entry[e] = None /\ balance[w] >= total
    /\ balance' = [balance EXCEPT ![w] = @ - total]
    /\ Written(e, "DEBIT", w, total)

Credit(e, w, total) ==
    /\ entry[e] = None
    /\ balance' = [balance EXCEPT ![w] = @ + total]
    /\ Written(e, "CREDIT", w, total)

Refund(e, w, total) ==
    /\ entry[e] = [kind |-> "DEBIT", wallet |-> w, total |-> total]
    /\ balance' = [balance EXCEPT ![w] = @ + total]
    /\ Written(e, "REFUNDED", w, total)

Next ==
    \E e \in Entries, w \in Wallets, total \in Totals :
        Debit(e, w, total) \/ Credit(e, w, total) \/ Refund(e, w, total)

Spec == Init /\ [][Next]_<<balance, entry>>
=============================================================================
