----------------------------- MODULE MCSettlement ----------------------------
(* Small instances of Settlement for TLC.                                   *)
EXTENDS SettlementRefinement, TLC

CONSTANTS i1, i2, l1, l2, l3, k1

\* Invoice i1 has a usage line and a larger credit line, so that overriding the
\* usage line moves the total across zero; i2 has one line.
LineOwner == l1 :> i1 @@ l2 :> i1 @@ l3 :> i2
LineAmounts == l1 :> 2 @@ l2 :> -1 @@ l3 :> 1
OneInvoice == l1 :> i1 @@ l2 :> i1
OneInvoiceAmounts == l1 :> 2 @@ l2 :> -1

Req(i, l, a, k) == [invoice |-> i, line |-> l, amount |-> a, key |-> k]

\* Two amounts for one line, one of them under a key, and the same key for
\* another line of the invoice.
KeyedRequests == {Req(i1, l1, 0, k1), Req(i1, l1, 1, None), Req(i1, l2, 2, k1)}
\* One key used for two lines, once with the wrong invoice in the URL.
SharedKey == {Req(i1, l1, 0, k1), Req(i2, l3, 0, k1), Req(i2, l1, 1, None)}

Symmetric == Permutations(Staff) \cup Permutations(Hooks) \cup Permutations(Deliveries)
=============================================================================
