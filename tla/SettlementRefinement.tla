------------------------- MODULE SettlementRefinement -------------------------
(* Settlement implements InvoiceBook: overrides of several statements and     *)
(* payment deliveries that interleave behave as if each were a single step.   *)
EXTENDS SettlementInv

Book == INSTANCE InvoiceBook
          WITH amount <- line,
               entries <- audit,
               held <- idem,
               reported <- sent,
               paidWith <- [i \in Invoices |->
                              IF invoice[i].status = "paid" THEN invoice[i].paidBy ELSE None]

\* Every behaviour of the two endpoints is one of the book: the commit of an
\* override reads and writes as if it ran alone, and a payment is accepted against
\* the total the lines have at that moment, never one read before an override.
BookSpec == Book!Spec
===============================================================================
