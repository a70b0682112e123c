---------------------------- MODULE MCInvoicePages ----------------------------
(* Instances of InvoicePages and MonthlyRun for TLC.  MonthlyRun.cfg has two  *)
(* months of three minutes, the invoicer in the second minute and the         *)
(* reconciliation in the third; MonthlyStuck.cfg has one month that is long   *)
(* enough for the days of grace to pass in it.                                *)
EXTENDS InvoicePages
===============================================================================
