------------------------- MODULE InvoiceSettlement -------------------------
(***************************************************************************)
(* What the payments of invoices promise, whatever handles them: a payment *)
(* is opened, at most one payment of an invoice is ever received, the      *)
(* others are only dropped once one has been, and both are final.          *)
(***************************************************************************)
EXTENDS Naturals, Sequences

CONSTANT Invoices

VARIABLE book  \* every payment: its invoice and what has become of it

SameInvoice(p) == {q \in DOMAIN book : book[q].invoice = book[p].invoice}

Open(i) == book' = Append(book, [invoice |-> i, state |-> "open"])

Receive(p) ==
  /\ \A q \in SameInvoice(p) : book[q].state = "open"
  /\ book' = [book EXCEPT ![p].state = "received"]

Drop(p) ==
  /\ book[p].state = "received"
  /\ book' = [q \in DOMAIN book |->
                IF q \in SameInvoice(p) /\ book[q].state = "open"
                THEN [book[q] EXCEPT !.state = "dropped"] ELSE book[q]]

Init == book = << >>

Next ==
  \/ \E i \in Invoices : Open(i)
  \/ \E p \in DOMAIN book : Receive(p) \/ Drop(p)

Spec == Init /\ [][Next]_book
=============================================================================
