------------------------------ MODULE Invoicing ------------------------------
(***************************************************************************)
(* The invoices of several orders: each is issued at the end of the        *)
(* transaction that captures its order's payment, under a number from the  *)
(* sequence invoice_number_seq and with the seller's name and VAT number   *)
(* as the environment has them at that moment; its QR code is drawn again  *)
(* from the row whenever somebody looks at the order.                      *)
(*                                                                         *)
(* Settlement has the capture itself: which event of an order gets this    *)
(* far, and that only one does.  Numbers drawn from a sequence are not     *)
(* given back when their transaction rolls back.                           *)
(***************************************************************************)
EXTENDS Naturals, FiniteSetsExt, ZatcaQr

CONSTANTS
  Captured,        \* the orders whose payment the gateway reports
  Environments,    \* values of ZATCA_SELLER_NAME and ZATCA_SELLER_VAT_NUMBER
  Unset,           \* a variable that is not in the environment
  DemoSellerName, DemoVatNumber,
  Printed,         \* the time, total and tax of each order, as printed
  MaxFailures      \* bound: transactions rolled back and restarts of the API

\* A character is one byte or several.
Utf8Texts == Seq(Seq(Nat) \ {<<>>})

ASSUME InvoicingAssumption ==
  /\ MaxLength \in Nat
  /\ DemoSellerName \in Utf8Texts /\ DemoVatNumber \in Utf8Texts
  /\ \A e \in Environments :
       /\ e.name = Unset \/ e.name \in Utf8Texts
       /\ e.vatNumber = Unset \/ e.vatNumber \in Utf8Texts
  /\ \A o \in Captured :
       Printed[o] \in [{"invoiceTimestamp", "invoiceTotalWithVat", "vatTotal"} -> Utf8Texts]
  /\ MaxFailures \in Nat

VARIABLES
  environment,     \* process.env of the running API
  sequence,        \* the last number drawn from invoice_number_seq
  pc,              \* where the capture of each order stands
  invoice,         \* its Invoice row, committed when pc is "paid"
  failures

invoicingVars == <<environment, sequence, pc, invoice, failures>>

NoInvoice == [number |-> 0]

InvoicingInit ==
  /\ environment \in Environments
  /\ sequence = 0
  /\ pc = [o \in Captured |-> "unpaid"]
  /\ invoice = [o \in Captured |-> NoInvoice]
  /\ failures = 0

Issued == {o \in Captured : pc[o] = "paid"}

\* getZatcaSellerConfig: "??" replaces what is unset, not what is blank.
SellerConfig ==
  [sellerName |-> IF environment.name = Unset THEN DemoSellerName ELSE environment.name,
   vatRegistrationNumber |->
     IF environment.vatNumber = Unset THEN DemoVatNumber ELSE environment.vatNumber]

\* Mutant: one more than the highest number among the committed invoices.
MutantNextNumber == Max({invoice[o].number : o \in Issued} \cup {0}) + 1

NextNumber == sequence + 1

\* The payment's update, the transitions and rows before the invoice.
BeginCapture(o) ==
  /\ pc[o] = "unpaid"
  /\ pc' = [pc EXCEPT ![o] = "capturing"]
  /\ UNCHANGED <<environment, sequence, invoice, failures>>

\* issueInvoice.  (An order that is not captured has no invoice to return.)
IssueInvoice(o) ==
  /\ pc[o] = "capturing"
  /\ sequence' = NextNumber
  /\ invoice' = [invoice EXCEPT ![o] =
       [number |-> NextNumber, sellerName |-> SellerConfig.sellerName,
        vatRegistrationNumber |-> SellerConfig.vatRegistrationNumber]]
  /\ pc' = [pc EXCEPT ![o] = "issued"]
  /\ UNCHANGED <<environment, failures>>

\* The unique index on invoiceNumber holds up a number that is taken.
Commit(o) ==
  /\ pc[o] = "issued"
  /\ \A p \in Issued : invoice[p].number # invoice[o].number
  /\ pc' = [pc EXCEPT ![o] = "paid"]
  /\ UNCHANGED <<environment, sequence, invoice, failures>>

\* A statement fails or the connection breaks; the event comes again.
Rollback(o) ==
  /\ pc[o] \in {"capturing", "issued"}
  /\ failures < MaxFailures
  /\ failures' = failures + 1
  /\ pc' = [pc EXCEPT ![o] = "unpaid"]
  /\ invoice' = [invoice EXCEPT ![o] = NoInvoice]
  /\ UNCHANGED <<environment, sequence>>

\* The API ends, with every transaction it has open, and starts again.
Restart ==
  /\ failures < MaxFailures
  /\ failures' = failures + 1
  /\ environment' \in Environments
  /\ pc' = [o \in Captured |-> IF o \in Issued THEN "paid" ELSE "unpaid"]
  /\ invoice' = [o \in Captured |-> IF o \in Issued THEN invoice[o] ELSE NoInvoice]
  /\ UNCHANGED sequence

InvoicingStep ==
  \/ \E o \in Captured : BeginCapture(o) \/ IssueInvoice(o) \/ Commit(o) \/ Rollback(o)
  \/ Restart

InvoicingSpec == InvoicingInit /\ [][InvoicingStep]_invoicingVars

-----------------------------------------------------------------------------
\* buildQrPayloadBase64, of a committed invoice.
FieldsWith(seller, o) ==
  [sellerName |-> seller.sellerName, vatRegistrationNumber |-> seller.vatRegistrationNumber,
   invoiceTimestamp |-> Printed[o].invoiceTimestamp,
   invoiceTotalWithVat |-> Printed[o].invoiceTotalWithVat, vatTotal |-> Printed[o].vatTotal]

\* Mutant: the seller as the environment has it when the code is drawn.
MutantQrFields(o) == FieldsWith(SellerConfig, o)

QrFields(o) == FieldsWith(invoice[o], o)

QrPayload(o) == BuildPayload(QrFields(o))

-----------------------------------------------------------------------------
(***************************************************************************)
(* Properties.                                                             *)
(***************************************************************************)

\* The invoicing's variables keep their types: an order that is not being paid
\* has no invoice, and an invoice has a number drawn so far and a seller.
InvoicingTypeOK ==
  /\ environment \in Environments
  /\ sequence \in Nat
  /\ pc \in [Captured -> {"unpaid", "capturing", "issued", "paid"}]
  /\ DOMAIN invoice = Captured
  /\ \A o \in Captured :
       IF pc[o] \in {"issued", "paid"}
       THEN /\ invoice[o] \in [number : Nat, sellerName : Utf8Texts, vatRegistrationNumber : Utf8Texts]
            /\ invoice[o].number \in 1 .. sequence
       ELSE invoice[o] = NoInvoice
  /\ failures \in 0 .. MaxFailures

\* No two invoices, committed or about to be, have the same number, however
\* captures overlap, roll back and are cut off by restarts
\* (InvoicingService.issueInvoice).
NumbersAreNeverShared ==
  \A o, p \in Captured :
    o # p /\ invoice[o] # NoInvoice => invoice[o].number # invoice[p].number

\* What a scanner reads from an invoice's code is, byte for byte, what the
\* invoice says, whatever bytes that is made of; and a payload that lost its
\* end is never mistaken for a whole one.  A blank field is the exception: the
\* encoder takes it and the decoder does not (zatca-qr.ts).
QrReadsBack ==
  \A o \in Issued :
    LET fields == QrFields(o)
        blank  == \E f \in DOMAIN fields : fields[f] = <<>>
    IN  \A payload \in QrPayload(o) :
          /\ DecodePayload(payload) =
               IF blank THEN {}
               ELSE {[tag \in DOMAIN ZatcaTags |-> Bytes(fields[ZatcaTags[tag]])]}
          /\ \A n \in 0 .. (Len(payload) - 1) : DecodePayload(SubSeq(payload, 1, n)) = {}

\* An invoice once issued keeps its code, with whatever seller the API is
\* restarted afterwards (sellerNameSnapshot and sellerVatNumberSnapshot).
QrNeverChanges ==
  [][\A o \in Issued : o \in Issued' /\ QrPayload(o)' = QrPayload(o)]_invoicingVars
=============================================================================
