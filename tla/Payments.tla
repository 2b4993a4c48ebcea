------------------------------ MODULE Payments ------------------------------
(***************************************************************************)
(* Payments of orders through Midtrans Snap: internal/service/payment.go   *)
(* and the webhook of internal/http/handler/payment.go, composed with      *)
(* Orders.  InitiatePayment and HandleWebhook are not transactions: they   *)
(* read, decide and write in separate statements, so each is a process     *)
(* with a program counter here.  The order service's transactions they     *)
(* call are the atomic handlers of Orders.  Beside the webhook, the         *)
(* internal endpoint of internal/http/handler/order.go confirms orders.    *)
(*                                                                         *)
(* Midtrans is external: it is what the code relies on.  It delivers a     *)
(* notification again and again until it is answered, may deliver it more  *)
(* than once and in any order.  Signatures are valid here; amounts and     *)
(* payment methods are left out.                                           *)
(***************************************************************************)
EXTENDS Orders

CONSTANTS
  PaymentId,
  NoPayment,
  NoOrder,
  Client,      \* InitiatePayment requests that run at a time
  Hook,        \* webhook requests that run at a time
  Attested,    \* orders that holders of the internal API key may confirm
  Sends,       \* bound: the transaction statuses Midtrans sends
  MaxErrors,   \* bound: statements that fail in a webhook
  MaxCrashes   \* bound: server crashes during a webhook

VARIABLES
  payment,     \* payments: [status, order]; status "none": no such row
  snap,        \* Midtrans: the state of the Snap transaction of a payment
  inbox,       \* notifications Midtrans has still to deliver
  seenBox,     \* notifications that were answered; they may come again
  client,      \* client[c]: an InitiatePayment request
  hook,        \* hook[h]: a webhook request
  errors,
  crashes

payVars == <<payment, snap, inbox, seenBox, client, hook, errors, crashes>>
allVars == <<vars, payVars>>

PaymentStatus == {"PENDING_PAYMENT", "SUCCESS", "FAILED", "EXPIRED", "REFUNDED"}

\* What Midtrans reports.  "settlement" stands for an accepted capture too,
\* "challenge" for a capture whose fraud check is open, "deny" for cancel,
\* failure and a rejected capture, "authorize" for what the code ignores.
TransactionStatus ==
  {"pending", "settlement", "challenge", "deny", "expire", "refund", "authorize"}

ASSUME SendsAssumption == Sends \subseteq TransactionStatus
ASSUME PaymentsAssumption ==
  /\ NoOrder \notin OrderId
  /\ Attested \subseteq OrderId
  /\ MaxErrors \in Nat /\ MaxCrashes \in Nat

Notification == [payment : PaymentId, status : Sends]

\* mapMidtransStatus.  Faulty: the status as Midtrans spells it; no case for
\* a settlement.
MapVerbatim(s) == s
MapPendingOnly(s) == IF s = "pending" THEN "PENDING_PAYMENT" ELSE "ignored"
MapMidtransStatus(s) ==
  CASE s \in {"settlement", "challenge"} -> "SUCCESS"
    [] s = "pending" -> "PENDING_PAYMENT"
    [] s = "deny" -> "FAILED"
    [] s = "expire" -> "EXPIRED"
    [] s = "refund" -> "REFUNDED"
    [] OTHER -> "ignored"

\* isFinalPaymentStatus.  Faulty: a failed payment may still change.
IsFinalButFailed(s) == s \in {"SUCCESS", "EXPIRED", "REFUNDED"}
IsFinalPaymentStatus(s) == s \in {"SUCCESS", "FAILED", "EXPIRED", "REFUNDED"}

NoRequest == [pc |-> "idle", order |-> NoOrder, payment |-> NoPayment]
NoHook == [pc |-> "idle", payment |-> NoPayment, status |-> "none"]

PaymentRow == [status : PaymentStatus \cup {"none"}, order : OrderId \cup {NoOrder}]

SnapState ==
  {"none", "open", "pending", "challenged", "settled", "denied", "expired", "refunded"}

Request ==
  [pc : {"idle", "expire", "active", "snap", "create"},
   order : OrderId \cup {NoOrder}, payment : PaymentId \cup {NoPayment}]

HookRequest ==
  [pc : {"idle", "read", "update", "confirm", "clear"},
   payment : PaymentId \cup {NoPayment}, status : TransactionStatus \cup {"none"}]

PayTypeOK ==
  /\ TypeOK
  /\ payment \in [PaymentId -> PaymentRow]
  /\ snap \in [PaymentId -> SnapState]
  /\ inbox \in SUBSET Notification
  /\ seenBox \in SUBSET Notification
  /\ client \in [Client -> Request]
  /\ hook \in [Hook -> HookRequest]
  /\ \A q \in PaymentId : payment[q].status # "none" => payment[q].order # NoOrder
  /\ errors \in 0..MaxErrors
  /\ crashes \in 0..MaxCrashes

PayInit ==
  /\ Init
  /\ payment = [q \in PaymentId |-> [status |-> "none", order |-> NoOrder]]
  /\ snap = [q \in PaymentId |-> "none"]
  /\ inbox = {}
  /\ seenBox = {}
  /\ client = [c \in Client |-> NoRequest]
  /\ hook = [h \in Hook |-> NoHook]
  /\ errors = 0
  /\ crashes = 0

PaymentsOf(o, S) == {q \in PaymentId : payment[q].order = o /\ payment[q].status \in S}

-----------------------------------------------------------------------------
(***************************************************************************)
(* InitiatePayment.                                                        *)
(***************************************************************************)

ClientGoes(c, pc) == client' = [client EXCEPT ![c].pc = pc]
ClientEnds(c) == client' = [client EXCEPT ![c] = NoRequest]

\* GetOrderByID, without a lock: what it finds decides the rest.
InitiatePayment(c, o) ==
  /\ client[c].pc = "idle"
  /\ status[o] = "PENDING"
  /\ client' = [client EXCEPT ![c] =
       [NoRequest EXCEPT !.order = o, !.pc = IF o \in overdue THEN "expire" ELSE "active"]]
  /\ UNCHANGED <<vars, payment, snap, inbox, seenBox, hook, errors, crashes>>

\* cancelExpiredOrder, which looks at the locked order again.
CancelExpired(c) ==
  /\ client[c].pc = "expire"
  /\ IF client[c].order \in overdue
     THEN CancelExpiredOrder(client[c].order)
     ELSE UNCHANGED vars
  /\ ClientEnds(c)
  /\ UNCHANGED <<payment, snap, inbox, seenBox, hook, errors, crashes>>

\* GetActivePaymentByOrderID: its redirect URL is returned, if there is one.
FindActivePayment(c) ==
  /\ client[c].pc = "active"
  /\ IF PaymentsOf(client[c].order, {"PENDING_PAYMENT"}) # {}
     THEN ClientEnds(c)
     ELSE ClientGoes(c, "snap")
  /\ UNCHANGED <<vars, payment, snap, inbox, seenBox, hook, errors, crashes>>

\* CreateTransaction: Midtrans opens a Snap transaction under a fresh id.
CallSnap(c) ==
  /\ client[c].pc = "snap"
  /\ \E q \in PaymentId :
       /\ snap[q] = "none"
       /\ snap' = [snap EXCEPT ![q] = "open"]
       /\ client' = [client EXCEPT ![c].pc = "create", ![c].payment = q]
  /\ UNCHANGED <<vars, payment, inbox, seenBox, hook, errors, crashes>>

\* CreatePayment.  The order is not looked at again.
CreatePayment(c) ==
  /\ client[c].pc = "create"
  /\ payment' = [payment EXCEPT ![client[c].payment] =
                   [status |-> "PENDING_PAYMENT", order |-> client[c].order]]
  /\ ClientEnds(c)
  /\ UNCHANGED <<vars, snap, inbox, seenBox, hook, errors, crashes>>

\* The gateway or the database fails, or the customer goes away.
InitiateFails(c) ==
  /\ client[c].pc # "idle"
  /\ ClientEnds(c)
  /\ UNCHANGED <<vars, payment, snap, inbox, seenBox, hook, errors, crashes>>

-----------------------------------------------------------------------------
(***************************************************************************)
(* Midtrans.  The customer has the redirect URL once the payments row is   *)
(* there.  The request sets no expiry, so Snap takes the money whether or  *)
(* not the order's fifteen minutes are over.                               *)
(***************************************************************************)

SnapMoves(q, to, s) ==
  /\ s \in Sends
  /\ snap' = [snap EXCEPT ![q] = to]
  /\ inbox' = inbox \cup {[payment |-> q, status |-> s]}
  /\ UNCHANGED <<vars, payment, seenBox, client, hook, errors, crashes>>

Payable(q) == payment[q].status # "none" /\ snap[q] \in {"open", "pending"}

SnapPending(q) == Payable(q) /\ snap[q] = "open" /\ SnapMoves(q, "pending", "pending")
SnapChallenges(q) == Payable(q) /\ SnapMoves(q, "challenged", "challenge")
SnapSettles(q) ==
  (Payable(q) \/ snap[q] = "challenged") /\ SnapMoves(q, "settled", "settlement")
SnapDenies(q) ==
  (Payable(q) \/ snap[q] = "challenged") /\ SnapMoves(q, "denied", "deny")
SnapExpires(q) == Payable(q) /\ SnapMoves(q, "expired", "expire")
SnapRefunds(q) == snap[q] = "settled" /\ SnapMoves(q, "refunded", "refund")
SnapAuthorizes(q) == Payable(q) /\ SnapMoves(q, snap[q], "authorize")

-----------------------------------------------------------------------------
(***************************************************************************)
(* The webhook.                                                            *)
(***************************************************************************)

HookGoes(h, pc) == hook' = [hook EXCEPT ![h].pc = pc]
HookEnds(h) == hook' = [hook EXCEPT ![h] = NoHook]

ReceiveWebhook(h, m) ==
  /\ hook[h].pc = "idle"
  /\ m \in inbox \cup seenBox
  /\ inbox' = inbox \ {m}
  /\ seenBox' = seenBox \cup {m}
  /\ hook' = [hook EXCEPT ![h] = [pc |-> "read", payment |-> m.payment, status |-> m.status]]
  /\ UNCHANGED <<vars, payment, snap, client, errors, crashes>>

\* GetPaymentByID, without a lock; a final payment is left alone, and a
\* status the code does not know is ignored.
ReadPayment(h) ==
  /\ hook[h].pc = "read"
  /\ LET found == payment[hook[h].payment].status
     IN  IF found = "none" \/ IsFinalPaymentStatus(found)
              \/ MapMidtransStatus(hook[h].status) = "ignored"
         THEN HookEnds(h)
         ELSE HookGoes(h, "update")
  /\ UNCHANGED <<vars, payment, snap, inbox, seenBox, client, errors, crashes>>

\* Faulty: an expired payment confirms its order; no payment does.
ConfirmsUnlessFailed(s) == s \notin {"PENDING_PAYMENT", "FAILED"}
ConfirmsNothing(s) == FALSE
ConfirmsOrder(s) == s = "SUCCESS"

\* UpdatePaymentAfterWebhook, whatever the row's status is by now.
UpdatePayment(h) ==
  /\ hook[h].pc = "update"
  /\ LET new == MapMidtransStatus(hook[h].status)
     IN  /\ payment' = [payment EXCEPT ![hook[h].payment].status = new]
         /\ IF ConfirmsOrder(new) THEN HookGoes(h, "confirm") ELSE HookEnds(h)
  /\ UNCHANGED <<vars, snap, inbox, seenBox, client, errors, crashes>>

HookOrder(h) == payment[hook[h].payment].order

\* ConfirmOrderFromPayment: a confirmed order is fine, any status but PENDING
\* and CONFIRMED is an error, which the webhook logs and answers with 200 OK.
ConfirmPaidOrder(o) == ConfirmOrder(o) \/ (status[o] # "PENDING" /\ UNCHANGED vars)

Confirm(h) ==
  /\ hook[h].pc = "confirm"
  /\ LET o == HookOrder(h)
     IN  /\ ConfirmPaidOrder(o)
         /\ IF status[o] \in {"PENDING", "CONFIRMED"}
            THEN HookGoes(h, "clear")
            ELSE HookEnds(h)
  /\ UNCHANGED <<payment, snap, inbox, seenBox, client, errors, crashes>>

\* ClearItemsByIDs of the rows that were ordered.  Faulty: rows that changed
\* since are kept.
OrderedRowsUnchanged(o) == {i \in CartItem : lines[o][i] > 0 /\ cartQty[i] = lines[o][i]}
OrderedRows(o) == {i \in CartItem : lines[o][i] > 0}

ClearCart(h) ==
  /\ hook[h].pc = "clear"
  /\ ClearItemsByIDs(OrderedRows(HookOrder(h)))
  /\ HookEnds(h)
  /\ UNCHANGED <<payment, snap, inbox, seenBox, client, errors, crashes>>

\* A statement of the webhook fails: the handler answers 200 OK all the same,
\* so Midtrans does not deliver the notification again.
WebhookFails(h) ==
  /\ hook[h].pc # "idle" /\ errors < MaxErrors
  /\ errors' = errors + 1
  /\ HookEnds(h)
  /\ UNCHANGED <<vars, payment, snap, inbox, seenBox, client, crashes>>

\* The server dies before it answers: Midtrans will deliver it again.
ServerCrashes(h) ==
  /\ hook[h].pc # "idle" /\ crashes < MaxCrashes
  /\ crashes' = crashes + 1
  /\ inbox' = inbox \cup {[payment |-> hook[h].payment, status |-> hook[h].status]}
  /\ HookEnds(h)
  /\ UNCHANGED <<vars, payment, snap, seenBox, client, errors>>

-----------------------------------------------------------------------------
\* InternalUpdateStatus: whoever has the internal API key confirms an order
\* without a look at its payments.  The ClearItemsByIDs that follows, which may
\* fail, is one of CartStep.
InternalConfirm(o) == o \in Attested /\ ConfirmOrder(o)

\* What customers, staff, holders of the key and time do to carts and orders
\* meanwhile.
ShopStep ==
  /\ \/ CartStep
     \/ \E u \in User, I \in (SUBSET CartItem) \ {{}} : CheckoutTx(u, I)
     \/ \E o \in OrderId : CancelOrder(o) \/ CompleteOrder(o) \/ Expire(o)
     \/ \E o \in OrderId : InternalConfirm(o)
  /\ UNCHANGED payVars

ClientStep(c) ==
  \/ \E o \in OrderId : InitiatePayment(c, o)
  \/ CancelExpired(c)
  \/ FindActivePayment(c)
  \/ CallSnap(c)
  \/ CreatePayment(c)
  \/ InitiateFails(c)

SnapStep(q) ==
  \/ SnapPending(q)
  \/ SnapChallenges(q)
  \/ SnapSettles(q)
  \/ SnapDenies(q)
  \/ SnapExpires(q)
  \/ SnapRefunds(q)
  \/ SnapAuthorizes(q)

HookStatement(h) ==
  \/ ReadPayment(h)
  \/ UpdatePayment(h)
  \/ Confirm(h)
  \/ ClearCart(h)

PayNext ==
  \/ ShopStep
  \/ \E c \in Client : ClientStep(c)
  \/ \E q \in PaymentId : SnapStep(q)
  \/ \E h \in Hook, m \in Notification : ReceiveWebhook(h, m)
  \/ \E h \in Hook : HookStatement(h) \/ WebhookFails(h) \/ ServerCrashes(h)

PaySpec == PayInit /\ [][PayNext]_allVars

\* Midtrans delivers every notification that was not answered, and a webhook
\* that started goes on.  Customers, staff and Midtrans' decisions are free.
Deliver(m) == m \in inbox /\ \E h \in Hook : ReceiveWebhook(h, m)

PayFairness ==
  /\ \A m \in Notification : SF_allVars(Deliver(m))
  /\ \A h \in Hook : WF_allVars(HookStatement(h))

FairPaySpec == PaySpec /\ PayFairness

-----------------------------------------------------------------------------
(***************************************************************************)
(* Properties.                                                             *)
(***************************************************************************)

FinalStatus == PaymentStatus \ {"PENDING_PAYMENT"}

\* The kitchen never starts an unpaid order that no holder of the key vouches
\* for: such an order is confirmed only after Midtrans settled one of its
\* payments, whatever was delivered twice, late or out of order (the code takes
\* a challenged capture for a settled one: the run sends none).
ConfirmedWasPaid ==
  \A o \in WithStatus({"CONFIRMED", "COMPLETED"}) \ Attested :
    \E q \in PaymentId : payment[q].order = o /\ snap[q] \in {"settled", "refunded"}

\* A payment's final status is final.  It holds while webhooks are handled
\* one at a time; two at a time, one can overwrite what the other wrote after
\* it was read.
FinalStaysFinal ==
  [][\A q \in PaymentId :
       payment[q].status \in FinalStatus => payment'[q].status = payment[q].status]_allVars

\* InitiatePayment returns the payment that is open for the order rather than
\* opening another one.  It holds while requests of either kind are handled one
\* at a time; two requests both find none, and two webhooks may reopen a payment
\* that failed.
OneActivePayment ==
  \A o \in OrderId : Cardinality(PaymentsOf(o, {"PENDING_PAYMENT"})) <= 1

\* The steps that get there, without fairness: a settlement that is not recorded
\* is still to be delivered, or a webhook has it in hand, or a statement failed.
\* It holds while webhooks are handled one at a time, or Midtrans never reports
\* "pending", which overwrites what a webhook recorded meanwhile.
SettlementIsInHand ==
  \A q \in PaymentId :
    snap[q] = "settled" =>
      \/ payment[q].status \in FinalStatus
      \/ [payment |-> q, status |-> "settlement"] \in inbox
      \/ \E h \in Hook : hook[h].payment = q /\ hook[h].status = "settlement"
                           /\ hook[h].pc \in {"read", "update"}
      \/ errors > 0

\* A successful payment whose order is still PENDING, which time or its owner may
\* cancel, is in the hands of a webhook that is about to confirm the order, or
\* the server crashed or a statement failed in between.
SuccessIsInHand ==
  \A q \in PaymentId :
    payment[q].status = "SUCCESS" /\ status[payment[q].order] = "PENDING" =>
      \/ \E h \in Hook : hook[h].payment = q /\ hook[h].pc = "confirm"
      \/ errors > 0
      \/ crashes > 0

\* What was paid is not in the cart, to be ordered and paid again, once the
\* webhook that confirmed the order is done with it: whatever customers added to
\* the rows meanwhile, and unless the server crashed or a statement failed.  Of
\* orders that only webhooks confirm.
PaidRowsAreInHand ==
  \A o \in WithStatus({"CONFIRMED", "COMPLETED"}) \ Attested, i \in CartItem :
    lines[o][i] > 0 /\ Live(i) =>
      \/ \E h \in Hook : hook[h].pc = "clear" /\ HookOrder(h) = o
      \/ errors > 0
      \/ crashes > 0

\* A settled payment is not lost: unless another final status came first,
\* the payment becomes SUCCESS.
SettlementIsRecorded ==
  \A q \in PaymentId :
    snap[q] = "settled" ~> payment[q].status \in FinalStatus

\* A successful payment decides its order: it does not stay PENDING, to be
\* cancelled as unpaid.
SuccessDecidesOrder ==
  \A o \in OrderId :
    PaymentsOf(o, {"SUCCESS"}) # {} ~> status[o] # "PENDING"

\* The same of a server that does not crash, until it does.
SuccessDecidesUntilCrash ==
  \A o \in OrderId :
    PaymentsOf(o, {"SUCCESS"}) # {} ~> status[o] # "PENDING" \/ crashes > 0

\* What was paid leaves the cart, also what was changed after checkout,
\* unless the server crashes between the two transactions.  Of orders that only
\* webhooks confirm.
PaidRowsLeaveCart ==
  \A o \in OrderId \ Attested, i \in CartItem :
    status[o] = "CONFIRMED" /\ lines[o][i] > 0 ~> ~Live(i) \/ crashes > 0
=============================================================================
