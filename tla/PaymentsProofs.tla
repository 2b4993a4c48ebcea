--------------------------- MODULE PaymentsProofs ---------------------------
(***************************************************************************)
(* What holds of Payments for every number of customers, payments, webhook *)
(* requests, failing statements and crashes: payments only do to carts and *)
(* orders what the handlers of Orders do, an order is confirmed only after *)
(* Midtrans took its money, and webhooks that are handled one at a time    *)
(* never overwrite a final status.                                         *)
(***************************************************************************)
EXTENDS Payments, OrdersProofs

-----------------------------------------------------------------------------
(***************************************************************************)
(* The inductive invariant.                                                *)
(***************************************************************************)

\* A request that runs is about an order that exists.
RequestsHaveOrders ==
  \A c \in Client : client[c].pc # "idle" => client[c].order \in OrderId

\* A payments row that is about to be created is not there yet, its Snap
\* transaction is, and no other request creates it.
CreatesAreFresh ==
  \A c \in Client :
    client[c].pc = "create" =>
      /\ client[c].payment \in PaymentId
      /\ payment[client[c].payment].status = "none"
      /\ snap[client[c].payment] # "none"
      /\ \A d \in Client \ {c} :
           client[d].pc = "create" => client[d].payment # client[c].payment

\* A Snap transaction without a payments row was not paid; a row has one.
RowsHaveSnap ==
  \A q \in PaymentId :
    /\ payment[q].status = "none" => snap[q] \in {"none", "open"}
    /\ payment[q].status # "none" => snap[q] # "none"

\* Midtrans took the money for q: it said so, or, if captures are challenged,
\* it may have said that it might.
Taken(q) ==
  snap[q] \in {"settled", "refunded"}
                \cup (IF "challenge" \in Sends THEN {"challenged", "denied"} ELSE {})

\* What is reported as a success is one.
SuccessesAreTaken ==
  \A m \in inbox \cup seenBox :
    m.status \in {"settlement", "challenge"} => Taken(m.payment)

\* A running webhook has the payment and the status of a notification; what it
\* is about to write, or to confirm, belongs to a row that is there.
HooksHavePayments ==
  \A h \in Hook :
    hook[h].pc # "idle" =>
      /\ hook[h].payment \in PaymentId
      /\ hook[h].status \in Sends
      /\ hook[h].status \in {"settlement", "challenge"} => Taken(hook[h].payment)
      /\ hook[h].pc # "read" =>
           /\ payment[hook[h].payment].status # "none"
           /\ MapMidtransStatus(hook[h].status) # "ignored"
      /\ hook[h].pc \in {"confirm", "clear"} =>
           MapMidtransStatus(hook[h].status) = "SUCCESS"

\* ConfirmedWasPaid as far as it holds with challenged captures.
ConfirmedWasTaken ==
  \A o \in WithStatus({"CONFIRMED", "COMPLETED"}) \ Attested :
    \E q \in PaymentId : payment[q].order = o /\ Taken(q)

PayInv ==
  /\ PayTypeOK
  /\ RequestsHaveOrders
  /\ CreatesAreFresh
  /\ RowsHaveSnap
  /\ SuccessesAreTaken
  /\ HooksHavePayments
  /\ ConfirmedWasTaken

LEMMA PayInvInit == PayInit => PayInv
<1> SUFFICES ASSUME PayInit
             PROVE  PayInv
  OBVIOUS
<1>1. TypeOK
  BY TypeInit DEF PayInit
<1>2. PayTypeOK
  BY <1>1, PaymentsAssumption DEF PayInit, PayTypeOK, PaymentRow, SnapState, Request,
     HookRequest, NoRequest, NoHook
<1>3. ConfirmedWasTaken
  BY DEF PayInit, Init, ConfirmedWasTaken, WithStatus
<1> QED
  BY <1>2, <1>3 DEF PayInit, PayInv, RequestsHaveOrders, CreatesAreFresh, RowsHaveSnap,
     SuccessesAreTaken, HooksHavePayments, NoRequest, NoHook

-----------------------------------------------------------------------------
(***************************************************************************)
(* What payments do to carts and orders.                                   *)
(***************************************************************************)

\* The webhook confirms an order that exists.
LEMMA HookHasOrder ==
  ASSUME PayInv, NEW h \in Hook, hook[h].pc \in {"confirm", "clear"}
  PROVE  HookOrder(h) \in OrderId
<1>1. hook[h].payment \in PaymentId /\ payment[hook[h].payment].status # "none"
  BY DEF PayInv, HooksHavePayments
<1> QED
  BY <1>1 DEF PayInv, PayTypeOK, PaymentRow, HookOrder

\* Deleting rows, or none, is a cart handler or nothing.
LEMMA ClearIsCartStep ==
  ASSUME TypeOK, NEW I \in SUBSET CartItem, ClearItemsByIDs(I)
  PROVE  CartStep \/ UNCHANGED vars
<1>1. CASE I # {}
  BY <1>1 DEF CartStep, ClearStep
<1>2. CASE I = {}
  <2>1. cartQty' = cartQty
    BY <1>2 DEF ClearItemsByIDs, RemoveRows, TypeOK
  <2> QED
    BY <2>1 DEF ClearItemsByIDs, RemoveRows, vars, cartVars
<1> QED
  BY <1>1, <1>2

\* Every step of payments is a step of the interleaved handlers of Orders, or
\* leaves carts and orders alone.
LEMMA PayStepIsOrdersStep ==
  ASSUME PayInv, [PayNext]_allVars
  PROVE  [ConcurrentNext]_vars
<1>1. CASE ShopStep
  BY <1>1 DEF ShopStep, InternalConfirm, ConcurrentNext, OrderStep
<1>2. ASSUME NEW c \in Client, ClientStep(c)
      PROVE  [ConcurrentNext]_vars
  <2>1. CASE CancelExpired(c)
    <3>1. overdue \subseteq OrderId
      BY DEF PayInv, PayTypeOK, TypeOK
    <3> QED
      BY <2>1, <3>1 DEF CancelExpired, ConcurrentNext, OrderStep
  <2>2. CASE ~CancelExpired(c)
    BY <1>2, <2>2 DEF ClientStep, InitiatePayment, FindActivePayment, CallSnap,
       CreatePayment, InitiateFails
  <2> QED
    BY <2>1, <2>2
<1>3. ASSUME NEW q \in PaymentId, SnapStep(q)
      PROVE  UNCHANGED vars
  BY <1>3 DEF SnapStep, SnapPending, SnapChallenges, SnapSettles, SnapDenies, SnapExpires,
     SnapRefunds, SnapAuthorizes, SnapMoves
<1>4. ASSUME NEW h \in Hook, HookStatement(h)
      PROVE  [ConcurrentNext]_vars
  <2>1. CASE ReadPayment(h) \/ UpdatePayment(h)
    BY <2>1 DEF ReadPayment, UpdatePayment
  <2>2. CASE Confirm(h)
    <3>1. HookOrder(h) \in OrderId
      BY <2>2, HookHasOrder DEF Confirm
    <3> QED
      BY <2>2, <3>1 DEF Confirm, ConfirmPaidOrder, ConcurrentNext, OrderStep
  <2>3. CASE ClearCart(h)
    <3>1. OrderedRows(HookOrder(h)) \in SUBSET CartItem
      BY DEF OrderedRows
    <3>2. CartStep \/ UNCHANGED vars
      BY <2>3, <3>1, ClearIsCartStep DEF ClearCart, PayInv, PayTypeOK
    <3> QED
      BY <3>2 DEF ConcurrentNext
  <2> QED
    BY <1>4, <2>1, <2>2, <2>3 DEF HookStatement
<1>5. ASSUME NEW h \in Hook,
             \/ \E m \in Notification : ReceiveWebhook(h, m)
             \/ WebhookFails(h)
             \/ ServerCrashes(h)
      PROVE  UNCHANGED vars
  BY <1>5 DEF ReceiveWebhook, WebhookFails, ServerCrashes
<1>6. CASE UNCHANGED allVars
  BY <1>6 DEF allVars
<1> QED
  BY <1>1, <1>2, <1>3, <1>4, <1>5, <1>6 DEF PayNext

\* Orders that the kitchen prepares, or has served, although no holder of the
\* key vouches for them.
Confirmed == WithStatus({"CONFIRMED", "COMPLETED"}) \ Attested

\* Neither customers nor staff nor time confirm such an order.
LEMMA OnlyWebhooksConfirm ==
  ASSUME TypeOK,
         ShopStep \/ (\E c \in Client : CancelExpired(c)) \/ UNCHANGED vars
  PROVE  Confirmed' \subseteq Confirmed
<1> SUFFICES ASSUME NEW o \in OrderId \ Attested, status'[o] \in {"CONFIRMED", "COMPLETED"}
             PROVE  status[o] \in {"CONFIRMED", "COMPLETED"}
  BY DEF Confirmed, WithStatus
<1>1. CASE CartStep \/ UNCHANGED vars
  BY <1>1, NotOrders
<1>2. ASSUME NEW r, CancelAndRestock(r)
      PROVE  status[o] \in {"CONFIRMED", "COMPLETED"}
  BY <1>2 DEF CancelAndRestock, TypeOK
<1>3. ASSUME NEW r \in OrderId, CompleteOrder(r) \/ Expire(r)
      PROVE  status[o] \in {"CONFIRMED", "COMPLETED"}
  BY <1>3 DEF CompleteOrder, RecordSale, Expire, TypeOK
<1>4. ASSUME NEW u \in User, NEW I \in SUBSET CartItem, CheckoutTx(u, I)
      PROVE  status[o] \in {"CONFIRMED", "COMPLETED"}
  BY <1>4 DEF CheckoutTx, TypeOK
<1>5. ASSUME NEW c \in Client, CancelExpired(c)
      PROVE  status[o] \in {"CONFIRMED", "COMPLETED"}
  BY <1>1, <1>2, <1>5 DEF CancelExpired, CancelExpiredOrder
<1>6. ASSUME NEW r \in OrderId, InternalConfirm(r)
      PROVE  status[o] \in {"CONFIRMED", "COMPLETED"}
  BY <1>6 DEF InternalConfirm, ConfirmOrder, TypeOK
<1> QED
  BY <1>1, <1>2, <1>3, <1>4, <1>5, <1>6 DEF ShopStep, CancelOrder

\* ConfirmedWasTaken is kept by a step that confirms nothing, gives no payment
\* to another order and takes no money back.
LEMMA TakenStays ==
  ASSUME PayInv, Confirmed' \subseteq Confirmed,
         \A q \in PaymentId : Taken(q) => Taken(q)' /\ payment'[q].order = payment[q].order
  PROVE  ConfirmedWasTaken'
BY DEF PayInv, ConfirmedWasTaken, Confirmed

-----------------------------------------------------------------------------
(***************************************************************************)
(* Every step keeps the invariant.                                         *)
(***************************************************************************)

\* Carts, orders and time do not touch payments.
LEMMA ShopInv ==
  ASSUME PayInv, TypeOK', ShopStep \/ UNCHANGED allVars
  PROVE  PayInv'
<1>1. UNCHANGED payVars
  BY DEF ShopStep, allVars
<1>2. Confirmed' \subseteq Confirmed
  BY OnlyWebhooksConfirm DEF PayInv, PayTypeOK, allVars
<1>3. ConfirmedWasTaken'
  BY <1>1, <1>2, TakenStays DEF payVars, Taken
<1> QED
  BY <1>1, <1>3 DEF PayInv, PayTypeOK, payVars, RequestsHaveOrders, CreatesAreFresh,
     RowsHaveSnap, SuccessesAreTaken, HooksHavePayments, Taken, Notification

\* InitiatePayment until its last statement only moves its own request.
LEMMA ClientMoves ==
  ASSUME PayInv, TypeOK', NEW c \in Client,
         \/ \E o \in OrderId : InitiatePayment(c, o)
         \/ CancelExpired(c)
         \/ FindActivePayment(c)
         \/ InitiateFails(c)
  PROVE  PayInv'
<1> DEFINE Moves(r) ==
      /\ UNCHANGED <<payment, snap, inbox, seenBox, hook, errors, crashes>>
      /\ client' = [client EXCEPT ![c] = r]
      /\ r \in Request /\ r.pc # "create" /\ (r.pc # "idle" => r.order \in OrderId)
<1>1. \E r : Moves(r)
  <2>1. NoRequest \in Request /\ NoRequest.pc = "idle"
    BY DEF NoRequest, Request
  <2>2. ASSUME NEW o \in OrderId, InitiatePayment(c, o)
        PROVE  \E r : Moves(r)
    <3> DEFINE r == [NoRequest EXCEPT !.order = o,
                                      !.pc = IF o \in overdue THEN "expire" ELSE "active"]
    <3>1. r \in Request /\ r.pc # "create" /\ r.order = o
      BY DEF NoRequest, Request
    <3> HIDE DEF r
    <3>2. client' = [client EXCEPT ![c] = r]
      BY <2>2 DEF InitiatePayment, r
    <3> QED
      BY <2>2, <3>1, <3>2 DEF InitiatePayment
  <2>3. CASE CancelExpired(c) \/ InitiateFails(c)
    BY <2>1, <2>3 DEF CancelExpired, InitiateFails, ClientEnds
  <2>4. CASE FindActivePayment(c)
    <3> DEFINE r == [client[c] EXCEPT !.pc = "snap"]
    <3>1. client[c] \in Request /\ client[c].pc = "active" /\ client[c].order \in OrderId
      BY <2>4 DEF FindActivePayment, PayInv, PayTypeOK, RequestsHaveOrders
    <3>2. r \in Request /\ r.pc = "snap" /\ r.order \in OrderId
      BY <3>1 DEF Request
    <3> HIDE DEF r
    <3>3. client' = [client EXCEPT ![c] = r] \/ ClientEnds(c)
      BY <2>4 DEF FindActivePayment, ClientGoes, r
    <3> QED
      BY <2>1, <2>4, <3>2, <3>3 DEF FindActivePayment, ClientEnds
  <2> QED
    BY <2>2, <2>3, <2>4
<1> PICK r : Moves(r)
  BY <1>1
<1>2. Confirmed' \subseteq Confirmed
  BY OnlyWebhooksConfirm DEF PayInv, PayTypeOK, InitiatePayment, FindActivePayment,
     InitiateFails
<1>3. ConfirmedWasTaken'
  BY <1>2, TakenStays DEF Taken
<1>4. PayTypeOK'
  BY DEF PayInv, PayTypeOK, Notification
<1>5. RequestsHaveOrders' /\ CreatesAreFresh'
  BY DEF PayInv, PayTypeOK, RequestsHaveOrders, CreatesAreFresh
<1>6. RowsHaveSnap' /\ SuccessesAreTaken' /\ HooksHavePayments'
  BY DEF PayInv, RowsHaveSnap, SuccessesAreTaken, HooksHavePayments, Taken
<1> QED
  BY <1>3, <1>4, <1>5, <1>6 DEF PayInv

\* A Snap transaction is opened for a payment that was not used before.
LEMMA CallSnapInv ==
  ASSUME PayInv, TypeOK', NEW c \in Client, CallSnap(c)
  PROVE  PayInv'
<1> PICK q \in PaymentId :
      /\ snap[q] = "none"
      /\ snap' = [snap EXCEPT ![q] = "open"]
      /\ client' = [client EXCEPT ![c].pc = "create", ![c].payment = q]
  BY DEF CallSnap
<1>1. /\ client[c].pc = "snap"
      /\ UNCHANGED <<vars, payment, inbox, seenBox, hook, errors, crashes>>
  BY DEF CallSnap
<1>2. PayTypeOK'
  <2>1. client' \in [Client -> Request]
    <3>1. client \in [Client -> Request]
      BY DEF PayInv, PayTypeOK
    <3>2. [client[c] EXCEPT !.pc = "create", !.payment = q] \in Request
      BY <3>1 DEF Request
    <3> QED
      BY <3>1, <3>2
  <2>2. snap' \in [PaymentId -> SnapState]
    BY DEF PayInv, PayTypeOK, SnapState
  <2> QED
    BY <1>1, <2>1, <2>2 DEF PayInv, PayTypeOK, Notification
<1>3. \A r \in PaymentId : Taken(r) <=> Taken(r)'
  BY DEF Taken, PayInv, PayTypeOK
<1>4. RequestsHaveOrders' /\ CreatesAreFresh' /\ RowsHaveSnap'
  BY <1>1 DEF PayInv, PayTypeOK, RequestsHaveOrders, CreatesAreFresh, RowsHaveSnap
<1>5. SuccessesAreTaken' /\ HooksHavePayments'
  BY <1>1, <1>3 DEF PayInv, PayTypeOK, SuccessesAreTaken, HooksHavePayments, Notification
<1>6. ConfirmedWasTaken'
  BY <1>1, <1>3, TakenStays, OnlyWebhooksConfirm DEF PayInv, PayTypeOK
<1> QED
  BY <1>2, <1>4, <1>5, <1>6 DEF PayInv

\* The row that InitiatePayment creates was in nobody's way.
LEMMA CreatePaymentInv ==
  ASSUME PayInv, TypeOK', NEW c \in Client, CreatePayment(c)
  PROVE  PayInv'
<1> DEFINE q == client[c].payment
<1>1. /\ client[c].pc = "create"
      /\ payment' = [payment EXCEPT ![q] =
           [status |-> "PENDING_PAYMENT", order |-> client[c].order]]
      /\ client' = [client EXCEPT ![c] = NoRequest]
      /\ UNCHANGED <<vars, snap, inbox, seenBox, hook, errors, crashes>>
  BY DEF CreatePayment, ClientEnds
<1>2. /\ q \in PaymentId /\ payment[q].status = "none" /\ snap[q] # "none"
      /\ client[c].order \in OrderId
      /\ \A d \in Client \ {c} : client[d].pc = "create" => client[d].payment # q
  BY <1>1 DEF PayInv, CreatesAreFresh, RequestsHaveOrders
<1> HIDE DEF q
<1>3. PayTypeOK'
  <2>1. payment' \in [PaymentId -> PaymentRow]
    BY <1>1, <1>2 DEF PayInv, PayTypeOK, PaymentRow, PaymentStatus
  <2>2. client' \in [Client -> Request]
    BY <1>1 DEF PayInv, PayTypeOK, Request, NoRequest
  <2>3. \A r \in PaymentId : payment'[r].status # "none" => payment'[r].order # NoOrder
    BY <1>1, <1>2, PaymentsAssumption DEF PayInv, PayTypeOK
  <2> QED
    BY <1>1, <2>1, <2>2, <2>3 DEF PayInv, PayTypeOK, Notification
<1>4. RequestsHaveOrders' /\ CreatesAreFresh' /\ RowsHaveSnap'
  BY <1>1, <1>2 DEF PayInv, PayTypeOK, RequestsHaveOrders, CreatesAreFresh, RowsHaveSnap,
     NoRequest
<1>5. \A r \in PaymentId : Taken(r) => Taken(r)' /\ r # q
  BY <1>1, <1>2 DEF Taken, PayInv, RowsHaveSnap
<1>6. SuccessesAreTaken' /\ HooksHavePayments'
  <2>1. SuccessesAreTaken'
    BY <1>1, <1>5 DEF PayInv, PayTypeOK, SuccessesAreTaken, Notification
  <2>2. \A r \in PaymentId : payment[r].status # "none" => payment'[r].status # "none"
    BY <1>1, <1>2 DEF PayInv, PayTypeOK
  <2> QED
    BY <1>1, <1>5, <2>1, <2>2 DEF PayInv, PayTypeOK, HooksHavePayments
<1>7. ConfirmedWasTaken'
  <2>1. \A r \in PaymentId : Taken(r) => Taken(r)' /\ payment'[r].order = payment[r].order
    BY <1>1, <1>5 DEF PayInv, PayTypeOK
  <2> QED
    BY <1>1, <2>1, TakenStays, OnlyWebhooksConfirm DEF PayInv, PayTypeOK
<1> QED
  BY <1>3, <1>4, <1>6, <1>7 DEF PayInv

\* Midtrans moves Snap transactions that have a row, and takes no money back.
LEMMA SnapInv ==
  ASSUME PayInv, TypeOK', NEW q \in PaymentId, SnapStep(q)
  PROVE  PayInv'
<1>1. PICK to \in SnapState \ {"none"}, s \in Sends :
        /\ snap' = [snap EXCEPT ![q] = to]
        /\ inbox' = inbox \cup {[payment |-> q, status |-> s]}
        /\ UNCHANGED <<vars, payment, seenBox, client, hook, errors, crashes>>
        /\ payment[q].status # "none"
        /\ Taken(q) => Taken(q)'
        /\ s \in {"settlement", "challenge"} => Taken(q)'
  <2>1. snap[q] \in SnapState /\ (snap[q] \notin {"none", "open"} => payment[q].status # "none")
    BY DEF PayInv, PayTypeOK, RowsHaveSnap
  <2>0. snap \in [PaymentId -> SnapState]
    BY DEF PayInv, PayTypeOK
  <2> USE <2>0, <2>1 DEF SnapMoves, Payable, SnapState, Taken
  <2>2. CASE SnapPending(q)
    BY <2>2 DEF SnapPending
  <2>3. CASE SnapChallenges(q)
    BY <2>3 DEF SnapChallenges
  <2>4. CASE SnapSettles(q)
    BY <2>4 DEF SnapSettles
  <2>5. CASE SnapDenies(q)
    BY <2>5 DEF SnapDenies
  <2>6. CASE SnapExpires(q)
    BY <2>6 DEF SnapExpires
  <2>7. CASE SnapRefunds(q)
    BY <2>7 DEF SnapRefunds
  <2>8. CASE SnapAuthorizes(q)
    BY <2>8 DEF SnapAuthorizes
  <2> QED
    BY <2>2, <2>3, <2>4, <2>5, <2>6, <2>7, <2>8 DEF SnapStep
<1>2. PayTypeOK'
  BY <1>1 DEF PayInv, PayTypeOK, Notification
<1>3. \A r \in PaymentId : Taken(r) => Taken(r)'
  BY <1>1 DEF Taken, PayInv, PayTypeOK
<1>4. RequestsHaveOrders' /\ CreatesAreFresh' /\ RowsHaveSnap'
  BY <1>1 DEF PayInv, PayTypeOK, RequestsHaveOrders, CreatesAreFresh, RowsHaveSnap
<1>5. SuccessesAreTaken'
  BY <1>1, <1>3 DEF PayInv, PayTypeOK, SuccessesAreTaken, Notification
<1>6. HooksHavePayments'
  BY <1>1, <1>3 DEF PayInv, HooksHavePayments
<1>7. ConfirmedWasTaken'
  BY <1>1, <1>3, TakenStays, OnlyWebhooksConfirm DEF PayInv, PayTypeOK
<1> QED
  BY <1>2, <1>4, <1>5, <1>6, <1>7 DEF PayInv

\* A step that only moves notifications and one webhook request keeps the
\* invariant if the notifications and the request are in order.
LEMMA HookMoves ==
  ASSUME PayInv, TypeOK', NEW h \in Hook, NEW r \in HookRequest,
         UNCHANGED <<payment, snap, client>>,
         Confirmed' \subseteq Confirmed,
         errors' \in 0..MaxErrors, crashes' \in 0..MaxCrashes,
         inbox' \in SUBSET Notification, seenBox' \in SUBSET Notification,
         SuccessesAreTaken',
         hook' = [hook EXCEPT ![h] = r],
         r.pc # "idle" =>
           /\ r.payment \in PaymentId
           /\ r.status \in Sends
           /\ r.status \in {"settlement", "challenge"} => Taken(r.payment)
           /\ r.pc # "read" =>
                /\ payment[r.payment].status # "none"
                /\ MapMidtransStatus(r.status) # "ignored"
           /\ r.pc \in {"confirm", "clear"} => MapMidtransStatus(r.status) = "SUCCESS"
  PROVE  PayInv'
<1>1. PayTypeOK'
  BY DEF PayInv, PayTypeOK, Notification
<1>2. RequestsHaveOrders' /\ CreatesAreFresh' /\ RowsHaveSnap'
  BY DEF PayInv, RequestsHaveOrders, CreatesAreFresh, RowsHaveSnap
<1>3. HooksHavePayments'
  BY DEF PayInv, PayTypeOK, HooksHavePayments, Taken
<1>4. ConfirmedWasTaken'
  BY TakenStays DEF Taken
<1> QED
  BY <1>1, <1>2, <1>3, <1>4 DEF PayInv

\* The request of an idle webhook.
LEMMA NoHookIdle == NoHook \in HookRequest /\ NoHook.pc = "idle"
BY DEF NoHook, HookRequest

\* A webhook begins with a notification, and what it was told is true.
LEMMA ReceiveInv ==
  ASSUME PayInv, TypeOK', NEW h \in Hook, NEW m \in Notification, ReceiveWebhook(h, m)
  PROVE  PayInv'
<1> DEFINE r == [pc |-> "read", payment |-> m.payment, status |-> m.status]
<1>1. r \in HookRequest /\ r.pc = "read" /\ r.payment = m.payment /\ r.status = m.status
  BY SendsAssumption DEF HookRequest, Notification
<1>2. m.payment \in PaymentId /\ m.status \in Sends
  BY DEF Notification
<1>3. m.status \in {"settlement", "challenge"} => Taken(m.payment)
  BY DEF ReceiveWebhook, PayInv, SuccessesAreTaken
<1> HIDE DEF r
<1>4. hook' = [hook EXCEPT ![h] = r]
  BY DEF ReceiveWebhook, r
<1>5. SuccessesAreTaken'
  BY DEF ReceiveWebhook, PayInv, SuccessesAreTaken, Taken
<1>6. Confirmed' \subseteq Confirmed
  BY OnlyWebhooksConfirm DEF PayInv, PayTypeOK, ReceiveWebhook
<1>7. /\ UNCHANGED <<payment, snap, client>>
      /\ errors' \in 0..MaxErrors /\ crashes' \in 0..MaxCrashes
      /\ inbox' \in SUBSET Notification /\ seenBox' \in SUBSET Notification
  BY DEF ReceiveWebhook, PayInv, PayTypeOK
<1> QED
  BY ONLY PayInv, TypeOK', h \in Hook, <1>1, <1>2, <1>3, <1>4, <1>5, <1>6, <1>7, HookMoves

\* A webhook that fails, or whose server dies, is forgotten; in the second case
\* Midtrans will deliver its notification again.
LEMMA HookStopsInv ==
  ASSUME PayInv, TypeOK', NEW h \in Hook, WebhookFails(h) \/ ServerCrashes(h)
  PROVE  PayInv'
<1>1. hook' = [hook EXCEPT ![h] = NoHook]
  BY DEF WebhookFails, ServerCrashes, HookEnds
<1>2. errors' \in 0..MaxErrors /\ crashes' \in 0..MaxCrashes
  BY PaymentsAssumption DEF WebhookFails, ServerCrashes, PayInv, PayTypeOK
<1>3. inbox' \in SUBSET Notification /\ SuccessesAreTaken'
  <2>1. CASE WebhookFails(h)
    BY <2>1 DEF WebhookFails, PayInv, PayTypeOK, SuccessesAreTaken, Taken
  <2>2. CASE ServerCrashes(h)
    <3>1. /\ hook[h].payment \in PaymentId /\ hook[h].status \in Sends
          /\ hook[h].status \in {"settlement", "challenge"} => Taken(hook[h].payment)
      BY <2>2 DEF ServerCrashes, PayInv, HooksHavePayments
    <3> QED
      BY <2>2, <3>1 DEF ServerCrashes, PayInv, PayTypeOK, SuccessesAreTaken, Taken,
         Notification
  <2> QED
    BY <2>1, <2>2
<1>4. Confirmed' \subseteq Confirmed
  BY OnlyWebhooksConfirm DEF PayInv, PayTypeOK, WebhookFails, ServerCrashes
<1> QED
  BY <1>1, <1>2, <1>3, <1>4, HookMoves, NoHookIdle
  DEF WebhookFails, ServerCrashes, PayInv, PayTypeOK, Notification

\* A webhook that goes on, or ends, but does nothing else.
LEMMA HookGoesInv ==
  ASSUME PayInv, TypeOK', NEW h \in Hook, NEW pc \in {"update", "confirm", "clear"},
         hook[h].pc # "idle",
         UNCHANGED <<payment, snap, inbox, seenBox, client, errors, crashes>>,
         Confirmed' \subseteq Confirmed,
         HookGoes(h, pc) \/ HookEnds(h),
         HookGoes(h, pc) =>
           /\ payment[hook[h].payment].status # "none"
           /\ MapMidtransStatus(hook[h].status) # "ignored"
           /\ pc # "update" => MapMidtransStatus(hook[h].status) = "SUCCESS"
  PROVE  PayInv'
<1>1. /\ hook[h] \in HookRequest
      /\ hook[h].payment \in PaymentId
      /\ hook[h].status \in Sends
      /\ hook[h].status \in {"settlement", "challenge"} => Taken(hook[h].payment)
  BY DEF PayInv, PayTypeOK, HooksHavePayments
<1>2. SuccessesAreTaken'
  BY DEF PayInv, SuccessesAreTaken, Taken
<1>3. inbox' \in SUBSET Notification /\ seenBox' \in SUBSET Notification
  BY DEF PayInv, PayTypeOK, Notification
<1>4. errors' \in 0..MaxErrors /\ crashes' \in 0..MaxCrashes
  BY DEF PayInv, PayTypeOK
<1>5. CASE HookEnds(h)
  BY <1>2, <1>3, <1>4, <1>5, HookMoves, NoHookIdle DEF HookEnds
<1>6. CASE HookGoes(h, pc)
  <2> DEFINE r == [hook[h] EXCEPT !.pc = pc]
  <2>1. /\ r \in HookRequest /\ r.pc = pc
        /\ r.payment = hook[h].payment /\ r.status = hook[h].status
    BY <1>1 DEF HookRequest
  <2>2. hook' = [hook EXCEPT ![h] = r]
    BY <1>6 DEF HookGoes
  <2> HIDE DEF r
  <2> QED
    BY <1>1, <1>2, <1>3, <1>4, <1>6, <2>1, <2>2, HookMoves
<1> QED
  BY <1>5, <1>6

\* The webhook reads the payment.
LEMMA ReadInv ==
  ASSUME PayInv, TypeOK', NEW h \in Hook, ReadPayment(h)
  PROVE  PayInv'
<1>1. Confirmed' \subseteq Confirmed
  BY OnlyWebhooksConfirm DEF PayInv, PayTypeOK, ReadPayment
<1>2. CASE HookEnds(h)
  <2>1. hook'[h].pc = "idle"
    BY <1>2, NoHookIdle DEF HookEnds, PayInv, PayTypeOK
  <2>2. ~HookGoes(h, "update")
    BY <2>1 DEF HookGoes, PayInv, PayTypeOK, HookRequest
  <2> QED
    BY <1>1, <1>2, <2>2, HookGoesInv DEF ReadPayment
<1>3. CASE ~HookEnds(h)
  BY <1>1, <1>3, HookGoesInv DEF ReadPayment
<1> QED
  BY <1>2, <1>3

\* The statuses the webhook knows are statuses of a payment.
LEMMA MappedStatus ==
  ASSUME NEW s, MapMidtransStatus(s) # "ignored"
  PROVE  /\ MapMidtransStatus(s) \in PaymentStatus
         /\ MapMidtransStatus(s) = "SUCCESS" => s \in {"settlement", "challenge"}
BY DEF MapMidtransStatus, PaymentStatus

\* The webhook writes the status that Midtrans reported.
LEMMA UpdateInv ==
  ASSUME PayInv, TypeOK', NEW h \in Hook, UpdatePayment(h)
  PROVE  PayInv'
<1> DEFINE q == hook[h].payment
           new == MapMidtransStatus(hook[h].status)
           r == IF new = "SUCCESS" THEN [hook[h] EXCEPT !.pc = "confirm"] ELSE NoHook
<1>1. /\ hook[h].pc = "update"
      /\ payment' = [payment EXCEPT ![q].status = new]
      /\ hook' = [hook EXCEPT ![h] = r]
      /\ UNCHANGED <<vars, snap, inbox, seenBox, client, errors, crashes>>
  BY DEF UpdatePayment, ConfirmsOrder, HookGoes, HookEnds
<1>2. /\ q \in PaymentId /\ payment[q].status # "none"
      /\ new # "ignored" /\ hook[h] \in HookRequest /\ hook[h].status \in Sends
      /\ hook[h].status \in {"settlement", "challenge"} => Taken(q)
  BY <1>1 DEF PayInv, PayTypeOK, HooksHavePayments
<1>3. new \in PaymentStatus /\ new # "none"
  BY <1>2, MappedStatus DEF PaymentStatus
<1>4. /\ r \in HookRequest /\ r.pc \in {"idle", "confirm"}
      /\ r.pc = "confirm" => r.payment = q /\ r.status = hook[h].status /\ new = "SUCCESS"
  BY <1>2, NoHookIdle DEF HookRequest
<1> HIDE DEF q, new, r
<1>5. /\ payment' \in [PaymentId -> PaymentRow]
      /\ \A p \in PaymentId : /\ payment'[p].order = payment[p].order
                              /\ payment'[p].status = "none" <=> payment[p].status = "none"
  BY <1>1, <1>2, <1>3 DEF PayInv, PayTypeOK, PaymentRow
<1>6. PayTypeOK'
  BY <1>1, <1>4, <1>5 DEF PayInv, PayTypeOK, Notification
<1>7. RequestsHaveOrders' /\ CreatesAreFresh' /\ RowsHaveSnap' /\ SuccessesAreTaken'
  BY <1>1, <1>5 DEF PayInv, RequestsHaveOrders, CreatesAreFresh, RowsHaveSnap,
     SuccessesAreTaken, Taken
<1>8. HooksHavePayments'
  <2>1. new = MapMidtransStatus(hook[h].status)
    BY DEF new
  <2>2. \A g \in Hook \ {h} : hook'[g] = hook[g]
    BY <1>1 DEF PayInv, PayTypeOK
  <2>3. hook'[h] = r
    BY <1>1 DEF PayInv, PayTypeOK
  <2> QED
    BY <1>1, <1>2, <1>4, <1>5, <2>1, <2>2, <2>3 DEF PayInv, HooksHavePayments, Taken
<1>9. ConfirmedWasTaken'
  BY <1>1, <1>5, TakenStays, OnlyWebhooksConfirm DEF PayInv, PayTypeOK, Taken
<1> QED
  BY <1>6, <1>7, <1>8, <1>9 DEF PayInv

\* The webhook confirms the order of a payment that Midtrans took.
LEMMA ConfirmInv ==
  ASSUME PayInv, TypeOK', NEW h \in Hook, Confirm(h)
  PROVE  PayInv'
<1> DEFINE q == hook[h].payment
           o == HookOrder(h)
<1>1. /\ hook[h].pc = "confirm"
      /\ ConfirmPaidOrder(o)
      /\ HookGoes(h, "clear") \/ HookEnds(h)
      /\ UNCHANGED <<payment, snap, inbox, seenBox, client, errors, crashes>>
  BY DEF Confirm
<1>2. /\ q \in PaymentId /\ payment[q].status # "none" /\ payment[q].order = o
      /\ MapMidtransStatus(hook[h].status) = "SUCCESS"
      /\ hook[h].status \in {"settlement", "challenge"} => Taken(q)
  BY <1>1 DEF PayInv, HooksHavePayments, HookOrder
<1>3. Taken(q)
  BY <1>2, MappedStatus
<1>4. o \in OrderId
  BY <1>1, HookHasOrder
<1>5. hook[h] \in HookRequest /\ hook[h].status \in Sends
  BY <1>1 DEF PayInv, PayTypeOK, HooksHavePayments
<1> DEFINE r == IF HookGoes(h, "clear") THEN [hook[h] EXCEPT !.pc = "clear"] ELSE NoHook
<1>6. /\ r \in HookRequest /\ r.pc \in {"idle", "clear"}
      /\ r.pc = "clear" => r.payment = q /\ r.status = hook[h].status
      /\ hook' = [hook EXCEPT ![h] = r]
  BY <1>1, <1>5, NoHookIdle DEF HookRequest, HookGoes, HookEnds
<1> HIDE DEF q, o, r
<1>7. PayTypeOK'
  BY <1>1, <1>6 DEF PayInv, PayTypeOK, Notification
<1>8. RequestsHaveOrders' /\ CreatesAreFresh' /\ RowsHaveSnap' /\ SuccessesAreTaken'
  BY <1>1 DEF PayInv, RequestsHaveOrders, CreatesAreFresh, RowsHaveSnap, SuccessesAreTaken,
     Taken
<1>9. HooksHavePayments'
  <2>1. \A g \in Hook \ {h} : hook'[g] = hook[g]
    BY <1>6 DEF PayInv, PayTypeOK
  <2>2. hook'[h] = r
    BY <1>6 DEF PayInv, PayTypeOK
  <2> QED
    BY <1>1, <1>2, <1>3, <1>5, <1>6, <2>1, <2>2 DEF PayInv, HooksHavePayments, Taken
<1>10. ConfirmedWasTaken'
  <2>1. \A p \in OrderId : status'[p] \in {"CONFIRMED", "COMPLETED"} =>
          p = o \/ status[p] \in {"CONFIRMED", "COMPLETED"}
    BY <1>1, <1>4 DEF ConfirmPaidOrder, ConfirmOrder, PayInv, PayTypeOK, TypeOK, vars, orderVars
  <2>2. \A p \in PaymentId : Taken(p) => Taken(p)'
    BY <1>1 DEF Taken
  <2>3. \E p \in PaymentId : payment'[p].order = o /\ Taken(p)'
    BY <1>1, <1>2, <1>3, <2>2
  <2> QED
    BY <1>1, <2>1, <2>2, <2>3 DEF PayInv, ConfirmedWasTaken, WithStatus
<1> QED
  BY <1>7, <1>8, <1>9, <1>10 DEF PayInv

\* The webhook clears the cart and ends.
LEMMA ClearInv ==
  ASSUME PayInv, TypeOK', NEW h \in Hook, ClearCart(h)
  PROVE  PayInv'
<1>1. UNCHANGED <<status, payment, snap, inbox, seenBox, client, errors, crashes>>
  BY DEF ClearCart, ClearItemsByIDs, RemoveRows, orderVars
<1>2. hook' = [hook EXCEPT ![h] = NoHook]
  BY DEF ClearCart, HookEnds
<1>3. Confirmed' \subseteq Confirmed
  BY <1>1 DEF Confirmed, WithStatus
<1>4. SuccessesAreTaken'
  BY <1>1 DEF PayInv, SuccessesAreTaken, Taken
<1> QED
  BY <1>1, <1>2, <1>3, <1>4, HookMoves, NoHookIdle DEF PayInv, PayTypeOK, Notification

LEMMA PayInvStep == PayInv /\ [PayNext]_allVars => PayInv'
<1> SUFFICES ASSUME PayInv, [PayNext]_allVars
             PROVE  PayInv'
  OBVIOUS
<1> TypeOK'
  BY PayStepIsOrdersStep, TypeStep DEF PayInv, PayTypeOK
<1>1. CASE ShopStep \/ UNCHANGED allVars
  BY <1>1, ShopInv
<1>2. ASSUME NEW c \in Client, ClientStep(c)
      PROVE  PayInv'
  BY <1>2, ClientMoves, CallSnapInv, CreatePaymentInv DEF ClientStep
<1>3. ASSUME NEW q \in PaymentId, SnapStep(q)
      PROVE  PayInv'
  BY <1>3, SnapInv
<1>4. ASSUME NEW h \in Hook, NEW m \in Notification, ReceiveWebhook(h, m)
      PROVE  PayInv'
  BY <1>4, ReceiveInv
<1>5. ASSUME NEW h \in Hook, HookStatement(h)
      PROVE  PayInv'
  BY <1>5, ReadInv, UpdateInv, ConfirmInv, ClearInv DEF HookStatement
<1>6. ASSUME NEW h \in Hook, WebhookFails(h) \/ ServerCrashes(h)
      PROVE  PayInv'
  BY <1>6, HookStopsInv
<1> QED
  BY <1>1, <1>2, <1>3, <1>4, <1>5, <1>6 DEF PayNext

-----------------------------------------------------------------------------
(***************************************************************************)
(* The theorems.                                                           *)
(***************************************************************************)

\* The inductive invariant holds in every state, however many requests,
\* webhooks, failures and crashes there are.
THEOREM PaymentsInvariance == PaySpec => []PayInv
<1> QED
  BY PayInvInit, PayInvStep, PTL DEF PaySpec

\* Every row of payments and every request of the payment service keeps its
\* type; a payment that exists belongs to an order.
THEOREM PaymentTypes == PaySpec => []PayTypeOK
<1>1. PayInv => PayTypeOK
  BY DEF PayInv
<1> QED
  BY <1>1, PaymentsInvariance, PTL

\* The payment service is a client of the cart and order services: whatever
\* InitiatePayment and the webhook do, carts, stock and orders behave as if
\* only the handlers of Orders ran.
THEOREM PaymentsAreOrders == PaySpec => ConcurrentSpec
<1>1. PayInit => Init
  BY DEF PayInit
<1>2. PayInv /\ [PayNext]_allVars => [ConcurrentNext]_vars
  BY PayStepIsOrdersStep
<1> QED
  BY <1>1, <1>2, PaymentsInvariance, PTL DEF PaySpec, ConcurrentSpec

\* Payments, late and repeated webhooks and crashes lose no unit of stock.
THEOREM PaymentsConserveStock == PaySpec => []StockConserved
<1> QED
  BY PaymentsAreOrders, StockIsConserved, PTL

\* As long as no capture is challenged, no order is confirmed, let alone
\* completed, before Midtrans settled one of its payments, whatever is
\* delivered twice, late or out of order and wherever the server dies.
THEOREM OnlyPaidAreConfirmed ==
  ASSUME "challenge" \notin Sends
  PROVE  PaySpec => []ConfirmedWasPaid
<1>1. PayInv => ConfirmedWasPaid
  BY DEF PayInv, ConfirmedWasTaken, ConfirmedWasPaid, Taken
<1> QED
  BY <1>1, PaymentsInvariance, PTL

\* While webhooks are handled one at a time a final payment status never
\* changes: what the webhook read is still so when it writes.
UpdatesAreNotFinal ==
  \A h \in Hook : hook[h].pc = "update" => payment[hook[h].payment].status \notin FinalStatus

LEMMA UpdatesAreNotFinalStep ==
  ASSUME \A g, h \in Hook : g = h,
         PayInv, UpdatesAreNotFinal, [PayNext]_allVars
  PROVE  /\ UpdatesAreNotFinal'
         /\ \A q \in PaymentId :
              payment[q].status \in FinalStatus => payment'[q].status = payment[q].status
<1> USE DEF PayInv, PayTypeOK, UpdatesAreNotFinal
<1>1. CASE ShopStep \/ UNCHANGED allVars
  BY <1>1 DEF ShopStep, allVars, payVars
<1>2. ASSUME NEW c \in Client, CreatePayment(c)
      PROVE  /\ UpdatesAreNotFinal'
             /\ \A q \in PaymentId :
                  payment[q].status \in FinalStatus => payment'[q].status = payment[q].status
  <2>1. client[c].payment \in PaymentId /\ payment[client[c].payment].status = "none"
    BY <1>2 DEF CreatePayment, CreatesAreFresh
  <2> QED
    BY <1>2, <2>1 DEF CreatePayment, FinalStatus, PaymentStatus, HooksHavePayments
<1>3. ASSUME NEW c \in Client, ClientStep(c), ~CreatePayment(c)
      PROVE  UNCHANGED <<payment, hook>>
  BY <1>3 DEF ClientStep, InitiatePayment, CancelExpired, FindActivePayment, CallSnap,
     InitiateFails
<1>4. ASSUME NEW q \in PaymentId, SnapStep(q)
      PROVE  UNCHANGED <<payment, hook>>
  BY <1>4 DEF SnapStep, SnapPending, SnapChallenges, SnapSettles, SnapDenies, SnapExpires,
     SnapRefunds, SnapAuthorizes, SnapMoves
<1>5. ASSUME NEW h \in Hook, UpdatePayment(h)
      PROVE  /\ UpdatesAreNotFinal'
             /\ \A q \in PaymentId :
                  payment[q].status \in FinalStatus => payment'[q].status = payment[q].status
  BY <1>5, NoHookIdle DEF UpdatePayment, HookGoes, HookEnds, HooksHavePayments, HookRequest, PaymentRow
<1>6. ASSUME NEW h \in Hook, ReadPayment(h)
      PROVE  UNCHANGED payment /\ UpdatesAreNotFinal'
  BY <1>6, NoHookIdle DEF ReadPayment, HookGoes, HookEnds, HooksHavePayments, HookRequest,
     FinalStatus, PaymentStatus, IsFinalPaymentStatus
<1>7. ASSUME NEW h \in Hook,
             \/ Confirm(h) \/ ClearCart(h) \/ WebhookFails(h) \/ ServerCrashes(h)
             \/ \E m \in Notification : ReceiveWebhook(h, m)
      PROVE  UNCHANGED payment /\ UpdatesAreNotFinal'
  BY <1>7, NoHookIdle DEF Confirm, ClearCart, WebhookFails, ServerCrashes, ReceiveWebhook, HookGoes,
     HookEnds, HookRequest
<1> QED
  BY <1>1, <1>2, <1>3, <1>4, <1>5, <1>6, <1>7 DEF PayNext, HookStatement

\* A final payment status is final while webhooks are handled one at a time;
\* MCPaymentsOverwrite shows how two overwrite each other's.
THEOREM FinalIsFinal ==
  ASSUME \A g, h \in Hook : g = h
  PROVE  PaySpec => FinalStaysFinal
<1>1. PayInit => UpdatesAreNotFinal
  BY DEF PayInit, UpdatesAreNotFinal, NoHook
<1>2. PayInv /\ UpdatesAreNotFinal /\ [PayNext]_allVars => UpdatesAreNotFinal'
  BY UpdatesAreNotFinalStep
<1>3. PayInv /\ UpdatesAreNotFinal /\ [PayNext]_allVars =>
        [\A q \in PaymentId :
           payment[q].status \in FinalStatus => payment'[q].status = payment[q].status]_allVars
  BY UpdatesAreNotFinalStep
<1> QED
  BY <1>1, <1>2, <1>3, PaymentsInvariance, PTL DEF PaySpec, FinalStaysFinal

-----------------------------------------------------------------------------
(***************************************************************************)
(* What the order service's invariants are worth to payments, and what is  *)
(* in somebody's hands.                                                    *)
(***************************************************************************)

\* A cart row is in one PENDING order at most, an order has only rows of its
\* owner and total_sold counts completed orders, with payments as well.
COROLLARY PaymentsKeepOrders ==
  PaySpec => [](OnePendingPerCartItem /\ OwnLines /\ SoldMatchesCompleted)
BY PaymentsAreOrders, OnePending, LinesAreOwn, SoldIsCompleted, PTL

\* An order that exists stays, and does not become PENDING again.
LEMMA NeverPendingAgain ==
  ASSUME TypeOK, [ConcurrentNext]_vars, NEW o \in OrderId
  PROVE  /\ status[o] # "none" => status'[o] # "none"
         /\ status'[o] = "PENDING" => status[o] \in {"none", "PENDING"}
<1> USE DEF TypeOK
<1>1. CASE ProductStep \/ CartStep \/ UNCHANGED vars
  BY <1>1, NotOrders
<1>2. ASSUME NEW r \in OrderId, CancelOrder(r) \/ CancelExpiredOrder(r)
      PROVE  /\ status[o] # "none" => status'[o] # "none"
             /\ status'[o] = "PENDING" => status[o] = "PENDING"
  BY <1>2 DEF CancelOrder, CancelExpiredOrder, CancelAndRestock
<1>3. ASSUME NEW r \in OrderId, ConfirmOrder(r) \/ CompleteOrder(r) \/ Expire(r)
      PROVE  /\ status[o] # "none" => status'[o] # "none"
             /\ status'[o] = "PENDING" => status[o] = "PENDING"
  BY <1>3 DEF ConfirmOrder, CompleteOrder, RecordSale, Expire
<1>4. ASSUME NEW u \in User, NEW I \in SUBSET CartItem, CheckoutTx(u, I)
      PROVE  /\ status[o] # "none" => status'[o] # "none"
             /\ status'[o] = "PENDING" => status[o] \in {"none", "PENDING"}
  BY <1>4 DEF CheckoutTx
<1> QED
  BY <1>1, <1>2, <1>3, <1>4 DEF ConcurrentNext, OrderStep

\* Requests and payments are about orders that were placed.
OrdersArePlaced ==
  /\ \A c \in Client : client[c].pc # "idle" => status[client[c].order] # "none"
  /\ \A q \in PaymentId : payment[q].status # "none" => status[payment[q].order] # "none"

\* What a step does to the payments and to the requests that run: rows keep
\* their order, only CreatePayment adds one.
LEMMA RowsStay ==
  ASSUME PayInv, [PayNext]_allVars, NEW q \in PaymentId
  PROVE  \/ /\ payment'[q].order = payment[q].order
            /\ payment'[q].status = "none" <=> payment[q].status = "none"
         \/ \E c \in Client : /\ CreatePayment(c) /\ q = client[c].payment
                              /\ payment[q].status = "none"
                              /\ payment'[q].status = "PENDING_PAYMENT"
                              /\ payment'[q].order = client[c].order
<1> USE DEF PayInv, PayTypeOK
<1>1. CASE UNCHANGED payment
  BY <1>1
<1>2. ASSUME NEW c \in Client, CreatePayment(c)
      PROVE  \/ payment'[q] = payment[q]
             \/ /\ q = client[c].payment /\ payment[q].status = "none"
                /\ payment'[q].status = "PENDING_PAYMENT"
                /\ payment'[q].order = client[c].order
  BY <1>2 DEF CreatePayment, CreatesAreFresh
<1>3. ASSUME NEW h \in Hook, UpdatePayment(h)
      PROVE  /\ payment'[q].order = payment[q].order
             /\ payment'[q].status = "none" <=> payment[q].status = "none"
  <2>1. /\ payment[hook[h].payment].status # "none"
        /\ MapMidtransStatus(hook[h].status) \in PaymentStatus
    BY <1>3, MappedStatus DEF UpdatePayment, HooksHavePayments
  <2>2. payment' = [payment EXCEPT ![hook[h].payment].status =
                      MapMidtransStatus(hook[h].status)]
    BY <1>3 DEF UpdatePayment
  <2> QED
    BY <2>1, <2>2 DEF PaymentRow, PaymentStatus
<1>4. \/ UNCHANGED payment
      \/ \E c \in Client : CreatePayment(c)
      \/ \E h \in Hook : UpdatePayment(h)
  BY DEF PayNext, ShopStep, ClientStep, SnapStep, HookStatement, InitiatePayment, CancelExpired,
     FindActivePayment, CallSnap, InitiateFails, SnapPending, SnapChallenges, SnapSettles,
     SnapDenies, SnapExpires, SnapRefunds, SnapAuthorizes, SnapMoves, ReceiveWebhook,
     ReadPayment, Confirm, ClearCart, WebhookFails, ServerCrashes, allVars, payVars
<1> QED
  BY <1>1, <1>2, <1>3, <1>4

LEMMA RequestsStay ==
  ASSUME PayInv, [PayNext]_allVars, NEW c \in Client, client'[c].pc # "idle"
  PROVE  \/ client[c].pc # "idle" /\ client'[c].order = client[c].order
         \/ status[client'[c].order] = "PENDING" /\ UNCHANGED vars
<1> USE DEF PayInv, PayTypeOK, ClientGoes, ClientEnds, NoRequest, Request
<1>1. CASE UNCHANGED client
  BY <1>1
<1>2. ASSUME NEW d \in Client, NEW o \in OrderId, InitiatePayment(d, o)
      PROVE  \/ client[c].pc # "idle" /\ client'[c].order = client[c].order
             \/ status[client'[c].order] = "PENDING" /\ UNCHANGED vars
  BY <1>2 DEF InitiatePayment
<1>3. ASSUME NEW d \in Client,
             CancelExpired(d) \/ FindActivePayment(d) \/ CallSnap(d) \/ CreatePayment(d)
               \/ InitiateFails(d)
      PROVE  client[c].pc # "idle" /\ client'[c].order = client[c].order
  BY <1>3 DEF CancelExpired, FindActivePayment, CallSnap, CreatePayment, InitiateFails
<1>4. \/ UNCHANGED client
      \/ \E d \in Client : ClientStep(d)
  BY DEF PayNext, ShopStep, SnapStep, HookStatement, SnapPending, SnapChallenges, SnapSettles,
     SnapDenies, SnapExpires, SnapRefunds, SnapAuthorizes, SnapMoves, ReceiveWebhook,
     ReadPayment, UpdatePayment, Confirm, ClearCart, WebhookFails, ServerCrashes, allVars,
     payVars
<1> QED
  BY <1>1, <1>2, <1>3, <1>4 DEF ClientStep

LEMMA PlacedStep == PayInv /\ OrdersArePlaced /\ [PayNext]_allVars => OrdersArePlaced'
<1> SUFFICES ASSUME PayInv, OrdersArePlaced, [PayNext]_allVars
             PROVE  OrdersArePlaced'
  OBVIOUS
<1>1. \A o \in OrderId : status[o] # "none" => status'[o] # "none"
  BY PayStepIsOrdersStep, NeverPendingAgain DEF PayInv, PayTypeOK
<1>2. ASSUME NEW c \in Client, client'[c].pc # "idle"
      PROVE  status'[client'[c].order] # "none"
  <2>1. CASE client[c].pc # "idle" /\ client'[c].order = client[c].order
    BY <1>1, <2>1 DEF OrdersArePlaced, PayInv, RequestsHaveOrders
  <2>2. CASE status[client'[c].order] = "PENDING" /\ UNCHANGED vars
    BY <2>2 DEF vars, orderVars
  <2> QED BY <1>2, <2>1, <2>2, RequestsStay
<1>3. ASSUME NEW q \in PaymentId, payment'[q].status # "none"
      PROVE  status'[payment'[q].order] # "none"
  <2>1. CASE payment'[q].order = payment[q].order /\ payment[q].status # "none"
    <3>1. payment[q].order \in OrderId
      BY <2>1 DEF PayInv, PayTypeOK, PaymentRow
    <3> QED BY <1>1, <2>1, <3>1 DEF OrdersArePlaced
  <2>2. ASSUME NEW c \in Client, CreatePayment(c), payment'[q].order = client[c].order
        PROVE  status'[payment'[q].order] # "none"
    BY <1>1, <2>2 DEF CreatePayment, OrdersArePlaced, PayInv, RequestsHaveOrders
  <2> QED BY <1>3, <2>1, <2>2, RowsStay
<1> QED BY <1>2, <1>3 DEF OrdersArePlaced

\* What a step does to webhooks.
LEMMA HooksMove ==
  ASSUME PayInv, [PayNext]_allVars, NEW h \in Hook
  PROVE  \/ hook'[h] = hook[h]
         \/ hook[h].pc = "idle" /\ \E m \in Notification : ReceiveWebhook(h, m)
         \/ hook[h].pc # "idle" /\ (HookStatement(h) \/ WebhookFails(h) \/ ServerCrashes(h))
<1> USE DEF PayInv, PayTypeOK
<1>1. CASE UNCHANGED hook
  BY <1>1
<1>2. ASSUME NEW g \in Hook,
             \/ \E m \in Notification : ReceiveWebhook(g, m)
             \/ HookStatement(g) \/ WebhookFails(g) \/ ServerCrashes(g)
      PROVE  g # h => hook'[h] = hook[h]
  BY <1>2 DEF ReceiveWebhook, HookStatement, ReadPayment, UpdatePayment, Confirm, ClearCart,
     WebhookFails, ServerCrashes, HookGoes, HookEnds
<1>3. /\ HookStatement(h) \/ WebhookFails(h) \/ ServerCrashes(h) => hook[h].pc # "idle"
      /\ \A m \in Notification : ReceiveWebhook(h, m) => hook[h].pc = "idle"
  BY DEF ReceiveWebhook, HookStatement, ReadPayment, UpdatePayment, Confirm, ClearCart,
     WebhookFails, ServerCrashes
<1>4. \/ UNCHANGED hook
      \/ \E g \in Hook, m \in Notification : ReceiveWebhook(g, m)
      \/ \E g \in Hook : HookStatement(g) \/ WebhookFails(g) \/ ServerCrashes(g)
  BY DEF PayNext, ShopStep, ClientStep, SnapStep, InitiatePayment, CancelExpired,
     FindActivePayment, CallSnap, CreatePayment, InitiateFails, SnapPending, SnapChallenges,
     SnapSettles, SnapDenies, SnapExpires, SnapRefunds, SnapAuthorizes, SnapMoves, allVars,
     payVars
<1> QED
  BY <1>1, <1>2, <1>3, <1>4

\* Errors and crashes are counted up.
LEMMA FaultsStay ==
  ASSUME PayInv, [PayNext]_allVars
  PROVE  (errors > 0 => errors' > 0) /\ (crashes > 0 => crashes' > 0)
<1>1. errors \in Nat /\ crashes \in Nat
  BY PaymentsAssumption DEF PayInv, PayTypeOK
<1>2. errors' \in {errors, errors + 1} /\ crashes' \in {crashes, crashes + 1}
  BY DEF PayNext, ShopStep, ClientStep, SnapStep, HookStatement, InitiatePayment, CancelExpired,
     FindActivePayment, CallSnap, CreatePayment, InitiateFails, SnapPending, SnapChallenges,
     SnapSettles, SnapDenies, SnapExpires, SnapRefunds, SnapAuthorizes, SnapMoves,
     ReceiveWebhook, ReadPayment, UpdatePayment, Confirm, ClearCart, WebhookFails,
     ServerCrashes, allVars, payVars
<1> QED BY <1>1, <1>2

\* Only UpdatePayment and CreatePayment write a status.
LEMMA StatusWritten ==
  ASSUME PayInv, [PayNext]_allVars, NEW q \in PaymentId, payment'[q].status # payment[q].status
  PROVE  \/ payment[q].status = "none" /\ payment'[q].status = "PENDING_PAYMENT"
         \/ \E h \in Hook : /\ UpdatePayment(h) /\ hook[h].payment = q
                            /\ payment'[q].status = MapMidtransStatus(hook[h].status)
<1> USE DEF PayInv, PayTypeOK
<1>1. ASSUME NEW c \in Client, CreatePayment(c)
      PROVE  payment[q].status = "none" /\ payment'[q].status = "PENDING_PAYMENT"
  BY <1>1 DEF CreatePayment, CreatesAreFresh
<1>2. ASSUME NEW h \in Hook, UpdatePayment(h)
      PROVE  hook[h].payment = q /\ payment'[q].status = MapMidtransStatus(hook[h].status)
  BY <1>2 DEF UpdatePayment, PaymentRow
<1>3. \/ UNCHANGED payment
      \/ \E c \in Client : CreatePayment(c)
      \/ \E h \in Hook : UpdatePayment(h)
  BY DEF PayNext, ShopStep, ClientStep, SnapStep, HookStatement, InitiatePayment, CancelExpired,
     FindActivePayment, CallSnap, InitiateFails, SnapPending, SnapChallenges, SnapSettles,
     SnapDenies, SnapExpires, SnapRefunds, SnapAuthorizes, SnapMoves, ReceiveWebhook,
     ReadPayment, Confirm, ClearCart, WebhookFails, ServerCrashes, allVars, payVars
<1> QED
  BY <1>1, <1>2, <1>3

LEMMA SuccessInHandStep ==
  PayInv /\ OrdersArePlaced /\ SuccessIsInHand /\ [PayNext]_allVars => SuccessIsInHand'
<1> SUFFICES ASSUME PayInv, OrdersArePlaced, SuccessIsInHand, [PayNext]_allVars,
                    NEW q \in PaymentId, payment'[q].status = "SUCCESS",
                    status'[payment'[q].order] = "PENDING", ~(errors' > 0), ~(crashes' > 0)
             PROVE  \E h \in Hook : hook'[h].payment = q /\ hook'[h].pc = "confirm"
  BY DEF SuccessIsInHand
<1>1. ~(errors > 0) /\ ~(crashes > 0)
  BY FaultsStay
<1>2. payment'[q].order = payment[q].order /\ payment[q].status # "none"
  BY RowsStay
<1>3. payment[q].order \in OrderId /\ status[payment[q].order] = "PENDING"
  <2>1. payment[q].order \in OrderId /\ status[payment[q].order] # "none"
    BY <1>2 DEF PayInv, PayTypeOK, PaymentRow, OrdersArePlaced
  <2>2. [ConcurrentNext]_vars /\ TypeOK
    BY PayStepIsOrdersStep DEF PayInv, PayTypeOK
  <2> QED BY <1>2, <2>1, <2>2, NeverPendingAgain
<1>4. CASE payment[q].status # "SUCCESS"
  <2>1. PICK h \in Hook : /\ UpdatePayment(h) /\ hook[h].payment = q
                          /\ MapMidtransStatus(hook[h].status) = "SUCCESS"
    BY <1>2, <1>4, StatusWritten
  <2>2. hook' = [hook EXCEPT ![h].pc = "confirm"]
    BY <2>1 DEF UpdatePayment, ConfirmsOrder, HookGoes
  <2> QED BY <2>1, <2>2 DEF PayInv, PayTypeOK, HookRequest
<1>5. CASE payment[q].status = "SUCCESS"
  <2>1. PICK h \in Hook : hook[h].payment = q /\ hook[h].pc = "confirm"
    BY <1>1, <1>3, <1>5 DEF SuccessIsInHand
  <2>2. CASE hook'[h] = hook[h]
    BY <2>1, <2>2
  <2>3. CASE WebhookFails(h) \/ ServerCrashes(h)
    <3>1. errors \in Nat /\ crashes \in Nat /\ (errors' = errors + 1 \/ crashes' = crashes + 1)
      BY <2>3, PaymentsAssumption DEF WebhookFails, ServerCrashes, PayInv, PayTypeOK
    <3> QED BY <3>1
  <2>4. CASE Confirm(h)
    <3>1. ConfirmPaidOrder(payment[q].order)
      BY <2>1, <2>4 DEF Confirm, HookOrder
    <3>2. status'[payment[q].order] = "CONFIRMED"
      BY <1>3, <3>1 DEF ConfirmPaidOrder, ConfirmOrder, PayInv, PayTypeOK, TypeOK
    <3> QED BY <1>2, <3>2
  <2>5. ~ReadPayment(h) /\ ~UpdatePayment(h) /\ ~ClearCart(h)
    BY <2>1 DEF ReadPayment, UpdatePayment, ClearCart
  <2> QED BY <2>1, <2>2, <2>3, <2>4, <2>5, HooksMove DEF HookStatement
<1> QED BY <1>4, <1>5

\* However many webhooks run, a payment that is SUCCESS while its order is
\* PENDING is about to confirm it, unless a statement failed or the server died.
THEOREM SuccessesAreInHand == PaySpec => []SuccessIsInHand
<1>1. PayInit => OrdersArePlaced /\ SuccessIsInHand
  BY DEF PayInit, OrdersArePlaced, SuccessIsInHand, NoRequest
<1> QED
  BY <1>1, PlacedStep, SuccessInHandStep, PaymentsInvariance, PTL DEF PaySpec

\* Rows in carts and in orders were given their ids, which are never given again.
RowsAreUsed ==
  /\ \A i \in CartItem : Live(i) => i \in usedItems
  /\ \A o \in OrderId, i \in CartItem : lines[o][i] > 0 => i \in usedItems

LEMMA RowsAreUsedStep ==
  TypeOK /\ RowsAreUsed /\ [ConcurrentNext]_vars => RowsAreUsed'
<1> SUFFICES ASSUME TypeOK, RowsAreUsed, [ConcurrentNext]_vars
             PROVE  RowsAreUsed'
  OBVIOUS
<1> USE DEF RowsAreUsed, TypeOK
<1>1. CASE ProductStep
  BY <1>1 DEF ProductStep, UpdateProductStatus, DeleteProduct, RestoreProduct, cartVars,
     orderVars, Live
<1>2. CASE CartStep
  <2>1. ASSUME NEW i \in CartItem, NEW n \in 1..MaxQty, AddItemTx(i, n)
        PROVE  RowsAreUsed'
    BY <2>1 DEF AddItemTx, Live, orderVars
  <2>2. ASSUME NEW i \in CartItem, NEW n \in 1..MaxQty, UpdateItemQuantity(i, n)
        PROVE  RowsAreUsed'
    BY <2>2 DEF UpdateItemQuantity, Live, orderVars
  <2>3. ASSUME NEW I, RemoveRows(I)
        PROVE  RowsAreUsed'
    BY <2>3 DEF RemoveRows, Live, orderVars
  <2> QED
    BY <1>2, <2>1, <2>2, <2>3 DEF CartStep, RowStep, ClearStep, DeleteItem, ClearItems,
       ClearItemsByIDs
<1>3. CASE OrderStep
  BY <1>3 DEF OrderStep, CancelOrder, CancelExpiredOrder, CancelAndRestock, ConfirmOrder,
     CompleteOrder, RecordSale, Expire, cartVars, Live
<1>4. ASSUME NEW u \in User, NEW I \in SUBSET CartItem, CheckoutTx(u, I)
      PROVE  RowsAreUsed'
  <2>1. PICK o \in OrderId :
          lines' = [lines EXCEPT ![o] = [i \in CartItem |-> IF i \in I THEN cartQty[i] ELSE 0]]
    BY <1>4 DEF CheckoutTx
  <2>2. \A i \in I : Live(i)
    BY <1>4 DEF CheckoutTx, OwnRows
  <2>3. UNCHANGED cartVars
    BY <1>4 DEF CheckoutTx
  <2> QED
    BY <2>1, <2>2, <2>3 DEF Live, cartVars
<1>5. CASE UNCHANGED vars
  BY <1>5 DEF vars, cartVars, orderVars, Live
<1> QED
  BY <1>1, <1>2, <1>3, <1>4, <1>5 DEF ConcurrentNext

\* A row that was deleted does not come back, and an order keeps its lines.
LEMMA RowsStayGone ==
  ASSUME TypeOK, [ConcurrentNext]_vars, NEW i \in CartItem, i \in usedItems, Live(i)'
  PROVE  Live(i)
<1> USE DEF TypeOK, Live
<1>1. CASE CartStep
  BY <1>1 DEF CartStep, AddItemTx, RowStep, ClearStep, UpdateItemQuantity, DeleteItem, ClearItems,
     ClearItemsByIDs, RemoveRows
<1>2. CASE UNCHANGED cartVars
  BY <1>2 DEF cartVars
<1>3. CartStep \/ UNCHANGED cartVars
  BY DEF ConcurrentNext, ProductStep, UpdateProductStatus, DeleteProduct, RestoreProduct,
     OrderStep, CancelOrder, CancelExpiredOrder, CancelAndRestock, ConfirmOrder, CompleteOrder,
     RecordSale, Expire, CheckoutTx, vars
<1> QED
  BY <1>1, <1>2, <1>3

LEMMA LinesStay ==
  ASSUME TypeOK, [ConcurrentNext]_vars, NEW o \in OrderId, status[o] # "none"
  PROVE  lines'[o] = lines[o]
<1>1. CASE \E u \in User, I \in (SUBSET CartItem) \ {{}} : CheckoutTx(u, I)
  <2>1. PICK r, l :
          /\ r \in OrderId /\ status[r] = "none"
          /\ lines' = [lines EXCEPT ![r] = l]
    BY <1>1 DEF CheckoutTx
  <2> QED
    BY <2>1 DEF TypeOK
<1>2. CASE UNCHANGED lines
  BY <1>2
<1>3. \/ \E u \in User, I \in (SUBSET CartItem) \ {{}} : CheckoutTx(u, I)
      \/ UNCHANGED lines
  BY DEF ConcurrentNext, ProductStep, UpdateProductStatus, DeleteProduct, RestoreProduct,
     CartStep, AddItemTx, RowStep, ClearStep, UpdateItemQuantity, DeleteItem, ClearItems,
     ClearItemsByIDs, RemoveRows, OrderStep, CancelOrder, CancelExpiredOrder, CancelAndRestock, ConfirmOrder, CompleteOrder,
     RecordSale, Expire, orderVars, vars
<1> QED
  BY <1>1, <1>2, <1>3

\* An order that was not confirmed yet is confirmed by a webhook, which is about
\* to clear its rows.
LEMMA ConfirmedByHook ==
  ASSUME PayInv, [PayNext]_allVars, NEW o \in Confirmed', o \notin Confirmed
  PROVE  \E h \in Hook : hook'[h].pc = "clear" /\ HookOrder(h)' = o
<1>1. ~(ShopStep \/ (\E c \in Client : CancelExpired(c)) \/ UNCHANGED vars)
  BY OnlyWebhooksConfirm DEF PayInv, PayTypeOK
<1>2. PICK h \in Hook : Confirm(h) \/ ClearCart(h)
  BY <1>1 DEF PayNext, ClientStep, SnapStep, HookStatement, InitiatePayment, FindActivePayment,
     CallSnap, CreatePayment, InitiateFails, SnapPending, SnapChallenges, SnapSettles,
     SnapDenies, SnapExpires, SnapRefunds, SnapAuthorizes, SnapMoves, ReceiveWebhook,
     ReadPayment, UpdatePayment, WebhookFails, ServerCrashes, allVars
<1>3. ~ClearCart(h)
  BY DEF ClearCart, ClearItemsByIDs, RemoveRows, orderVars, Confirmed, WithStatus
<1>4. ConfirmOrder(HookOrder(h)) /\ hook' = [hook EXCEPT ![h].pc = "clear"] /\ UNCHANGED payment
  BY <1>1, <1>2, <1>3 DEF Confirm, ConfirmPaidOrder, ConfirmOrder, HookGoes
<1>5. o = HookOrder(h)
  BY <1>4 DEF ConfirmOrder, Confirmed, WithStatus, PayInv, PayTypeOK, TypeOK
<1> QED
  BY <1>4, <1>5 DEF HookOrder, PayInv, PayTypeOK, HookRequest

LEMMA PaidRowsInHandStep ==
  PayInv /\ RowsAreUsed /\ PaidRowsAreInHand /\ [PayNext]_allVars => PaidRowsAreInHand'
<1> SUFFICES ASSUME PayInv, RowsAreUsed, PaidRowsAreInHand, [PayNext]_allVars,
                    NEW o \in Confirmed', NEW i \in CartItem, lines'[o][i] > 0, Live(i)',
                    ~(errors' > 0), ~(crashes' > 0)
             PROVE  \E h \in Hook : hook'[h].pc = "clear" /\ HookOrder(h)' = o
  BY DEF PaidRowsAreInHand, Confirmed
<1>1. CASE o \notin Confirmed
  BY <1>1, ConfirmedByHook
<1>2. CASE o \in Confirmed
  <2>1. o \in OrderId /\ status[o] # "none" /\ TypeOK /\ [ConcurrentNext]_vars
    BY <1>2, PayStepIsOrdersStep DEF Confirmed, WithStatus, PayInv, PayTypeOK
  <2>2. lines[o][i] > 0 /\ Live(i)
    BY <2>1, LinesStay, RowsStayGone DEF RowsAreUsed
  <2>3. ~(errors > 0) /\ ~(crashes > 0)
    BY FaultsStay
  <2>4. PICK h \in Hook : hook[h].pc = "clear" /\ HookOrder(h) = o
    BY <1>2, <2>2, <2>3 DEF PaidRowsAreInHand, Confirmed
  <2>5. CASE hook'[h] = hook[h]
    <3>1. hook[h].payment \in PaymentId /\ payment[hook[h].payment].status # "none"
      BY <2>4 DEF PayInv, HooksHavePayments
    <3>2. payment'[hook[h].payment].order = payment[hook[h].payment].order
      BY <3>1, RowsStay
    <3> QED
      BY <2>4, <2>5, <3>2 DEF HookOrder
  <2>6. CASE WebhookFails(h) \/ ServerCrashes(h)
    <3>1. errors \in Nat /\ crashes \in Nat /\ (errors' = errors + 1 \/ crashes' = crashes + 1)
      BY <2>6, PaymentsAssumption DEF WebhookFails, ServerCrashes, PayInv, PayTypeOK
    <3> QED BY <3>1
  <2>7. CASE ClearCart(h)
    <3>1. i \in OrderedRows(HookOrder(h))
      BY <2>2, <2>4 DEF OrderedRows
    <3> QED
      BY <2>7, <3>1 DEF ClearCart, ClearItemsByIDs, RemoveRows, Live
  <2>8. ~ReadPayment(h) /\ ~UpdatePayment(h) /\ ~Confirm(h)
    BY <2>4 DEF ReadPayment, UpdatePayment, Confirm
  <2> QED BY <2>4, <2>5, <2>6, <2>7, <2>8, HooksMove DEF HookStatement
<1> QED BY <1>1, <1>2

\* However many webhooks run and whatever customers do to their carts meanwhile,
\* what was paid is not in a cart unless a webhook is about to clear it, a
\* statement failed or the server died.
THEOREM PaidRowsAreCleared == PaySpec => []PaidRowsAreInHand
<1>1. PayInit => RowsAreUsed /\ PaidRowsAreInHand
  BY DEF PayInit, Init, RowsAreUsed, PaidRowsAreInHand, Live, WithStatus
<1>2. PayInv /\ RowsAreUsed /\ [PayNext]_allVars => RowsAreUsed'
  BY PayStepIsOrdersStep, RowsAreUsedStep DEF PayInv, PayTypeOK
<1> QED
  BY <1>1, <1>2, PaidRowsInHandStep, PaymentsInvariance, PTL DEF PaySpec

\* Nobody overwrites a final status with PENDING_PAYMENT: one webhook runs at a
\* time, or Midtrans reports no "pending".
NoReopening == (\A g, h \in Hook : g = h) \/ "pending" \notin Sends

\* UpdatesAreNotFinal, as far as it holds.
SerialUpdates == (\A g, h \in Hook : g = h) => UpdatesAreNotFinal

LEMMA SerialUpdatesStep == PayInv /\ SerialUpdates /\ [PayNext]_allVars => SerialUpdates'
BY UpdatesAreNotFinalStep DEF SerialUpdates

LEMMA FinalStays ==
  ASSUME NoReopening, PayInv, SerialUpdates, [PayNext]_allVars,
         NEW q \in PaymentId, payment[q].status \in FinalStatus
  PROVE  payment'[q].status \in FinalStatus
<1>1. CASE \A g, h \in Hook : g = h
  BY <1>1, UpdatesAreNotFinalStep DEF SerialUpdates
<1>2. CASE "pending" \notin Sends
  <2>1. ASSUME NEW h \in Hook, UpdatePayment(h)
        PROVE  MapMidtransStatus(hook[h].status) \in FinalStatus
    <3>1. hook[h].status \in Sends /\ MapMidtransStatus(hook[h].status) # "ignored"
      BY <2>1 DEF UpdatePayment, PayInv, HooksHavePayments
    <3> QED BY <1>2, <3>1 DEF MapMidtransStatus, FinalStatus, PaymentStatus
  <2>2. payment[q].status # "none"
    BY DEF FinalStatus, PaymentStatus
  <2> QED BY <2>1, <2>2, StatusWritten
<1> QED BY <1>1, <1>2 DEF NoReopening

\* A settled payment settled before, or its notification is on its way now.
LEMMA SettlesOnce ==
  ASSUME PayInv, [PayNext]_allVars, NEW q \in PaymentId, snap'[q] = "settled"
  PROVE  snap[q] = "settled" \/ [payment |-> q, status |-> "settlement"] \in inbox'
<1> USE DEF PayInv, PayTypeOK, SnapMoves
<1>1. CASE UNCHANGED snap
  BY <1>1
<1>2. ASSUME NEW c \in Client, CallSnap(c)
      PROVE  snap[q] = "settled"
  BY <1>2 DEF CallSnap
<1>3. ASSUME NEW r \in PaymentId, SnapSettles(r)
      PROVE  snap[q] = "settled" \/ [payment |-> q, status |-> "settlement"] \in inbox'
  BY <1>3 DEF SnapSettles
<1>4. ASSUME NEW r \in PaymentId,
             \/ SnapPending(r) \/ SnapChallenges(r) \/ SnapDenies(r) \/ SnapExpires(r)
             \/ SnapRefunds(r) \/ SnapAuthorizes(r)
      PROVE  snap[q] = "settled"
  BY <1>4 DEF SnapPending, SnapChallenges, SnapDenies, SnapExpires, SnapRefunds, SnapAuthorizes
<1>5. \/ UNCHANGED snap
      \/ \E c \in Client : CallSnap(c)
      \/ \E r \in PaymentId : SnapStep(r)
  BY DEF PayNext, ShopStep, ClientStep, HookStatement, InitiatePayment, CancelExpired,
     FindActivePayment, CreatePayment, InitiateFails, ReceiveWebhook, ReadPayment,
     UpdatePayment, Confirm, ClearCart, WebhookFails, ServerCrashes, allVars, payVars
<1> QED
  BY <1>1, <1>2, <1>3, <1>4, <1>5 DEF SnapStep

\* A notification leaves the inbox when a webhook takes it.
LEMMA InboxShrinks ==
  ASSUME PayInv, [PayNext]_allVars, NEW m \in inbox, m \notin inbox'
  PROVE  \E h \in Hook : ReceiveWebhook(h, m)
<1>1. \/ inbox \subseteq inbox'
      \/ \E h \in Hook, n \in Notification : ReceiveWebhook(h, n)
  BY DEF PayNext, ShopStep, ClientStep, SnapStep, HookStatement, InitiatePayment, CancelExpired,
     FindActivePayment, CallSnap, CreatePayment, InitiateFails, SnapPending, SnapChallenges,
     SnapSettles, SnapDenies, SnapExpires, SnapRefunds, SnapAuthorizes, SnapMoves,
     ReadPayment, UpdatePayment, Confirm, ClearCart, WebhookFails, ServerCrashes, allVars,
     payVars
<1> QED
  BY <1>1 DEF ReceiveWebhook

LEMMA SettlementInHandStep ==
  ASSUME NoReopening, PayInv, SerialUpdates, SettlementIsInHand, [PayNext]_allVars
  PROVE  SettlementIsInHand'
<1> SUFFICES ASSUME NEW q \in PaymentId, snap'[q] = "settled",
                    payment'[q].status \notin FinalStatus,
                    [payment |-> q, status |-> "settlement"] \notin inbox', ~(errors' > 0)
             PROVE  \E h \in Hook : hook'[h].payment = q /\ hook'[h].status = "settlement"
                                      /\ hook'[h].pc \in {"read", "update"}
  BY DEF SettlementIsInHand
<1> DEFINE m == [payment |-> q, status |-> "settlement"]
           InHand(r) == r.payment = q /\ r.status = "settlement" /\ r.pc \in {"read", "update"}
<1>1. snap[q] = "settled" /\ payment[q].status \notin FinalStatus /\ ~(errors > 0)
  BY SettlesOnce, FinalStays, FaultsStay
<1>2. m \in inbox \/ \E h \in Hook : InHand(hook[h])
  BY <1>1 DEF SettlementIsInHand
<1>3. CASE m \in inbox
  <2>1. PICK h \in Hook : ReceiveWebhook(h, m)
    BY <1>3, InboxShrinks
  <2>2. hook' = [hook EXCEPT ![h] = [pc |-> "read", payment |-> q, status |-> "settlement"]]
    BY <2>1 DEF ReceiveWebhook
  <2> QED BY <2>2 DEF PayInv, PayTypeOK
<1>4. ASSUME NEW h \in Hook, InHand(hook[h])
      PROVE  InHand(hook'[h])
  <2>1. hook[h] \in HookRequest /\ hook \in [Hook -> HookRequest]
    BY DEF PayInv, PayTypeOK
  <2>2. CASE hook'[h] = hook[h]
    BY <1>4, <2>2
  <2>3. CASE WebhookFails(h)
    <3>1. errors \in Nat /\ errors' = errors + 1
      BY <2>3, PaymentsAssumption DEF WebhookFails, PayInv, PayTypeOK
    <3> QED BY <3>1
  <2>4. CASE ServerCrashes(h)
    BY <1>4, <2>4 DEF ServerCrashes
  <2>5. CASE ReadPayment(h)
    <3>1. payment[q].status # "none" /\ payment[q] \in PaymentRow
      BY <1>1 DEF PayInv, PayTypeOK, RowsHaveSnap
    <3>2. ~IsFinalPaymentStatus(payment[q].status)
      BY <1>1, <3>1 DEF IsFinalPaymentStatus, FinalStatus, PaymentStatus
    <3>3. MapMidtransStatus("settlement") # "ignored"
      BY DEF MapMidtransStatus
    <3>4. HookGoes(h, "update")
      BY <1>4, <2>5, <3>1, <3>2, <3>3 DEF ReadPayment
    <3> QED BY <1>4, <2>1, <3>4 DEF HookGoes, HookRequest
  <2>6. CASE UpdatePayment(h)
    <3>1. MapMidtransStatus("settlement") = "SUCCESS"
      BY DEF MapMidtransStatus
    <3>2. payment'[q].status = "SUCCESS"
      BY <1>4, <2>6, <3>1 DEF UpdatePayment, PayInv, PayTypeOK, PaymentRow
    <3> QED BY <3>2 DEF FinalStatus, PaymentStatus
  <2>7. hook[h].pc # "idle" /\ ~Confirm(h) /\ ~ClearCart(h)
    BY <1>4 DEF Confirm, ClearCart
  <2> QED BY <2>2, <2>3, <2>4, <2>5, <2>6, <2>7, HooksMove DEF HookStatement
<1> QED BY <1>2, <1>3, <1>4

\* No settlement is lost on its way, whatever is delivered again or out of order
\* and wherever the server dies: it is recorded, or still to be delivered, or a
\* webhook has it, or a statement failed.
THEOREM SettlementsAreInHand ==
  ASSUME NoReopening
  PROVE  PaySpec => []SettlementIsInHand
<1>1. PayInit => SerialUpdates /\ SettlementIsInHand
  BY DEF PayInit, SerialUpdates, UpdatesAreNotFinal, SettlementIsInHand, NoHook
<1>2. PayInv /\ SerialUpdates /\ SettlementIsInHand /\ [PayNext]_allVars => SettlementIsInHand'
  BY SettlementInHandStep
<1> QED
  BY <1>1, <1>2, SerialUpdatesStep, PaymentsInvariance, PTL DEF PaySpec

-----------------------------------------------------------------------------
(***************************************************************************)
(* One request of either kind at a time: one open payment for an order.    *)
(***************************************************************************)

\* No two open payments are for one order, and a request that is about to open
\* one still has none to return.
NoSecondPayment ==
  /\ \A q, r \in PaymentId :
       /\ payment[q].status = "PENDING_PAYMENT" /\ payment[r].status = "PENDING_PAYMENT"
       /\ payment[q].order = payment[r].order
       => q = r
  /\ \A c \in Client :
       client[c].pc \in {"snap", "create"} =>
         \A q \in PaymentId :
           payment[q].order = client[c].order => payment[q].status # "PENDING_PAYMENT"

\* A webhook that runs alone reopens nothing.
LEMMA OpenedByCreate ==
  ASSUME PayInv, UpdatesAreNotFinal, [PayNext]_allVars,
         NEW q \in PaymentId, payment'[q].status = "PENDING_PAYMENT"
  PROVE  \/ payment[q].status = "PENDING_PAYMENT" /\ payment'[q].order = payment[q].order
         \/ \E c \in Client : /\ CreatePayment(c) /\ q = client[c].payment
                              /\ payment'[q].order = client[c].order
<1>1. CASE payment[q].status = "PENDING_PAYMENT"
  BY <1>1, RowsStay
<1>2. CASE payment[q].status = "none"
  BY <1>2, RowsStay
<1>3. CASE payment[q].status \notin {"PENDING_PAYMENT", "none"}
  <2>1. PICK h \in Hook : UpdatePayment(h) /\ hook[h].payment = q
    BY <1>3, StatusWritten
  <2>2. payment[q].status \in FinalStatus
    BY <1>3 DEF FinalStatus, PayInv, PayTypeOK, PaymentRow
  <2> QED BY <2>1, <2>2 DEF UpdatePayment, UpdatesAreNotFinal
<1> QED BY <1>1, <1>2, <1>3

\* A request goes on to Snap when it finds no open payment.
LEMMA GoesToSnap ==
  ASSUME PayInv, [PayNext]_allVars, NEW c \in Client, client'[c].pc \in {"snap", "create"}
  PROVE  /\ client'[c].order = client[c].order
         /\ \/ client[c].pc \in {"snap", "create"}
            \/ PaymentsOf(client[c].order, {"PENDING_PAYMENT"}) = {}
         /\ ~CreatePayment(c)
<1> USE DEF PayInv, PayTypeOK, ClientGoes, ClientEnds, NoRequest, Request
<1>1. CASE UNCHANGED client
  BY <1>1 DEF CreatePayment
<1>2. ASSUME NEW d \in Client, NEW o \in OrderId, InitiatePayment(d, o)
      PROVE  client'[c] = client[c]
  BY <1>2 DEF InitiatePayment
<1>3. ASSUME NEW d \in Client, CancelExpired(d) \/ CreatePayment(d) \/ InitiateFails(d)
      PROVE  client'[c] = client[c] /\ c # d
  BY <1>3 DEF CancelExpired, CreatePayment, InitiateFails
<1>4. ASSUME NEW d \in Client, FindActivePayment(d)
      PROVE  /\ client'[c].order = client[c].order
             /\ \/ client[c].pc \in {"snap", "create"}
                \/ PaymentsOf(client[c].order, {"PENDING_PAYMENT"}) = {}
  <2>1. client \in [Client -> Request]
    OBVIOUS
  <2>2. CASE PaymentsOf(client[d].order, {"PENDING_PAYMENT"}) # {}
    <3>1. client' = [client EXCEPT ![d] = NoRequest]
      BY <1>4, <2>2 DEF FindActivePayment
    <3> QED BY ONLY <2>1, <3>1, c \in Client, d \in Client, client'[c].pc \in {"snap", "create"}
            DEF NoRequest
  <2>3. CASE PaymentsOf(client[d].order, {"PENDING_PAYMENT"}) = {}
    <3>1. client' = [client EXCEPT ![d].pc = "snap"]
      BY <1>4, <2>3 DEF FindActivePayment
    <3>2. client'[c].order = client[c].order /\ (c # d => client'[c].pc = client[c].pc)
      BY ONLY <2>1, <3>1, c \in Client, d \in Client DEF Request
    <3> QED BY ONLY <2>3, <3>2, client'[c].pc \in {"snap", "create"}
  <2> QED BY <2>2, <2>3
<1>5. ASSUME NEW d \in Client, CallSnap(d)
      PROVE  /\ client'[c].order = client[c].order
             /\ client[c].pc \in {"snap", "create"}
  <2>1. client[d].pc = "snap" /\ client[c] \in Request
    BY <1>5 DEF CallSnap
  <2>2. PICK q \in PaymentId :
          client' = [client EXCEPT ![d].pc = "create", ![d].payment = q]
    BY <1>5 DEF CallSnap
  <2>3. CASE c = d
    BY <2>1, <2>2, <2>3
  <2>4. CASE c # d
    BY <2>2, <2>4
  <2> QED BY <2>3, <2>4
<1>6. \/ UNCHANGED client
      \/ \E d \in Client : ClientStep(d)
  BY DEF PayNext, ShopStep, SnapStep, HookStatement, SnapPending, SnapChallenges, SnapSettles,
     SnapDenies, SnapExpires, SnapRefunds, SnapAuthorizes, SnapMoves, ReceiveWebhook,
     ReadPayment, UpdatePayment, Confirm, ClearCart, WebhookFails, ServerCrashes, allVars,
     payVars
<1>7. ~CreatePayment(c)
  BY <1>3
<1> QED
  BY <1>1, <1>2, <1>3, <1>4, <1>5, <1>6, <1>7 DEF ClientStep

LEMMA NoSecondStep ==
  ASSUME \A c, d \in Client : c = d,
         PayInv, UpdatesAreNotFinal, NoSecondPayment, [PayNext]_allVars
  PROVE  NoSecondPayment'
<1>1. ASSUME NEW q \in PaymentId, NEW c \in Client,
             CreatePayment(c), q = client[c].payment
      PROVE  \A r \in PaymentId :
               r # q /\ payment'[r].status = "PENDING_PAYMENT" =>
                 /\ payment[r].status = "PENDING_PAYMENT"
                 /\ payment'[r].order = payment[r].order
                 /\ payment[r].order # client[c].order
  <2>1. \A r \in PaymentId : r # q => payment'[r] = payment[r]
    BY <1>1 DEF CreatePayment, PayInv, PayTypeOK
  <2>2. client[c].pc = "create"
    BY <1>1 DEF CreatePayment
  <2> QED BY <2>1, <2>2 DEF NoSecondPayment
<1>2. ASSUME NEW q \in PaymentId, NEW r \in PaymentId,
             payment'[q].status = "PENDING_PAYMENT", payment'[r].status = "PENDING_PAYMENT",
             payment'[q].order = payment'[r].order
      PROVE  q = r
  <2>1. CASE \E c \in Client : /\ CreatePayment(c) /\ q = client[c].payment
                               /\ payment'[q].order = client[c].order
    BY <1>1, <1>2, <2>1
  <2>2. CASE \E c \in Client : /\ CreatePayment(c) /\ r = client[c].payment
                               /\ payment'[r].order = client[c].order
    BY <1>1, <1>2, <2>2
  <2> QED BY <1>2, <2>1, <2>2, OpenedByCreate DEF NoSecondPayment
<1>3. ASSUME NEW c \in Client, client'[c].pc \in {"snap", "create"},
             NEW q \in PaymentId, payment'[q].order = client'[c].order,
             payment'[q].status = "PENDING_PAYMENT"
      PROVE  FALSE
  <2>1. /\ client'[c].order = client[c].order
        /\ \/ client[c].pc \in {"snap", "create"}
           \/ PaymentsOf(client[c].order, {"PENDING_PAYMENT"}) = {}
        /\ \A d \in Client : ~CreatePayment(d)
    BY <1>3, GoesToSnap
  <2>2. payment[q].status = "PENDING_PAYMENT" /\ payment'[q].order = payment[q].order
    BY <1>3, <2>1, OpenedByCreate
  <2> QED BY <1>3, <2>1, <2>2 DEF NoSecondPayment, PaymentsOf
<1> QED BY <1>2, <1>3 DEF NoSecondPayment

LEMMA OneIsNoSecond == NoSecondPayment => OneActivePayment
<1> SUFFICES ASSUME NoSecondPayment, NEW o \in OrderId
             PROVE  Cardinality(PaymentsOf(o, {"PENDING_PAYMENT"})) <= 1
  BY DEF OneActivePayment
<1>1. CASE PaymentsOf(o, {"PENDING_PAYMENT"}) = {}
  BY <1>1, FS_EmptySet
<1>2. CASE PaymentsOf(o, {"PENDING_PAYMENT"}) # {}
  <2>1. PICK q : q \in PaymentsOf(o, {"PENDING_PAYMENT"})
    BY <1>2
  <2>2. PaymentsOf(o, {"PENDING_PAYMENT"}) = {q}
    BY <2>1 DEF NoSecondPayment, PaymentsOf
  <2>3. Cardinality({q}) = 1
    BY FS_Singleton
  <2> QED BY <2>2, <2>3
<1> QED BY <1>1, <1>2

\* While InitiatePayment and the webhook each run one at a time, an order has at
\* most one open payment, however many failed before it; MCPaymentsDouble shows
\* two requests that both open one.
THEOREM OneOpenPayment ==
  ASSUME \A c, d \in Client : c = d,
         \A g, h \in Hook : g = h
  PROVE  PaySpec => []OneActivePayment
<1>1. PayInit => UpdatesAreNotFinal /\ NoSecondPayment
  BY DEF PayInit, UpdatesAreNotFinal, NoSecondPayment, NoHook, NoRequest
<1>2. PayInv /\ UpdatesAreNotFinal /\ [PayNext]_allVars => UpdatesAreNotFinal'
  BY UpdatesAreNotFinalStep
<1>3. PayInv /\ UpdatesAreNotFinal /\ NoSecondPayment /\ [PayNext]_allVars => NoSecondPayment'
  BY NoSecondStep
<1> QED
  BY <1>1, <1>2, <1>3, OneIsNoSecond, PaymentsInvariance, PTL DEF PaySpec
=============================================================================
