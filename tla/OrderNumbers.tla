---------------------------- MODULE OrderNumbers ----------------------------
(***************************************************************************)
(* The part of Checkout from the day's order number to COMMIT              *)
(* (internal/service/order.go, lines 327-400), for checkouts that run on   *)
(* several servers around midnight.  The day of a number is the clock of   *)
(* the server, read before the advisory lock is asked for; clocks differ,  *)
(* so any day may come.  The products are locked after the number, in the  *)
(* order of the client's request.  OrderTx has the whole transaction, for  *)
(* a single day.                                                           *)
(***************************************************************************)
EXTENDS Integers, FiniteSets, Sequences

CONSTANTS
  Buyer,       \* checkouts that run at a time
  Day,         \* dates in WIB (dateKey)
  Wanted,      \* the sequences of products that checkouts order
  NoDay,
  MaxNumber    \* bound: how many orders a day has

ASSUME NumbersAssumption == NoDay \notin Day /\ MaxNumber \in Nat
ASSUME BuyerAssumption == IsFiniteSet(Buyer)

VARIABLES
  numbered,    \* numbered[d]: the order numbers of committed orders of day d
  buyer        \* buyer[b]: a checkout

numbersVars == <<numbered, buyer>>

\* The order of the statements.  Faulty: the products are locked first.
StepsProductsFirst == <<"lines", "date", "count", "insert", "commit">>
Steps == <<"date", "count", "insert", "lines", "commit">>

Place(step) == CHOOSE k \in DOMAIN Steps : Steps[k] = step
After(step) == Steps[Place(step) + 1]

\* b has done the step.
Past(b, step) == buyer[b].pc # "idle" /\ Place(buyer[b].pc) > Place(step)

NoBuyer == [pc |-> "idle", day |-> NoDay, number |-> 0, todo |-> <<>>, held |-> {}]

WantedProduct == UNION {{s[k] : k \in DOMAIN s} : s \in Wanted}

ASSUME WantedAssumption == Wanted \subseteq Seq(WantedProduct)

BuyerState ==
  [pc : {"idle", "date", "count", "insert", "lines", "commit"}, day : Day \cup {NoDay},
   number : 0..MaxNumber, todo : Seq(WantedProduct), held : SUBSET WantedProduct]

NumbersTypeOK ==
  /\ numbered \in [Day -> SUBSET (1..MaxNumber)]
  /\ buyer \in [Buyer -> BuyerState]

NumbersInit ==
  /\ numbered = [d \in Day |-> {}]
  /\ buyer = [b \in Buyer |-> NoBuyer]

-----------------------------------------------------------------------------
AbandonsOrder(b) == buyer' = [buyer EXCEPT ![b] = NoBuyer] /\ UNCHANGED numbered

\* now, dateKey and prefix.
ReadClock(b, day, wanted) ==
  /\ buyer[b].pc = "idle"
  /\ buyer' = [buyer EXCEPT ![b] =
       [NoBuyer EXCEPT !.pc = Steps[1], !.day = day, !.todo = wanted]]
  /\ UNCHANGED numbered

\* AcquireOrderNumberDateLock: a lock that lasts until the transaction ends.
\* Faulty: it ends once the order is inserted.
HoldsDateShortly(b, day) == Past(b, "date") /\ ~Past(b, "insert") /\ buyer[b].day = day
HoldsDate(b, day) == Past(b, "date") /\ buyer[b].day = day

LockDate(b) ==
  /\ buyer[b].pc = "date"
  /\ \A c \in Buyer : ~HoldsDate(c, buyer[b].day)
  /\ buyer' = [buyer EXCEPT ![b].pc = After("date")]
  /\ UNCHANGED numbered

\* CountOrdersByOrderNumberPrefix counts the committed orders of the day.
\* Faulty: of all days.
CountOfAll(day) == Cardinality({x \in Day \X (1..MaxNumber) : x[2] \in numbered[x[1]]})
CountOf(day) == Cardinality(numbered[day])

CountOrders(b) ==
  /\ buyer[b].pc = "count"
  /\ CountOf(buyer[b].day) < MaxNumber
  /\ buyer' = [buyer EXCEPT ![b].pc = After("count"), ![b].number = CountOf(buyer[b].day) + 1]
  /\ UNCHANGED numbered

\* Checkouts that inserted the number of b and are not committed: the unique
\* constraint orders_order_number_unique makes b wait for them.
SameNumber(b) ==
  {c \in Buyer \ {b} : /\ Past(c, "insert")
                       /\ buyer[c].day = buyer[b].day
                       /\ buyer[c].number = buyer[b].number}

InsertOrder(b) ==
  /\ buyer[b].pc = "insert"
  /\ SameNumber(b) = {}
  /\ IF buyer[b].number \in numbered[buyer[b].day]
     THEN AbandonsOrder(b)
     ELSE buyer' = [buyer EXCEPT ![b].pc = After("insert")] /\ UNCHANGED numbered

\* LockProductByIDForUpdate for the next line; after the last one COMMIT.
LockLine(b) ==
  /\ buyer[b].pc = "lines" /\ buyer[b].todo # <<>>
  /\ LET p == Head(buyer[b].todo)
     IN  /\ \A c \in Buyer \ {b} : p \notin buyer[c].held
         /\ buyer' = [buyer EXCEPT ![b].held = @ \cup {p}, ![b].todo = Tail(@)]
  /\ UNCHANGED numbered

LinesDone(b) ==
  /\ buyer[b].pc = "lines" /\ buyer[b].todo = <<>>
  /\ buyer' = [buyer EXCEPT ![b].pc = After("lines")]
  /\ UNCHANGED numbered

CommitOrderNumber(b) ==
  /\ buyer[b].pc = "commit"
  /\ numbered' = [numbered EXCEPT ![buyer[b].day] = @ \cup {buyer[b].number}]
  /\ buyer' = [buyer EXCEPT ![b] = NoBuyer]

\* A product is not available, stock is too low, a statement fails, the
\* deadlock detector or the client ends the request, or the server dies.
CheckoutFails(b) == buyer[b].pc # "idle" /\ AbandonsOrder(b)

NumbersNext ==
  \E b \in Buyer :
    \/ \E day \in Day, wanted \in Wanted : ReadClock(b, day, wanted)
    \/ LockDate(b)
    \/ CountOrders(b)
    \/ InsertOrder(b)
    \/ LockLine(b)
    \/ LinesDone(b)
    \/ CommitOrderNumber(b)
    \/ CheckoutFails(b)

NumbersSpec == NumbersInit /\ [][NumbersNext]_numbersVars

-----------------------------------------------------------------------------
(***************************************************************************)
(* Properties.                                                             *)
(***************************************************************************)

\* The orders of a day are numbered 1, 2, ... without a gap, although
\* checkouts roll back after they took a number and days interleave.
NumbersConsecutive == \A d \in Day : numbered[d] = 1..Cardinality(numbered[d])

\* No checkout ever loses its order to the unique constraint: the number it
\* counted is neither committed nor in use when it inserts the order.
NumberIsFree ==
  \A b \in Buyer :
    Past(b, "count") =>
      /\ buyer[b].number \notin numbered[buyer[b].day]
      /\ \A c \in Buyer \ {b} :
           Past(c, "count") /\ buyer[c].day = buyer[b].day
             => buyer[c].number # buyer[b].number

\* Checkouts that deadlock have numbers of different days: on one day the
\* date lock comes before the products, whatever order clients send them in;
\* around midnight, or with servers whose clocks differ, nothing orders them.
Awaited(b) ==
  CASE buyer[b].pc = "date" -> {c \in Buyer \ {b} : HoldsDate(c, buyer[b].day)}
    [] buyer[b].pc = "insert" -> SameNumber(b)
    [] buyer[b].pc = "lines" /\ buyer[b].todo # <<>> ->
         {c \in Buyer \ {b} : Head(buyer[b].todo) \in buyer[c].held}
    [] OTHER -> {}

DeadlocksSpanDays ==
  \A B \in SUBSET Buyer :
    B # {} /\ (\A b \in B : Awaited(b) \cap B # {})
      => Cardinality({buyer[b].day : b \in B}) > 1
=============================================================================
