---------------------------- MODULE ProductAdmin ----------------------------
(***************************************************************************)
(* Product administration: the handlers and transactions of                *)
(* internal/service/product.go that write products, statement by statement *)
(* at READ COMMITTED, for admins and staff who work at the same time.      *)
(*                                                                         *)
(* A statement reads what is committed.  A write waits for a transaction   *)
(* that wrote the same row or holds the same name in the unique index and  *)
(* then sees the newest row.  A row keeps the columns that depend on each  *)
(* other or that orders read; price, description and image go the way of   *)
(* the status.  The cache is in ProductCache.                              *)
(***************************************************************************)
EXTENDS FiniteSets

CONSTANTS
  ProductId,     \* ids of products rows
  NoProduct,     \* the product of a session that has none yet
  NoRow,         \* a products row that does not exist
  NotSent,       \* a field that a body leaves out
  ProductName,   \* names, up to the case of their letters
  Session,       \* requests of admins and staff that run at a time
  CreateAsks,    \* bound: the bodies of POST /products
  UpdateAsks,    \* bound: the bodies of PUT /products/:id
  StatusAsks     \* bound: the bodies of PATCH /products/:id/status

ASSUME NoProductAssumption == NoProduct \notin ProductId

VARIABLES
  products,   \* products[p]: the committed row, or NoRow
  announced,  \* products with a committed product.created outbox event
  session     \* session[s]: a request and what its transaction has written

adminVars == <<products, announced, session>>

Category == {"coffee", "food", "snack"}
ShelfStatus == {"available", "out_of_stock", "unavailable"}
StaffRole == {"PEGAWAI", "ADMIN"}

\* The attribute fields customers choose from; a product's attributes are the
\* fields for which it offers valid values.
AttributeField ==
  {"temperature", "sugar_levels", "ice_levels", "sizes", "portions", "spicy_levels"}

Required ==
  [coffee |-> {"temperature", "sugar_levels", "ice_levels", "sizes"},
   food |-> {"portions"},
   snack |-> {"portions"}]

\* validateProductAttributes.
Fits(category, attributes) == Required[category] \subseteq attributes

ProductRow ==
  [name : ProductName, category : Category, attributes : SUBSET AttributeField,
   status : ShelfStatus, deleted : BOOLEAN]

ASSUME NoRowAssumption == NoRow \notin ProductRow

\* An optional field of a body.  Faulty: it is written even if it is left out.
GivenAlways(field, old) == field
Given(field, old) == IF field = NotSent THEN old ELSE field

Body ==
  [name : ProductName \cup {NotSent}, category : Category \cup {NotSent},
   attributes : (SUBSET AttributeField) \cup {NotSent}, status : ShelfStatus \cup {NotSent}]

ASSUME BodyAssumption ==
  /\ CreateAsks \subseteq {ask \in Body : ask.name # NotSent /\ ask.category # NotSent}
  /\ UpdateAsks \subseteq Body
  /\ StatusAsks \subseteq ShelfStatus

\* validateCreateProductRequest and validateUpdateProductRequest: category and
\* attributes come together or not at all.  Faulty: each may come alone.
ValidCreate(ask) == ask.attributes # NotSent /\ Fits(ask.category, ask.attributes)

ValidUpdateAlone(ask) ==
  ask.category # NotSent /\ ask.attributes # NotSent => Fits(ask.category, ask.attributes)
ValidUpdate(ask) ==
  IF ask.category = NotSent
  THEN ask.attributes = NotSent
  ELSE ask.attributes # NotSent /\ Fits(ask.category, ask.attributes)

NewRow(ask) ==
  [name |-> ask.name, category |-> ask.category, attributes |-> ask.attributes,
   status |-> Given(ask.status, "available"), deleted |-> FALSE]

\* The columns UpdateProduct writes: those given, the others as it read them.
Merged(row, ask) ==
  [name |-> Given(ask.name, row.name), category |-> Given(ask.category, row.category),
   attributes |-> Given(ask.attributes, row.attributes),
   status |-> Given(ask.status, row.status), deleted |-> row.deleted]

NoSession == [pc |-> "idle", kind |-> "none", product |-> NoProduct, row |-> NoRow]

SessionState ==
  [pc : {"idle", "name", "write", "event", "commit"},
   kind : {"none", "create", "update", "status", "delete", "restore"},
   product : ProductId \cup {NoProduct},
   row : ProductRow \cup {NoRow}]

AdminTypeOK ==
  /\ products \in [ProductId -> ProductRow \cup {NoRow}]
  /\ announced \in SUBSET ProductId
  /\ session \in [Session -> SessionState]

AdminInit ==
  /\ products = [p \in ProductId |-> NoRow]
  /\ announced = {}
  /\ session = [s \in Session |-> NoSession]

-----------------------------------------------------------------------------
Exists(p) == products[p] # NoRow
Live(p) == Exists(p) /\ ~products[p].deleted

Starts(s, pc, kind, p, row) ==
  /\ session[s].pc = "idle"
  /\ session' = [session EXCEPT ![s] =
       [pc |-> pc, kind |-> kind, product |-> p, row |-> row]]
  /\ UNCHANGED <<products, announced>>

Goes(s, pc) ==
  /\ session' = [session EXCEPT ![s].pc = pc]
  /\ UNCHANGED <<products, announced>>

\* ROLLBACK, and the end of a request.
RollsBack(s) ==
  /\ session' = [session EXCEPT ![s] = NoSession]
  /\ UNCHANGED <<products, announced>>

-----------------------------------------------------------------------------
(***************************************************************************)
(* The first statement of each transaction.  A product that is not found   *)
(* or in the wrong state ends the request.                                 *)
(***************************************************************************)

CreateProduct(s, ask) ==
  /\ ValidCreate(ask)
  /\ Starts(s, "name", "create", NoProduct, NewRow(ask))

\* GetProductByID, without a lock.
UpdateProduct(s, p, ask) ==
  /\ ValidUpdate(ask) /\ Live(p)
  /\ LET row == Merged(products[p], ask)
         pc == IF row.name # products[p].name THEN "name" ELSE "write"
     IN  Starts(s, pc, "update", p, row)

UpdateProductStatus(s, p, new, role) ==
  /\ role = "PEGAWAI" => new # "unavailable"
  /\ Live(p)
  /\ Starts(s, "write", "status", p, [products[p] EXCEPT !.status = new])

DeleteProduct(s, p) == Live(p) /\ Starts(s, "write", "delete", p, products[p])

RestoreProduct(s, p) ==
  Exists(p) /\ products[p].deleted /\ Starts(s, "write", "restore", p, products[p])

-----------------------------------------------------------------------------
(***************************************************************************)
(* The statements that follow.                                             *)
(***************************************************************************)

\* GetProductByNameCI finds live products only.
CheckName(s) ==
  /\ session[s].pc = "name"
  /\ IF \E q \in ProductId \ {session[s].product} :
          Live(q) /\ products[q].name = session[s].row.name
     THEN RollsBack(s)
     ELSE Goes(s, "write")

\* Sessions whose write is not committed.
Uncommitted == {t \in Session : session[t].pc \in {"event", "commit"}}

\* The names a write of t holds in the unique index until t ends: the row's
\* new one, and the one it had.
HeldNames(t) ==
  {session[t].row.name}
    \cup {products[q].name : q \in {q \in ProductId : q = session[t].product /\ Exists(q)}}

\* What s waits for before it writes row under p.
Waits(s, p, row) ==
  \E t \in Uncommitted \ {s} : session[t].product = p \/ row.name \in HeldNames(t)

\* idx_products_name_lower_unique.  Faulty: an index on live rows only.
NameFreeOfLive(p, name) == \A q \in ProductId \ {p} : Live(q) => products[q].name # name
NameFree(p, name) == \A q \in ProductId \ {p} : Exists(q) => products[q].name # name

\* The WHERE clause of each UPDATE, on the row as it is once it is not locked
\* by another transaction.  Faulty: by id alone.
AnyRow(kind, p) == TRUE
Matches(kind, p) == IF kind = "restore" THEN products[p].deleted ELSE ~products[p].deleted

\* The row an UPDATE leaves.
Updated(kind, old, row) ==
  CASE kind = "update" -> [row EXCEPT !.deleted = old.deleted]
    [] kind = "status" -> [old EXCEPT !.status = row.status]
    [] kind = "delete" -> [old EXCEPT !.status = "unavailable", !.deleted = TRUE]
    [] kind = "restore" -> [old EXCEPT !.status = "available", !.deleted = FALSE]

\* INSERT under a fresh id.
InsertRow(s) ==
  /\ session[s].pc = "write" /\ session[s].kind = "create"
  /\ \E p \in ProductId :
       /\ ~Exists(p) /\ \A t \in Session : session[t].product # p
       /\ ~Waits(s, p, session[s].row)
       /\ IF NameFree(p, session[s].row.name)
          THEN session' = [session EXCEPT ![s].pc = "event", ![s].product = p]
          ELSE session' = [session EXCEPT ![s] = NoSession]
  /\ UNCHANGED <<products, announced>>

UpdateRow(s) ==
  /\ session[s].pc = "write" /\ session[s].kind # "create"
  /\ LET p == session[s].product
         row == Updated(session[s].kind, products[p], session[s].row)
     IN  /\ ~Waits(s, p, row)
         /\ IF Matches(session[s].kind, p) /\ NameFree(p, row.name)
            THEN session' = [session EXCEPT ![s].pc = "commit", ![s].row = row]
            ELSE session' = [session EXCEPT ![s] = NoSession]
  /\ UNCHANGED <<products, announced>>

\* createProductCreatedOutboxEvent.  Faulty: outside the transaction.
CreateEventAtOnce(s) ==
  /\ session[s].pc = "event"
  /\ announced' = announced \cup {session[s].product}
  /\ session' = [session EXCEPT ![s].pc = "commit"]
  /\ UNCHANGED products
CreateEvent(s) == session[s].pc = "event" /\ Goes(s, "commit")

Commit(s) ==
  /\ session[s].pc = "commit"
  /\ products' = [products EXCEPT ![session[s].product] = session[s].row]
  /\ announced' = IF session[s].kind = "create"
                  THEN announced \cup {session[s].product}
                  ELSE announced
  /\ session' = [session EXCEPT ![s] = NoSession]

\* A statement fails, the request is cancelled or the server dies.
AdminFails(s) == session[s].pc # "idle" /\ RollsBack(s)

SessionStarts(s) ==
  \/ \E ask \in CreateAsks : CreateProduct(s, ask)
  \/ \E p \in ProductId :
       \/ \E ask \in UpdateAsks : UpdateProduct(s, p, ask)
       \/ \E new \in StatusAsks, role \in StaffRole : UpdateProductStatus(s, p, new, role)
       \/ DeleteProduct(s, p)
       \/ RestoreProduct(s, p)

AdminNext ==
  \E s \in Session :
    \/ SessionStarts(s)
    \/ CheckName(s)
    \/ InsertRow(s)
    \/ UpdateRow(s)
    \/ CreateEvent(s)
    \/ Commit(s)
    \/ AdminFails(s)

AdminSpec == AdminInit /\ [][AdminNext]_adminVars

-----------------------------------------------------------------------------
(***************************************************************************)
(* Properties.                                                             *)
(***************************************************************************)

\* No two products share a name, deleted ones included: whatever is renamed,
\* deleted, created and restored at a time, RestoreProduct never brings back a
\* name that another product took meanwhile.
NamesUnique ==
  \A p, q \in ProductId :
    p # q /\ Exists(p) /\ Exists(q) => products[p].name # products[q].name

\* A product offers every attribute its category needs, so that customers can
\* choose: UpdateProduct writes back columns it read earlier, but category and
\* attributes always from one body or from one read.
AttributesFitCategory ==
  \A p \in ProductId : Exists(p) => Fits(products[p].category, products[p].attributes)

\* Every product is announced to the customers' phones, and nothing that was
\* rolled back is: row and outbox event are committed together.
AnnouncedIfCreated == announced = {p \in ProductId : Exists(p)}

\* To orders, administration looks like the whole handlers of Orders: status
\* and deletion change only as its actions allow, although an update writes
\* the status it read before another session deleted or restored the product.
ShelfView == [p \in ProductId |-> IF Exists(p) THEN products[p].status ELSE "unavailable"]
DeletedView == {p \in ProductId : ~Live(p)}

O == INSTANCE Orders WITH
  User <- {}, NoUser <- NoProduct, Product <- ProductId, CartItem <- {}, OrderId <- {},
  RowOf <- <<>>, MaxQty <- 0, InitStock <- <<>>,
  stock <- <<>>, sold <- <<>>, cartQty <- <<>>, usedItems <- {}, status <- <<>>,
  owner <- <<>>, lines <- <<>>, overdue <- {},
  shelf <- ShelfView, deleted <- DeletedView

\* A new product, which Orders has from the start.
Creates == \E p \in ProductId : ~Exists(p) /\ products'[p] # NoRow

ShelfAsInOrders == [][Creates \/ O!ProductStep]_<<ShelfView, DeletedView>>
=============================================================================
