------------------------- MODULE ProductAdminProofs -------------------------
(***************************************************************************)
(* What holds of ProductAdmin for every number of products, names, request *)
(* bodies and sessions: names stay unique, a product fits its category,    *)
(* exactly the products that were created are announced, and a committed   *)
(* transaction is a handler of Orders.                                     *)
(***************************************************************************)
EXTENDS ProductAdmin, TLAPS

-----------------------------------------------------------------------------
(***************************************************************************)
(* The inductive invariant.                                                *)
(***************************************************************************)

\* A request that runs carries a row that fits its category.
RowsFit ==
  \A s \in Session :
    session[s].pc # "idle" =>
      /\ session[s].row \in ProductRow
      /\ Fits(session[s].row.category, session[s].row.attributes)

\* A product that is created gets its id with the INSERT; the others are there.
SessionsHaveProduct ==
  \A s \in Session :
    /\ session[s].pc # "idle" /\ session[s].kind # "create" =>
         session[s].product \in ProductId /\ Exists(session[s].product)
    /\ session[s].pc \in {"event", "commit"} /\ session[s].kind = "create" =>
         session[s].product \in ProductId /\ ~Exists(session[s].product)
    /\ session[s].pc \in {"idle", "name", "write"} /\ session[s].kind = "create" =>
         session[s].product = NoProduct
    /\ session[s].pc = "event" => session[s].kind = "create"
    /\ session[s].pc # "idle" => session[s].kind # "none"

\* What a transaction wrote and has not committed is locked: its row, the name
\* that it gave the row and the name that it took from it.
WritesAreLocked ==
  \A s, t \in Uncommitted :
    s # t => /\ session[s].product # session[t].product
             /\ session[s].row.name \notin HeldNames(t)

\* A name that is written and not committed is free.
WrittenNamesAreFree ==
  \A s \in Uncommitted : NameFree(session[s].product, session[s].row.name)

\* What an UPDATE wrote is what it makes of the row that is still committed.
UpdatesAreCurrent ==
  \A s \in Uncommitted :
    session[s].kind # "create" =>
      /\ Matches(session[s].kind, session[s].product)
      /\ \E row \in ProductRow :
           session[s].row = Updated(session[s].kind, products[session[s].product], row)

AdminInv ==
  /\ AdminTypeOK
  /\ RowsFit
  /\ SessionsHaveProduct
  /\ WritesAreLocked
  /\ WrittenNamesAreFree
  /\ UpdatesAreCurrent
  /\ NamesUnique
  /\ AttributesFitCategory
  /\ AnnouncedIfCreated

LEMMA AdminInvInit == AdminInit => AdminInv
<1> SUFFICES ASSUME AdminInit
             PROVE  AdminInv
  OBVIOUS
<1>1. AdminTypeOK
  BY DEF AdminInit, AdminTypeOK, NoSession, SessionState
<1>2. Uncommitted = {}
  BY DEF AdminInit, NoSession, Uncommitted
<1> QED
  BY <1>1, <1>2 DEF AdminInit, AdminInv, NoSession, RowsFit, SessionsHaveProduct,
     WritesAreLocked, WrittenNamesAreFree, UpdatesAreCurrent, NamesUnique,
     AttributesFitCategory, AnnouncedIfCreated, Exists

-----------------------------------------------------------------------------
(***************************************************************************)
(* Sessions step; products stay as they are.                               *)
(***************************************************************************)

\* What a session may become while the products stay as they are.
Sound(n) ==
  /\ n.pc # "idle" =>
       /\ n.row \in ProductRow /\ Fits(n.row.category, n.row.attributes)
       /\ n.kind # "none"
       /\ n.kind # "create" => n.product \in ProductId /\ Exists(n.product)
  /\ n.kind = "create" =>
       IF n.pc \in {"event", "commit"}
       THEN n.product \in ProductId /\ ~Exists(n.product)
       ELSE n.product = NoProduct
  /\ n.pc = "event" => n.kind = "create"

LEMMA SessionAt ==
  ASSUME AdminTypeOK, NEW s \in Session, NEW n, session' = [session EXCEPT ![s] = n]
  PROVE  \A t \in Session : session'[t] = IF t = s THEN n ELSE session[t]
BY DEF AdminTypeOK

\* The sessions keep their types, rows and products.
LEMMA SessionSteps ==
  ASSUME AdminInv, NEW s \in Session, NEW n \in SessionState, Sound(n),
         session' = [session EXCEPT ![s] = n], UNCHANGED <<products, announced>>
  PROVE  /\ AdminTypeOK' /\ RowsFit' /\ SessionsHaveProduct'
         /\ NamesUnique' /\ AttributesFitCategory' /\ AnnouncedIfCreated'
<1>1. AdminTypeOK'
  BY DEF AdminInv, AdminTypeOK
<1>2. \A t \in Session : session'[t] = IF t = s THEN n ELSE session[t]
  BY SessionAt DEF AdminInv
<1>3. RowsFit'
  BY <1>2 DEF AdminInv, RowsFit, Sound
<1>4. SessionsHaveProduct'
  <2> SUFFICES ASSUME NEW t \in Session
               PROVE  /\ session'[t].pc # "idle" /\ session'[t].kind # "create" =>
                           session'[t].product \in ProductId /\ Exists(session'[t].product)
                      /\ session'[t].pc \in {"event", "commit"} /\ session'[t].kind = "create" =>
                           session'[t].product \in ProductId /\ ~Exists(session'[t].product)
                      /\ session'[t].pc \in {"idle", "name", "write"}
                           /\ session'[t].kind = "create" => session'[t].product = NoProduct
                      /\ session'[t].pc = "event" => session'[t].kind = "create"
                      /\ session'[t].pc # "idle" => session'[t].kind # "none"
    BY DEF SessionsHaveProduct, Exists
  <2>1. CASE t = s
    BY <1>2, <2>1 DEF Sound
  <2>2. CASE t # s
    BY <1>2, <2>2 DEF AdminInv, SessionsHaveProduct
  <2> QED
    BY <2>1, <2>2
<1>5. NamesUnique' /\ AttributesFitCategory' /\ AnnouncedIfCreated'
  BY DEF AdminInv, NamesUnique, AttributesFitCategory, AnnouncedIfCreated, Exists
<1> QED
  BY <1>1, <1>2, <1>3, <1>4, <1>5

\* A session that has written nothing disturbs nobody.
LEMMA NothingWritten ==
  ASSUME AdminInv, NEW s \in Session, NEW n \in SessionState, Sound(n),
         n.pc \in {"idle", "name", "write"},
         session' = [session EXCEPT ![s] = n], UNCHANGED <<products, announced>>
  PROVE  AdminInv'
<1>0. \A t \in Session : session'[t] = IF t = s THEN n ELSE session[t]
  BY SessionAt DEF AdminInv
<1>1. Uncommitted' \subseteq Uncommitted \ {s}
  BY <1>0 DEF Uncommitted
<1>2. \A t \in Uncommitted' : session'[t] = session[t] /\ t \in Session
  BY <1>0, <1>1 DEF Uncommitted
<1>3. \A t \in Uncommitted' : HeldNames(t)' = HeldNames(t)
  BY <1>2 DEF HeldNames, Exists
<1>4. WritesAreLocked'
  BY <1>1, <1>2, <1>3 DEF AdminInv, WritesAreLocked
<1>5. WrittenNamesAreFree'
  BY <1>1, <1>2 DEF AdminInv, WrittenNamesAreFree, NameFree, Exists
<1>6. UpdatesAreCurrent'
  <2>1. UpdatesAreCurrent
    BY DEF AdminInv
  <2> SUFFICES ASSUME NEW t \in Uncommitted', session'[t].kind # "create"
               PROVE  /\ Matches(session[t].kind, session[t].product)'
                      /\ \E row \in ProductRow :
                           (session[t].row
                              = Updated(session[t].kind, products[session[t].product], row))'
    BY DEF UpdatesAreCurrent
  <2>2. /\ Matches(session[t].kind, session[t].product)
        /\ \E row \in ProductRow :
             session[t].row = Updated(session[t].kind, products[session[t].product], row)
    BY <1>1, <1>2, <2>1 DEF UpdatesAreCurrent
  <2> QED
    BY <1>2, <2>2 DEF Matches, Updated
<1>7. /\ AdminTypeOK' /\ RowsFit' /\ SessionsHaveProduct'
      /\ NamesUnique' /\ AttributesFitCategory' /\ AnnouncedIfCreated'
  BY SessionSteps
<1> QED
  BY <1>4, <1>5, <1>6, <1>7 DEF AdminInv

\* A session that writes a row that no other transaction holds, under a name
\* that none holds, or that has written it.
LEMMA RowWritten ==
  ASSUME AdminInv, NEW s \in Session, NEW n \in SessionState, Sound(n),
         n.pc \in {"event", "commit"}, n.product \in ProductId,
         \A t \in Uncommitted \ {s} :
           session[t].product # n.product /\ n.row.name \notin HeldNames(t),
         NameFree(n.product, n.row.name),
         n.kind # "create" =>
           /\ Matches(n.kind, n.product)
           /\ \E row \in ProductRow : n.row = Updated(n.kind, products[n.product], row),
         session' = [session EXCEPT ![s] = n], UNCHANGED <<products, announced>>
  PROVE  AdminInv'
<1>0. \A t \in Session : session'[t] = IF t = s THEN n ELSE session[t]
  <2>1. AdminTypeOK
    BY DEF AdminInv
  <2> QED
    BY ONLY s \in Session, session' = [session EXCEPT ![s] = n], <2>1 DEF AdminTypeOK
<1>1. Uncommitted' = Uncommitted \cup {s}
  BY <1>0 DEF Uncommitted
<1>2. \A t \in Uncommitted \ {s} : session'[t] = session[t] /\ t \in Session
  BY <1>0 DEF Uncommitted
<1>3. session'[s] = n
  BY <1>0
<1>4. \A t \in Uncommitted \ {s} : HeldNames(t)' = HeldNames(t)
  BY <1>2 DEF HeldNames, Exists
<1>5. \A t \in Uncommitted \ {s} : session[t].row.name \notin HeldNames(s)'
  <2> SUFFICES ASSUME NEW t \in Uncommitted \ {s}, session[t].row.name \in HeldNames(s)'
               PROVE  FALSE
    OBVIOUS
  <2>1. session[t].row.name # n.row.name
    BY DEF HeldNames
  <2>2. Exists(n.product) /\ session[t].row.name = products[n.product].name
    BY <1>3, <2>1 DEF HeldNames, Exists
  <2>3. NameFree(session[t].product, session[t].row.name) /\ session[t].product # n.product
    BY DEF AdminInv, WrittenNamesAreFree
  <2> QED
    BY <2>2, <2>3 DEF NameFree
<1>6. WritesAreLocked'
  <2> SUFFICES ASSUME NEW t \in Uncommitted', NEW u \in Uncommitted', t # u
               PROVE  /\ session'[t].product # session'[u].product
                      /\ session'[t].row.name \notin HeldNames(u)'
    BY DEF WritesAreLocked
  <2>1. CASE t = s
    BY <1>1, <1>2, <1>3, <1>4, <2>1
  <2>2. CASE u = s
    BY <1>1, <1>2, <1>3, <1>5, <2>2
  <2>3. CASE t # s /\ u # s
    BY <1>1, <1>2, <1>4, <2>3 DEF AdminInv, WritesAreLocked
  <2> QED
    BY <2>1, <2>2, <2>3
<1>7. WrittenNamesAreFree'
  BY <1>1, <1>2, <1>3 DEF AdminInv, WrittenNamesAreFree, NameFree, Exists
<1>8. UpdatesAreCurrent'
  <2>1. \A t \in Uncommitted \ {s} :
          session[t].kind # "create" =>
            /\ Matches(session[t].kind, session[t].product)
            /\ \E row \in ProductRow :
                 session[t].row = Updated(session[t].kind, products[session[t].product], row)
    BY DEF AdminInv, UpdatesAreCurrent
  <2> SUFFICES ASSUME NEW t \in Uncommitted', session'[t].kind # "create"
               PROVE  /\ Matches(session[t].kind, session[t].product)'
                      /\ \E row \in ProductRow :
                           (session[t].row
                              = Updated(session[t].kind, products[session[t].product], row))'
    BY DEF UpdatesAreCurrent
  <2>2. CASE t = s
    BY <1>3, <2>2 DEF Matches, Updated
  <2>3. CASE t # s
    <3>1. session'[t] = session[t] /\ session[t].kind # "create" /\ t \in Uncommitted \ {s}
      BY <1>1, <1>2, <2>3
    <3>2. /\ Matches(session[t].kind, session[t].product)
          /\ \E row \in ProductRow :
               session[t].row = Updated(session[t].kind, products[session[t].product], row)
      BY <2>1, <3>1
    <3> QED
      BY <3>1, <3>2 DEF Matches, Updated
  <2> QED
    BY <2>2, <2>3
<1>9. /\ AdminTypeOK' /\ RowsFit' /\ SessionsHaveProduct'
      /\ NamesUnique' /\ AttributesFitCategory' /\ AnnouncedIfCreated'
  BY SessionSteps
<1> QED
  BY <1>6, <1>7, <1>8, <1>9 DEF AdminInv

LEMMA IdleIsSound == NoSession \in SessionState /\ Sound(NoSession)
BY DEF NoSession, SessionState, Sound

\* A request that ends without a COMMIT writes nothing.
LEMMA EndsSoundly ==
  ASSUME AdminInv, NEW s \in Session, RollsBack(s)
  PROVE  AdminInv'
<1>1. NoSession.pc = "idle"
  BY DEF NoSession
<1> QED
  BY <1>1, IdleIsSound, NothingWritten DEF RollsBack

-----------------------------------------------------------------------------
(***************************************************************************)
(* The statements keep the invariant.                                      *)
(***************************************************************************)

\* A request starts with a row that fits its category.
LEMMA StartsSoundly ==
  ASSUME AdminInv, NEW s \in Session, NEW pc \in {"name", "write"},
         NEW kind \in {"create", "update", "status", "delete", "restore"},
         NEW p \in ProductId \cup {NoProduct}, NEW row \in ProductRow,
         Fits(row.category, row.attributes),
         IF kind = "create" THEN p = NoProduct ELSE p \in ProductId /\ Exists(p),
         Starts(s, pc, kind, p, row)
  PROVE  AdminInv'
<1> DEFINE n == [pc |-> pc, kind |-> kind, product |-> p, row |-> row]
<1>1. n \in SessionState /\ n.pc \in {"idle", "name", "write"}
  BY DEF SessionState
<1>2. Sound(n)
  BY DEF Sound
<1>3. session' = [session EXCEPT ![s] = n] /\ UNCHANGED <<products, announced>>
  BY DEF Starts
<1> HIDE DEF n
<1> QED
  BY <1>1, <1>2, <1>3, NothingWritten

\* A row that exists has its type and fits its category.
LEMMA ExistingFits ==
  ASSUME AdminInv, NEW p \in ProductId, Exists(p)
  PROVE  products[p] \in ProductRow /\ Fits(products[p].category, products[p].attributes)
BY DEF AdminInv, AdminTypeOK, AttributesFitCategory, Exists

\* What UpdateProduct is about to write, from a valid body and a row that fits.
LEMMA MergedFits ==
  ASSUME NEW row \in ProductRow, Fits(row.category, row.attributes),
         NEW ask \in Body, ValidUpdate(ask)
  PROVE  /\ Merged(row, ask) \in ProductRow
         /\ Fits(Merged(row, ask).category, Merged(row, ask).attributes)
<1>1. Merged(row, ask) \in ProductRow
  BY DEF Merged, Given, Body, ProductRow
<1>2. /\ Merged(row, ask).category = Given(ask.category, row.category)
      /\ Merged(row, ask).attributes = Given(ask.attributes, row.attributes)
  BY DEF Merged
<1>3. CASE ask.category = NotSent
  <2>1. ask.attributes = NotSent
    BY <1>3 DEF ValidUpdate
  <2> QED
    BY <1>1, <1>2, <1>3, <2>1 DEF Given
<1>4. CASE ask.category # NotSent
  <2>1. ask.attributes # NotSent /\ Fits(ask.category, ask.attributes)
    BY <1>4 DEF ValidUpdate
  <2> QED
    BY <1>1, <1>2, <1>4, <2>1 DEF Given
<1> QED
  BY <1>3, <1>4

LEMMA SessionStartsSoundly ==
  ASSUME AdminInv, NEW s \in Session, SessionStarts(s)
  PROVE  AdminInv'
<1>1. CASE \E ask \in CreateAsks : CreateProduct(s, ask)
  <2>1. PICK ask \in CreateAsks : CreateProduct(s, ask)
    BY <1>1
  <2>2. ask \in Body /\ ask.name # NotSent /\ ask.category # NotSent
    BY BodyAssumption
  <2>3. ValidCreate(ask) /\ Starts(s, "name", "create", NoProduct, NewRow(ask))
    BY <2>1 DEF CreateProduct
  <2>4. NewRow(ask) \in ProductRow
    BY <2>2, <2>3 DEF ValidCreate, NewRow, Given, Body, ProductRow, ShelfStatus
  <2>5. Fits(NewRow(ask).category, NewRow(ask).attributes)
    BY <2>3 DEF ValidCreate, NewRow
  <2> QED
    BY <2>3, <2>4, <2>5, StartsSoundly
<1>2. CASE \E p \in ProductId, ask \in UpdateAsks : UpdateProduct(s, p, ask)
  <2>1. PICK p \in ProductId, ask \in UpdateAsks : UpdateProduct(s, p, ask)
    BY <1>2
  <2>2. ask \in Body /\ ValidUpdate(ask) /\ Exists(p)
    BY <2>1, BodyAssumption DEF UpdateProduct, Live
  <2> DEFINE row == Merged(products[p], ask)
  <2>3. row \in ProductRow /\ Fits(row.category, row.attributes)
    BY <2>2, ExistingFits, MergedFits
  <2>4. \E pc \in {"name", "write"} : Starts(s, pc, "update", p, row)
    BY <2>1 DEF UpdateProduct
  <2> HIDE DEF row
  <2> QED
    BY <2>2, <2>3, <2>4, StartsSoundly
<1>3. CASE \E p \in ProductId, new \in StatusAsks, role \in StaffRole :
             UpdateProductStatus(s, p, new, role)
  <2>1. PICK p \in ProductId, new \in StatusAsks, role \in StaffRole :
          UpdateProductStatus(s, p, new, role)
    BY <1>3
  <2>2. Exists(p) /\ new \in ShelfStatus
    BY <2>1, BodyAssumption DEF UpdateProductStatus, Live
  <2> DEFINE row == [products[p] EXCEPT !.status = new]
  <2>3. row \in ProductRow /\ Fits(row.category, row.attributes)
    BY <2>2, ExistingFits DEF ProductRow
  <2>4. Starts(s, "write", "status", p, row)
    BY <2>1 DEF UpdateProductStatus
  <2> HIDE DEF row
  <2> QED
    BY <2>2, <2>3, <2>4, StartsSoundly
<1>4. CASE \E p \in ProductId : DeleteProduct(s, p) \/ RestoreProduct(s, p)
  <2>1. PICK p \in ProductId : DeleteProduct(s, p) \/ RestoreProduct(s, p)
    BY <1>4
  <2>2. Exists(p)
    BY <2>1 DEF DeleteProduct, RestoreProduct, Live
  <2>3. \E kind \in {"delete", "restore"} : Starts(s, "write", kind, p, products[p])
    BY <2>1 DEF DeleteProduct, RestoreProduct
  <2> QED
    BY <2>2, <2>3, ExistingFits, StartsSoundly
<1> QED
  BY <1>1, <1>2, <1>3, <1>4 DEF SessionStarts

\* A statement that moves on to the next one, before the write.
LEMMA CheckNameSoundly ==
  ASSUME AdminInv, NEW s \in Session, CheckName(s)
  PROVE  AdminInv'
<1> DEFINE n == [session[s] EXCEPT !.pc = "write"]
<1>1. session[s] \in SessionState /\ session[s].pc = "name"
  BY DEF CheckName, AdminInv, AdminTypeOK
<1>2. n \in SessionState /\ n.pc = "write"
  BY <1>1 DEF SessionState
<1>3. n.kind = session[s].kind /\ n.row = session[s].row /\ n.product = session[s].product
  BY <1>1 DEF SessionState
<1>4. Goes(s, "write") =>
        session' = [session EXCEPT ![s] = n] /\ UNCHANGED <<products, announced>>
  BY DEF Goes
<1> HIDE DEF n
<1>5. Sound(n)
  BY <1>1, <1>2, <1>3 DEF Sound, AdminInv, RowsFit, SessionsHaveProduct
<1>6. CASE Goes(s, "write")
  BY <1>2, <1>4, <1>5, <1>6, NothingWritten
<1>7. CASE RollsBack(s)
  BY <1>7, EndsSoundly
<1> QED
  BY <1>6, <1>7 DEF CheckName

LEMMA InsertRowSoundly ==
  ASSUME AdminInv, NEW s \in Session, InsertRow(s)
  PROVE  AdminInv'
<1>1. PICK p \in ProductId :
        /\ ~Exists(p) /\ \A t \in Session : session[t].product # p
        /\ ~Waits(s, p, session[s].row)
        /\ IF NameFree(p, session[s].row.name)
           THEN session' = [session EXCEPT ![s].pc = "event", ![s].product = p]
           ELSE session' = [session EXCEPT ![s] = NoSession]
  BY DEF InsertRow
<1>2. UNCHANGED <<products, announced>> /\ session[s].pc = "write" /\ session[s].kind = "create"
  BY DEF InsertRow
<1>3. CASE NameFree(p, session[s].row.name)
  <2> DEFINE n == [session[s] EXCEPT !.pc = "event", !.product = p]
  <2>1. session[s] \in SessionState
    BY DEF AdminInv, AdminTypeOK
  <2>2. /\ n \in SessionState /\ n.pc = "event" /\ n.product = p
        /\ n.kind = "create" /\ n.row = session[s].row
    BY <1>2, <2>1 DEF SessionState
  <2>3. session' = [session EXCEPT ![s] = n]
    BY <1>1, <1>3
  <2> HIDE DEF n
  <2>4. Sound(n)
    BY <1>1, <1>2, <2>2 DEF Sound, AdminInv, RowsFit
  <2>5. \A t \in Uncommitted \ {s} :
          session[t].product # n.product /\ n.row.name \notin HeldNames(t)
    BY <1>1, <2>2 DEF Waits
  <2> QED
    BY <1>2, <1>3, <2>2, <2>3, <2>4, <2>5, RowWritten
<1>4. CASE ~NameFree(p, session[s].row.name)
  BY <1>1, <1>2, <1>4, EndsSoundly DEF RollsBack
<1> QED
  BY <1>3, <1>4

\* The row an UPDATE leaves has its type and fits its category.
LEMMA UpdatedFits ==
  ASSUME NEW kind \in {"update", "status", "delete", "restore"},
         NEW old \in ProductRow, Fits(old.category, old.attributes),
         NEW row \in ProductRow, Fits(row.category, row.attributes)
  PROVE  /\ Updated(kind, old, row) \in ProductRow
         /\ Fits(Updated(kind, old, row).category, Updated(kind, old, row).attributes)
<1>1. CASE kind = "update"
  BY <1>1 DEF Updated, ProductRow
<1>2. CASE kind = "status"
  BY <1>2 DEF Updated, ProductRow
<1>3. CASE kind = "delete"
  BY <1>3 DEF Updated, ProductRow, ShelfStatus
<1>4. CASE kind = "restore"
  BY <1>4 DEF Updated, ProductRow, ShelfStatus
<1> QED
  BY <1>1, <1>2, <1>3, <1>4

LEMMA UpdateRowSoundly ==
  ASSUME AdminInv, NEW s \in Session, UpdateRow(s)
  PROVE  AdminInv'
<1> DEFINE p == session[s].product
           row == Updated(session[s].kind, products[p], session[s].row)
           n == [session[s] EXCEPT !.pc = "commit", !.row = row]
<1>1. session[s].pc = "write" /\ session[s].kind # "create" /\ UNCHANGED <<products, announced>>
  BY DEF UpdateRow
<1>2. session[s] \in SessionState
  BY DEF AdminInv, AdminTypeOK
<1>3. /\ session[s].kind \in {"update", "status", "delete", "restore"}
      /\ p \in ProductId /\ Exists(p)
  BY <1>1, <1>2 DEF AdminInv, SessionsHaveProduct, SessionState
<1>4. session[s].row \in ProductRow /\ Fits(session[s].row.category, session[s].row.attributes)
  BY <1>1 DEF AdminInv, RowsFit
<1>5. row \in ProductRow /\ Fits(row.category, row.attributes)
  BY <1>3, <1>4, ExistingFits, UpdatedFits
<1>6. ~Waits(s, p, row)
  BY DEF UpdateRow
<1>7. \/ /\ Matches(session[s].kind, p) /\ NameFree(p, row.name)
         /\ session' = [session EXCEPT ![s] = n]
      \/ session' = [session EXCEPT ![s] = NoSession]
  BY DEF UpdateRow
<1>8. CASE session' = [session EXCEPT ![s] = NoSession]
  BY <1>1, <1>8, EndsSoundly DEF RollsBack
<1>9. CASE /\ Matches(session[s].kind, p) /\ NameFree(p, row.name)
           /\ session' = [session EXCEPT ![s] = n]
  <2> HIDE DEF row
  <2>1. /\ n \in SessionState /\ n.pc = "commit" /\ n.product = p
        /\ n.kind = session[s].kind /\ n.row = row
    BY <1>2, <1>5 DEF SessionState
  <2> HIDE DEF n
  <2>2. Sound(n)
    BY <1>1, <1>3, <1>5, <2>1 DEF Sound
  <2>3. \A t \in Uncommitted \ {s} :
          session[t].product # n.product /\ n.row.name \notin HeldNames(t)
    BY <1>6, <2>1 DEF Waits
  <2>4. \E old \in ProductRow : n.row = Updated(n.kind, products[n.product], old)
    BY <1>4, <2>1 DEF row
  <2> QED
    BY <1>1, <1>3, <1>9, <2>1, <2>2, <2>3, <2>4, RowWritten
<1> QED
  BY <1>7, <1>8, <1>9

LEMMA CreateEventSoundly ==
  ASSUME AdminInv, NEW s \in Session, CreateEvent(s)
  PROVE  AdminInv'
<1> DEFINE n == [session[s] EXCEPT !.pc = "commit"]
<1>1. session[s].pc = "event" /\ UNCHANGED <<products, announced>>
  BY DEF CreateEvent, Goes
<1>2. session[s] \in SessionState /\ s \in Uncommitted
  BY <1>1 DEF AdminInv, AdminTypeOK, Uncommitted
<1>3. session[s].kind = "create" /\ session[s].product \in ProductId /\ ~Exists(session[s].product)
  BY <1>1 DEF AdminInv, SessionsHaveProduct
<1>4. /\ n \in SessionState /\ n.pc = "commit" /\ n.product = session[s].product
      /\ n.kind = "create" /\ n.row = session[s].row
  BY <1>2, <1>3 DEF SessionState
<1>5. session' = [session EXCEPT ![s] = n]
  BY DEF CreateEvent, Goes
<1> HIDE DEF n
<1>6. Sound(n)
  BY <1>1, <1>3, <1>4 DEF Sound, AdminInv, RowsFit
<1>7. \A t \in Uncommitted \ {s} :
        session[t].product # n.product /\ n.row.name \notin HeldNames(t)
  BY <1>2, <1>4 DEF AdminInv, WritesAreLocked
<1>8. NameFree(n.product, n.row.name)
  BY <1>2, <1>4 DEF AdminInv, WrittenNamesAreFree
<1> QED
  BY <1>1, <1>3, <1>4, <1>5, <1>6, <1>7, <1>8, RowWritten

-----------------------------------------------------------------------------
(***************************************************************************)
(* COMMIT, and the invariant.                                              *)
(***************************************************************************)

\* What a COMMIT is about to make of its product.
LEMMA CommitsHave ==
  ASSUME AdminInv, NEW s \in Session, session[s].pc = "commit"
  PROVE  /\ s \in Uncommitted
         /\ session[s].product \in ProductId
         /\ session[s].row \in ProductRow
         /\ Fits(session[s].row.category, session[s].row.attributes)
         /\ session[s].row # NoRow
         /\ NameFree(session[s].product, session[s].row.name)
         /\ session[s].kind = "create" <=> ~Exists(session[s].product)
<1>1. s \in Uncommitted
  BY DEF Uncommitted
<1>2. session[s].row \in ProductRow /\ Fits(session[s].row.category, session[s].row.attributes)
  BY DEF AdminInv, RowsFit
<1>3. /\ session[s].product \in ProductId
      /\ session[s].kind = "create" <=> ~Exists(session[s].product)
  BY DEF AdminInv, SessionsHaveProduct
<1>4. NameFree(session[s].product, session[s].row.name)
  BY <1>1 DEF AdminInv, WrittenNamesAreFree
<1> QED
  BY <1>1, <1>2, <1>3, <1>4, NoRowAssumption

LEMMA CommitSoundly ==
  ASSUME AdminInv, NEW s \in Session, Commit(s)
  PROVE  AdminInv'
<1> DEFINE p == session[s].product
           row == session[s].row
<1>1. /\ session[s].pc = "commit"
      /\ products' = [products EXCEPT ![p] = row]
      /\ announced' = IF session[s].kind = "create" THEN announced \cup {p} ELSE announced
      /\ session' = [session EXCEPT ![s] = NoSession]
  BY DEF Commit
<1>2. /\ s \in Uncommitted /\ p \in ProductId /\ row \in ProductRow
      /\ Fits(row.category, row.attributes) /\ row # NoRow /\ NameFree(p, row.name)
      /\ session[s].kind = "create" <=> ~Exists(p)
  BY <1>1, CommitsHave
<1>3. /\ products \in [ProductId -> ProductRow \cup {NoRow}]
      /\ announced \in SUBSET ProductId
      /\ session \in [Session -> SessionState]
  BY DEF AdminInv, AdminTypeOK
<1>4. \A q \in ProductId : products'[q] = IF q = p THEN row ELSE products[q]
  BY <1>1, <1>2, <1>3
<1>5. \A t \in Session : session'[t] = IF t = s THEN NoSession ELSE session[t]
  BY <1>1, <1>3
<1>6. Uncommitted' = Uncommitted \ {s}
  BY <1>5 DEF Uncommitted, NoSession
<1>7. \A t \in Uncommitted \ {s} : /\ t \in Session /\ session'[t] = session[t]
                                  /\ session[t].product # p
                                  /\ session[t].row.name # row.name
  <2> TAKE t \in Uncommitted \ {s}
  <2>1. session[t].product # p /\ row.name \notin HeldNames(t)
    BY <1>2 DEF AdminInv, WritesAreLocked
  <2> QED
    BY <1>5, <2>1 DEF Uncommitted, HeldNames
<1>8. \A q \in ProductId : Exists(q)' <=> q = p \/ Exists(q)
  BY <1>2, <1>4 DEF Exists
<1> HIDE DEF p, row
<1>9. AdminTypeOK'
  BY <1>1, <1>2, <1>3, IdleIsSound DEF AdminTypeOK, p, row
<1>10. RowsFit'
  BY <1>5 DEF AdminInv, RowsFit, NoSession
<1>11. SessionsHaveProduct'
  <2> SUFFICES ASSUME NEW t \in Session
               PROVE  /\ session'[t].pc # "idle" /\ session'[t].kind # "create" =>
                           session'[t].product \in ProductId /\ Exists(session[t].product)'
                      /\ session'[t].pc \in {"event", "commit"} /\ session'[t].kind = "create" =>
                           session'[t].product \in ProductId /\ ~Exists(session[t].product)'
                      /\ session'[t].pc \in {"idle", "name", "write"}
                           /\ session'[t].kind = "create" => session'[t].product = NoProduct
                      /\ session'[t].pc = "event" => session'[t].kind = "create"
                      /\ session'[t].pc # "idle" => session'[t].kind # "none"
    BY DEF SessionsHaveProduct
  <2>1. CASE t = s
    BY <1>5, <2>1 DEF NoSession
  <2>2. CASE t # s
    <3>1. session'[t] = session[t]
      BY <1>5, <2>2
    <3>2. session[t].pc \in {"event", "commit"} => session[t].product # p
      BY <1>7, <2>2 DEF Uncommitted
    <3>3. session[t].product \in ProductId =>
            (Exists(session[t].product)' <=>
               session[t].product = p \/ Exists(session[t].product))
      BY <1>2, <1>4, <3>1 DEF Exists
    <3> QED
      BY <1>2, <3>1, <3>2, <3>3 DEF AdminInv, SessionsHaveProduct
  <2> QED
    BY <2>1, <2>2
<1>12. \A t \in Uncommitted \ {s} : HeldNames(t)' = HeldNames(t)
  BY <1>4, <1>7, <1>8 DEF HeldNames
<1>13. WritesAreLocked'
  BY <1>6, <1>7, <1>12 DEF AdminInv, WritesAreLocked
<1>14. WrittenNamesAreFree'
  BY <1>4, <1>6, <1>7, <1>8 DEF AdminInv, WrittenNamesAreFree, NameFree
<1>15. UpdatesAreCurrent'
  <2> SUFFICES ASSUME NEW t \in Uncommitted \ {s}, session[t].kind # "create"
               PROVE  /\ Matches(session[t].kind, session[t].product)'
                      /\ \E old \in ProductRow :
                           (session[t].row
                              = Updated(session[t].kind, products[session[t].product], old))'
    BY <1>6, <1>7 DEF UpdatesAreCurrent
  <2>1. session'[t] = session[t] /\ products'[session[t].product] = products[session[t].product]
    BY <1>4, <1>7 DEF Uncommitted, AdminInv, SessionsHaveProduct
  <2> QED
    BY <2>1 DEF AdminInv, UpdatesAreCurrent, Matches, Updated
<1>16. NamesUnique'
  BY <1>2, <1>4, <1>8 DEF AdminInv, NamesUnique, NameFree
<1>17. AttributesFitCategory'
  BY <1>2, <1>4, <1>8 DEF AdminInv, AttributesFitCategory
<1>18. AnnouncedIfCreated'
  BY <1>1, <1>2, <1>8 DEF AdminInv, AnnouncedIfCreated, p
<1> QED
  BY <1>9, <1>10, <1>11, <1>13, <1>14, <1>15, <1>16, <1>17, <1>18 DEF AdminInv

LEMMA AdminInvStep == AdminInv /\ [AdminNext]_adminVars => AdminInv'
<1> SUFFICES ASSUME AdminInv, [AdminNext]_adminVars
             PROVE  AdminInv'
  OBVIOUS
<1>1. CASE AdminNext
  <2>1. PICK s \in Session :
          \/ SessionStarts(s) \/ CheckName(s) \/ InsertRow(s) \/ UpdateRow(s)
          \/ CreateEvent(s) \/ Commit(s) \/ AdminFails(s)
    BY <1>1 DEF AdminNext
  <2>2. AdminFails(s) => AdminInv'
    BY EndsSoundly DEF AdminFails
  <2> QED
    BY <2>1, <2>2, SessionStartsSoundly, CheckNameSoundly, InsertRowSoundly,
       UpdateRowSoundly, CreateEventSoundly, CommitSoundly
<1>2. CASE UNCHANGED adminVars
  <2>1. /\ AdminTypeOK' /\ RowsFit' /\ SessionsHaveProduct' /\ NamesUnique'
        /\ AttributesFitCategory' /\ AnnouncedIfCreated'
    BY <1>2 DEF adminVars, AdminInv, AdminTypeOK, RowsFit, SessionsHaveProduct, NamesUnique,
       AttributesFitCategory, AnnouncedIfCreated, Exists
  <2>2. Uncommitted' = Uncommitted /\ \A t : HeldNames(t)' = HeldNames(t)
    BY <1>2 DEF adminVars, Uncommitted, HeldNames, Exists
  <2>3. WritesAreLocked' /\ WrittenNamesAreFree'
    BY <1>2, <2>2 DEF adminVars, AdminInv, WritesAreLocked, WrittenNamesAreFree, NameFree, Exists
  <2>4. UpdatesAreCurrent'
    BY <1>2, <2>2 DEF adminVars, AdminInv, UpdatesAreCurrent, Matches, Updated
  <2> QED
    BY <2>1, <2>2, <2>3, <2>4 DEF AdminInv
<1> QED
  BY <1>1, <1>2

-----------------------------------------------------------------------------
(***************************************************************************)
(* The theorems.                                                           *)
(***************************************************************************)

\* The inductive invariant holds for every number of sessions and products.
THEOREM AdminInvariance == AdminSpec => []AdminInv
<1> QED
  BY AdminInvInit, AdminInvStep, PTL DEF AdminSpec

\* However renames, deletions, creations and restores of any number of admins
\* interleave, no two products have the same name.
THEOREM NamesStayUnique == AdminSpec => []NamesUnique
<1>1. AdminInv => NamesUnique
  BY DEF AdminInv
<1> QED
  BY <1>1, AdminInvariance, PTL

\* No interleaving of updates leaves a product without an attribute that its
\* category needs.
THEOREM ProductsFit == AdminSpec => []AttributesFitCategory
<1>1. AdminInv => AttributesFitCategory
  BY DEF AdminInv
<1> QED
  BY <1>1, AdminInvariance, PTL

\* Exactly the products that were created are announced.
THEOREM CreatedAreAnnounced == AdminSpec => []AnnouncedIfCreated
<1>1. AdminInv => AnnouncedIfCreated
  BY DEF AdminInv
<1> QED
  BY <1>1, AdminInvariance, PTL

\* A COMMIT of an UPDATE is one of the handlers of Orders on the product.
LEMMA UpdateIsHandler ==
  ASSUME AdminInv, NEW s \in Session, Commit(s), session[s].kind # "create"
  PROVE  O!ProductStep
<1> DEFINE p == session[s].product
           row == session[s].row
           kind == session[s].kind
<1>1. session[s].pc = "commit" /\ products' = [products EXCEPT ![p] = row]
  BY DEF Commit
<1>2. /\ s \in Uncommitted /\ p \in ProductId /\ row \in ProductRow /\ row # NoRow /\ Exists(p)
      /\ products \in [ProductId -> ProductRow \cup {NoRow}]
  BY <1>1, CommitsHave DEF AdminInv, AdminTypeOK
<1>3. /\ kind \in {"update", "status", "delete", "restore"}
      /\ IF kind = "restore" THEN products[p].deleted ELSE ~products[p].deleted
      /\ \E old \in ProductRow : row = Updated(kind, products[p], old)
  <2>1. session[s] \in SessionState /\ kind # "none"
    BY <1>1 DEF AdminInv, AdminTypeOK, SessionsHaveProduct
  <2>2. kind \in {"update", "status", "delete", "restore"}
    BY <2>1 DEF SessionState
  <2> QED
    BY <1>2, <2>2 DEF AdminInv, UpdatesAreCurrent, Matches
<1>4. products[p] \in ProductRow
  BY <1>2 DEF Exists
<1>5. \A q \in ProductId : products'[q] = IF q = p THEN row ELSE products[q]
  BY <1>1, <1>2
<1> HIDE DEF p, row, kind
<1>6. \A q \in ProductId : Exists(q)' <=> Exists(q)
  BY <1>2, <1>5 DEF Exists
<1>7. ShelfView' = [ShelfView EXCEPT ![p] = row.status]
  BY <1>2, <1>5, <1>6 DEF ShelfView
<1>8. /\ p \in DeletedView <=> products[p].deleted
      /\ DeletedView' = IF row.deleted THEN DeletedView \cup {p} ELSE DeletedView \ {p}
  BY <1>2, <1>5, <1>6 DEF DeletedView, Live
<1>9. CASE kind \in {"update", "status"}
  <2>1. row.deleted = products[p].deleted /\ row.status \in ShelfStatus
    BY <1>2, <1>3, <1>4, <1>9 DEF Updated, ProductRow
  <2>2. p \notin DeletedView /\ DeletedView' = DeletedView
    BY <1>3, <1>4, <1>8, <1>9, <2>1
  <2>3. O!UpdateProductStatus(p, row.status)
    BY <1>7, <2>2 DEF O!UpdateProductStatus, O!cartVars, O!orderVars
  <2> QED
    BY <1>2, <2>1, <2>3 DEF O!ProductStep, O!ProductStatus, ShelfStatus
<1>10. CASE kind = "delete"
  <2>1. row.deleted /\ row.status = "unavailable"
    BY <1>3, <1>4, <1>10 DEF Updated, ProductRow
  <2>2. O!DeleteProduct(p)
    BY <1>3, <1>7, <1>8, <1>10, <2>1 DEF O!DeleteProduct, O!cartVars, O!orderVars
  <2> QED
    BY <1>2, <2>2 DEF O!ProductStep
<1>11. CASE kind = "restore"
  <2>1. ~row.deleted /\ row.status = "available"
    BY <1>3, <1>4, <1>11 DEF Updated, ProductRow
  <2>2. O!RestoreProduct(p)
    BY <1>3, <1>7, <1>8, <1>11, <2>1 DEF O!RestoreProduct, O!cartVars, O!orderVars
  <2> QED
    BY <1>2, <2>2 DEF O!ProductStep
<1> QED
  BY <1>3, <1>9, <1>10, <1>11

\* Product administration, with transactions that interleave statement by
\* statement, changes what orders read of products only as the whole handlers
\* of Orders do.
THEOREM AdminIsOrders == AdminSpec => ShelfAsInOrders
<1>1. AdminInv /\ [AdminNext]_adminVars => [Creates \/ O!ProductStep]_<<ShelfView, DeletedView>>
  <2> SUFFICES ASSUME AdminInv, [AdminNext]_adminVars
               PROVE  \/ Creates \/ O!ProductStep
                      \/ ShelfView' = ShelfView /\ DeletedView' = DeletedView
    OBVIOUS
  <2>1. CASE \E s \in Session : Commit(s)
    <3>1. PICK s \in Session : Commit(s)
      BY <2>1
    <3>2. CASE session[s].kind # "create"
      BY <3>1, <3>2, UpdateIsHandler
    <3>3. CASE session[s].kind = "create"
      <4>1. session[s].pc = "commit" /\ products' = [products EXCEPT ![session[s].product] = session[s].row]
        BY <3>1 DEF Commit
      <4>2. /\ session[s].product \in ProductId /\ ~Exists(session[s].product)
            /\ session[s].row # NoRow
        BY <3>3, <4>1, CommitsHave
      <4> QED
        BY <4>1, <4>2 DEF Creates, AdminInv, AdminTypeOK
    <3> QED
      BY <3>2, <3>3
  <2>2. CASE products' = products
    BY <2>2 DEF ShelfView, DeletedView, Live, Exists
  <2>3. CASE AdminNext /\ ~\E s \in Session : Commit(s)
    <3>1. ASSUME NEW s \in Session, SessionStarts(s)
          PROVE  products' = products
      BY <3>1 DEF SessionStarts, CreateProduct, UpdateProduct, UpdateProductStatus,
         DeleteProduct, RestoreProduct, Starts
    <3>2. ASSUME NEW s \in Session,
                 \/ CheckName(s) \/ InsertRow(s) \/ UpdateRow(s) \/ CreateEvent(s) \/ AdminFails(s)
          PROVE  products' = products
      BY <3>2 DEF CheckName, InsertRow, UpdateRow, CreateEvent, Goes, AdminFails, RollsBack
    <3>3. products' = products
      BY <2>3, <3>1, <3>2 DEF AdminNext
    <3> QED
      BY <2>2, <3>3
  <2> QED
    BY <2>1, <2>2, <2>3 DEF adminVars
<1> QED
  BY <1>1, AdminInvariance, PTL DEF AdminSpec, ShelfAsInOrders
=============================================================================
