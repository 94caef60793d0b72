------------------------------ MODULE OrderEdits ------------------------------
(***************************************************************************)
(* The update, partial_update and destroy endpoints of orders and returns, *)
(* running beside the stock endpoints of StockMutations.                   *)
(*                                                                         *)
(* An update loads its instance with get_object(), without a lock and      *)
(* outside any transaction, and decides on what it read.  Its transaction  *)
(* comes later, statement by statement: it may own the order's row from an *)
(* UPDATE or INSERT on, replaces the item rows, and ends with the foreign  *)
(* key checks PostgreSQL defers to the commit, each of which takes the     *)
(* referenced row FOR KEY SHARE.  What it writes is seen from its commit   *)
(* on; the rows it holds make handlers wait from the statement on.         *)
(***************************************************************************)
EXTENDS StockMutations

CONSTANTS Editors   \* the workers that serve updates and deletions

VARIABLES
  draft,    \* the update each editor serves, NoDraft when idle
  deleted   \* orders and returns that were deleted at some time

editVars == <<draft, deleted>>
allVars  == <<vars, editVars>>

(* order, status: the loaded instance; lines: the item list of the request *)
(* (<<>> when a PATCH names none), and a return's own line.  owns: the     *)
(* transaction has written the order's row.  seen: how many of the item    *)
(* rows now stored, the oldest ones, the DELETE had in its snapshot.       *)
(* checked: how many of the foreign keys have been checked.                *)
Stage   == {"loaded", "deleting", "replaced"}
NoDraft == [order |-> None, status |-> "absent", lines |-> <<>>,
            stage |-> "loaded", owns |-> FALSE, seen |-> 0, checked |-> 0]
Draft   == [order : Orders \cup {None}, status : {"absent", "open", "done"},
            lines : Seq(Line), stage : Stage, owns : BOOLEAN,
            seen : Nat, checked : Nat]

InitEdits == Init /\ draft = [e \in Editors |-> NoDraft] /\ deleted = {}

-----------------------------------------------------------------------------
(* Rows an update's transaction holds.                                     *)

Owned(e) == IF draft[e].owns THEN {draft[e].order} ELSE {}

(* The foreign keys to check, item row by item row in the client's order:  *)
(* the product first, its constraint being the older one, then the order   *)
(* the rows belong to (once) or the sale of a return.                      *)
Keys(e) ==
  LET d == draft[e]
      parent == IF d.order \in Returns THEN against[d.order] ELSE d.order
      n == Len(d.lines)
  IN IF d.order \in Returns /\ status[d.order] # "absent" THEN <<>>
     ELSE [i \in 1..(IF n = 0 THEN 0 ELSE n + 1) |->
             IF i = 1 THEN d.lines[1].product
             ELSE IF i = 2 THEN parent ELSE d.lines[i - 1].product]

Shared(e) == {Keys(e)[i] : i \in 1..draft[e].checked}

(* A row somebody else's transaction has FOR UPDATE.                       *)
ForUpdate(row) == lock[row] # None /\ Locks(lock[row])

(* One of the editors has deleted item rows of o and not committed yet.    *)
RowsTaken(editors, o) == \E d \in editors : /\ draft[d].order = o
                                            /\ draft[d].stage = "replaced"
                                            /\ draft[d].seen > 0

(* Every statement is written, what is left are the foreign keys.          *)
Finished(e) == \/ draft[e].stage = "replaced"
               \/ /\ draft[e].stage = "loaded"
                  /\ draft[e].owns
                  /\ draft[e].lines = <<>> \/ draft[e].order \in Returns

-----------------------------------------------------------------------------
Load(e, o, lines) ==
  /\ draft[e] = NoDraft
  /\ draft' = [draft EXCEPT ![e] = [NoDraft EXCEPT !.order = o, !.status = status[o],
                                                   !.lines = lines]]
  /\ UNCHANGED <<vars, deleted>>

(* get_object() and the 409 of an order already received or completed.     *)
LoadOrder(e, o, lines) ==
  /\ status[o] = "open"
  /\ \A i \in DOMAIN lines : active[lines[i].product]
  /\ Load(e, o, lines)

(* A return has no such check, and all its fields are read-only.           *)
LoadReturn(e, r) == status[r] # "absent" /\ Load(e, r, items[r])

-----------------------------------------------------------------------------
(* The statements of an update's transaction.                              *)

Advance(e, d) == draft' = [draft EXCEPT ![e] = d] /\ UNCHANGED <<vars, deleted>>

(* The UPDATE of the order's row.  save() of a sale or a return inserts    *)
(* the row again when it finds none; save(update_fields=...) of a purchase *)
(* order raises, and is left out by a PATCH without a supplier.            *)
WriteRow(e) ==
  LET o == draft[e].order IN
  /\ o # None /\ draft[e].stage = "loaded" /\ ~draft[e].owns
  /\ lock[o] = None
  /\ \A d \in Editors : o \notin Owned(d)
  /\ o \in PurchaseOrders => status[o] # "absent"
  /\ Advance(e, [draft[e] EXCEPT !.owns = TRUE])

(* A sale's items replaced as a purchase order's are, without its row.     *)
StartDeleteFault(e) ==
  LET o == draft[e].order IN
  /\ o \in PurchaseOrders \cup SalesOrders /\ draft[e].stage = "loaded"
  /\ draft[e].lines # <<>>
  /\ Advance(e, [draft[e] EXCEPT !.stage = "deleting", !.seen = Len(items[o])])

(* items.all().delete() takes its snapshot ...                             *)
StartDelete(e) ==
  LET o == draft[e].order IN
  /\ o \in PurchaseOrders \cup SalesOrders /\ draft[e].stage = "loaded"
  /\ draft[e].lines # <<>>
  /\ o \in SalesOrders => draft[e].owns
  /\ Advance(e, [draft[e] EXCEPT !.stage = "deleting", !.seen = Len(items[o])])

(* ... and waits for the rows in it; bulk_create inserts the new ones.     *)
ReplaceItems(e) ==
  /\ draft[e].stage = "deleting"
  /\ draft[e].seen > 0 => ~RowsTaken(Editors \ {e}, draft[e].order)
  /\ Advance(e, [draft[e] EXCEPT !.stage = "replaced"])

CheckKey(e) ==
  /\ Finished(e)
  /\ draft[e].checked < Len(Keys(e))
  /\ LET row == Keys(e)[draft[e].checked + 1] IN
       /\ ~ForUpdate(row)
       /\ row \in Orders \ Owned(e) => status[row] # "absent"
  /\ Advance(e, [draft[e] EXCEPT !.checked = @ + 1])

-----------------------------------------------------------------------------
(* The end of an update.                                                   *)

(* The n oldest item rows of o are gone from the snapshot of d.            *)
Without(d, o, n) ==
  IF d.order # o THEN d
  ELSE [d EXCEPT !.seen = IF @ > n THEN @ - n ELSE 0]

(* The old rows are not deleted.                                           *)
CommitItemsFault(e) ==
  items' = [items EXCEPT ![draft[e].order] = @ \o draft[e].lines]

(* The rows the DELETE saw go, those committed since stay.                 *)
CommitItems(e) ==
  items' = [items EXCEPT ![draft[e].order] =
              SubSeq(@, draft[e].seen + 1, Len(@)) \o draft[e].lines]

CommitStatus(e) == status' = [status EXCEPT ![draft[e].order] = draft[e].status]

CommitEdit(e, kind) ==
  /\ draft[e].order \in kind
  /\ Finished(e)
  /\ draft[e].checked = Len(Keys(e))
  /\ draft' = [d \in Editors |->
                 IF d = e THEN NoDraft
                 ELSE Without(draft[d], draft[e].order, draft[e].seen)]
  /\ UNCHANGED <<stock, active, ledger, posted, notices, against,
                 version, lock, pc, txn, deleted>>

(* A save() without update_fields.                                         *)
SavePurchaseOrderFault(e) ==
  /\ CommitEdit(e, PurchaseOrders)
  /\ CommitItems(e)
  /\ CommitStatus(e)

(* PurchaseOrderViewSet.update writes the supplier alone of the row.       *)
SavePurchaseOrder(e) ==
  /\ CommitEdit(e, PurchaseOrders)
  /\ CommitItems(e)
  /\ UNCHANGED status

(* SalesOrderViewSet.update writes every column as loaded.                 *)
SaveSalesOrder(e) ==
  /\ CommitEdit(e, SalesOrders)
  /\ CommitItems(e)
  /\ CommitStatus(e)

(* UpdateModelMixin on a return: nothing to change, everything is written. *)
SaveReturn(e) ==
  /\ CommitEdit(e, Returns)
  /\ items' = [items EXCEPT ![draft[e].order] = draft[e].lines]
  /\ CommitStatus(e)

(* The request dies, a foreign key or the row is missing, or PostgreSQL    *)
(* picks the transaction to break a deadlock: rollback.                    *)
AbortEdit(e) ==
  /\ draft[e] # NoDraft
  /\ Advance(e, NoDraft)

(* DestroyModelMixin: any status; on_delete=PROTECT keeps a sale that has  *)
(* returns.  It waits for whoever holds the row or one of its items.       *)
Destroy(o) ==
  /\ status[o] # "absent"
  /\ lock[o] = None
  /\ \A e \in Editors : o \notin Owned(e) \cup Shared(e)
  /\ ~RowsTaken(Editors, o)
  /\ o \in SalesOrders =>
       \A r \in Returns : against[r] = o => status[r] = "absent"
  /\ status' = [status EXCEPT ![o] = "absent"]
  /\ items' = [items EXCEPT ![o] = <<>>]
  /\ draft' = [d \in Editors |-> Without(draft[d], o, draft[d].seen)]
  /\ deleted' = deleted \cup {o}
  /\ UNCHANGED <<stock, active, ledger, posted, notices, against, version,
                 lock, pc, txn>>

(* select_for_update().get() of a row that is gone: DoesNotExist.          *)
MissingOrder(w) ==
  /\ pc[w] = "order"
  /\ status[txn[w].order] = "absent"
  /\ EndUnchanged(w)
  /\ UNCHANGED editVars

Edit(e) ==
  \/ \E o \in PurchaseOrders \cup SalesOrders, b \in Baskets \cup {<<>>} : LoadOrder(e, o, b)
  \/ \E r \in Returns : LoadReturn(e, r)
  \/ WriteRow(e) \/ StartDelete(e) \/ ReplaceItems(e) \/ CheckKey(e)
  \/ SavePurchaseOrder(e) \/ SaveSalesOrder(e) \/ SaveReturn(e) \/ AbortEdit(e)

(* A handler neither locks nor writes the order an update has written, nor *)
(* takes FOR UPDATE a row whose key an update has checked.                 *)
HandlersWait ==
  \A e \in Editors :
    /\ \A o \in Owned(e) : status'[o] = status[o] /\ lock'[o] = lock[o]
    /\ \A row \in Shared(e), w \in Workers :
         lock'[row] = w /\ Locks(w) => lock[row] = w
    /\ \A r \in Returns : against'[r] \in Owned(e) \cup Shared(e) =>
                             against'[r] = against[r]

(* A new row gets a new key, and the save() of a handler, which names its  *)
(* fields, inserts nothing.                                                *)
FreshKeys == \A o \in deleted : status[o] = "absent" => status'[o] = "absent"

NextEdits ==
  \/ Next /\ UNCHANGED editVars /\ HandlersWait /\ FreshKeys
  \/ \E e \in Editors : Edit(e)
  \/ \E o \in Orders : Destroy(o)
  \/ \E w \in Workers : MissingOrder(w)

EditSpec == InitEdits /\ [][NextEdits]_allVars

-----------------------------------------------------------------------------
EditTypeOK ==
  /\ TypeOK
  /\ draft \in [Editors -> Draft]
  /\ deleted \subseteq Orders

(* What an update holds.  That of a sale owns its row, alone and unlocked  *)
(* by any handler, from before it looks at the items, and so has them all  *)
(* in its snapshot; that of a purchase order may own nothing.              *)
UpdateInv(e) ==
  LET d == draft[e] IN
  /\ d.stage = "loaded" => d.seen = 0
  /\ d.stage # "loaded" /\ d.order \notin PurchaseOrders =>
       d.order \in SalesOrders /\ d.owns /\ d.seen = Len(items[d.order])
  /\ d.owns => /\ d.order # None /\ lock[d.order] = None
               /\ \A x \in Editors \ {e} : d.order \notin Owned(x)
  /\ d.order \in SalesOrders => d.lines \in Baskets \cup {<<>>}

EditorInv == \A e \in Editors : UpdateInv(e)

(* LedgerInv goes on holding, because updates leave stock and ledger alone *)
(* and bring no product twice onto a sale.                                 *)
EditLedgerInv == LedgerInv /\ EditorInv

(* However many updates of a sale race, and whether or not the sale is     *)
(* deleted and saved again meanwhile, its lines are those of one request:  *)
(* never two lists, nor a list half replaced.                              *)
SaleLinesWhole == \A so \in SalesOrders : items[so] \in Baskets \cup {<<>>}

(* Whatever is edited meanwhile, a purchase order is received once: its    *)
(* status stays and no later call adds units under its id.                 *)
ReceiptFinal ==
  [][\A o \in PurchaseOrders : status[o] = "done" =>
       /\ status'[o] \in {"done", "absent"}
       /\ posted'[o] = posted[o]]_allVars

(* README.md:95, 197-198 - every later call sees the new status, and an     *)
(* order is updated only before it is received or completed: once settled, *)
(* an order or a return keeps its status and its lines.                     *)
SettledFinal ==
  [][\A o \in Orders : status[o] = "done" /\ o \notin deleted' =>
       status'[o] = "done" /\ items'[o] = items[o]]_allVars
=============================================================================
