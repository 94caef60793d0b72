--------------------------- MODULE OrderEditsProofs ---------------------------
(* What holds of the stock endpoints alone and survives updates and         *)
(* deletions of orders, for every value of the constants.  EditorInv, what  *)
(* updates hold, comes first; the ledger and the notices rest on it.        *)
EXTENDS OrderEdits, StockLedgerProofs

EditTypeInv == EditTypeOK /\ Addressed

(* A list a client may send, or none.                                       *)
LEMMA BasketLines ==
  ASSUME NEW b \in Baskets \cup {<<>>}
  PROVE  /\ b \in Seq(Line)
         /\ SoundUse => DistinctProducts(b)
<1>1. CASE b \in Baskets
  BY <1>1, ConstantsAssumption DEF ConstantsAssumption, SoundUse
<1>2. CASE b = <<>>
  BY <1>2 DEF DistinctProducts
<1> QED
  BY <1>1, <1>2

(* An update that advances writes nothing of the database.                  *)
LEMMA AdvanceType ==
  ASSUME EditTypeInv, NEW e \in Editors, NEW d \in Draft, Advance(e, d)
  PROVE  EditTypeInv'
<1>1. UNCHANGED vars /\ UNCHANGED deleted /\ draft' = [draft EXCEPT ![e] = d]
  BY DEF Advance
<1>2. TypeOK' /\ Addressed'
  BY <1>1 DEF vars, dbVars, orderVars, TypeOK, Addressed, EditTypeInv, EditTypeOK
<1> QED
  BY <1>1, <1>2 DEF EditTypeInv, EditTypeOK

(* The stages an update goes through, each a draft.                         *)
LEMMA EditDrafts ==
  ASSUME EditTypeInv, NEW e \in Editors
  PROVE  /\ draft[e] \in Draft /\ NoDraft \in Draft
         /\ \A o \in Orders, b \in Seq(Line) :
              [NoDraft EXCEPT !.order = o, !.status = status[o], !.lines = b] \in Draft
         /\ [draft[e] EXCEPT !.owns = TRUE] \in Draft
         /\ \A n \in Nat : [draft[e] EXCEPT !.stage = "deleting", !.seen = n] \in Draft
         /\ [draft[e] EXCEPT !.stage = "replaced"] \in Draft
         /\ [draft[e] EXCEPT !.checked = @ + 1] \in Draft
<1>1. draft[e] \in Draft
  BY DEF EditTypeInv, EditTypeOK
<1>2. \A o \in Orders : status[o] \in {"absent", "open", "done"}
  BY DEF EditTypeInv, EditTypeOK, TypeOK
<1>3. NoDraft \in Draft
  BY DEF Draft, NoDraft, Stage
<1>4. \A o \in Orders, b \in Seq(Line) :
        [NoDraft EXCEPT !.order = o, !.status = status[o], !.lines = b] \in Draft
  BY <1>2, <1>3 DEF Draft
<1>5. [draft[e] EXCEPT !.owns = TRUE] \in Draft
  BY <1>1 DEF Draft
<1>6. \A n \in Nat : [draft[e] EXCEPT !.stage = "deleting", !.seen = n] \in Draft
  BY <1>1 DEF Draft, Stage
<1>7. [draft[e] EXCEPT !.stage = "replaced"] \in Draft
  BY <1>1 DEF Draft, Stage
<1>8. [draft[e] EXCEPT !.checked = @ + 1] \in Draft
  BY <1>1 DEF Draft
<1> QED
  BY <1>1, <1>3, <1>4, <1>5, <1>6, <1>7, <1>8

(* The kinds of an update's steps: it advances, or it commits.              *)
Advances(e) ==
  \E d \in Draft : Advance(e, d)

Commits(e) ==
  \/ CommitEdit(e, PurchaseOrders) /\ CommitItems(e) /\ UNCHANGED status
  \/ CommitEdit(e, SalesOrders) /\ CommitItems(e) /\ CommitStatus(e)
  \/ /\ CommitEdit(e, Returns)
     /\ items' = [items EXCEPT ![draft[e].order] = draft[e].lines]
     /\ CommitStatus(e)

LEMMA EditKinds ==
  ASSUME EditTypeInv, NEW e \in Editors, Edit(e)
  PROVE  Advances(e) \/ Commits(e)
<1>0. items \in [Orders -> Seq(Line)]
  BY DEF EditTypeInv, EditTypeOK, TypeOK
<1>1. ASSUME NEW o \in Orders, NEW b \in Seq(Line), Load(e, o, b) PROVE Advances(e)
  <2> DEFINE d == [NoDraft EXCEPT !.order = o, !.status = status[o], !.lines = b]
  <2>1. d \in Draft
    BY EditDrafts
  <2>2. Advance(e, d)
    BY <1>1 DEF Load, Advance
  <2> QED
    BY <2>1, <2>2 DEF Advances
<1>2. ASSUME NEW o \in PurchaseOrders \cup SalesOrders, NEW b \in Baskets \cup {<<>>},
             LoadOrder(e, o, b)
      PROVE  Advances(e)
  BY <1>1, <1>2, BasketLines DEF LoadOrder, Orders
<1>3. ASSUME NEW r \in Returns, LoadReturn(e, r) PROVE Advances(e)
  BY <1>0, <1>1, <1>3 DEF LoadReturn, Orders
<1>4. CASE StartDelete(e)
  <2>1. Len(items[draft[e].order]) \in Nat
    BY <1>0, <1>4 DEF StartDelete, Orders
  <2> QED
    BY <1>4, <2>1, EditDrafts DEF StartDelete, Advances
<1>5. CASE WriteRow(e) \/ ReplaceItems(e) \/ CheckKey(e) \/ AbortEdit(e)
  BY <1>5, EditDrafts DEF WriteRow, ReplaceItems, CheckKey, AbortEdit, Advances
<1>6. CASE SavePurchaseOrder(e) \/ SaveSalesOrder(e) \/ SaveReturn(e)
  BY <1>6 DEF SavePurchaseOrder, SaveSalesOrder, SaveReturn, Commits
<1> QED
  BY <1>2, <1>3, <1>4, <1>5, <1>6 DEF Edit

LEMMA WithoutDraft ==
  ASSUME NEW d \in Draft, NEW o, NEW n \in Nat
  PROVE  /\ Without(d, o, n) \in Draft
         /\ Without(d, o, n).order = d.order /\ Without(d, o, n).lines = d.lines
         /\ Without(d, o, n).stage = d.stage /\ Without(d, o, n).owns = d.owns
         /\ d.seen = 0 => Without(d, o, n).seen = 0
         /\ d.order # o => Without(d, o, n) = d
<1>1. (IF d.seen > n THEN d.seen - n ELSE 0) \in Nat
  BY DEF Draft
<1> QED
  BY <1>1 DEF Without, Draft

(* What a commit leaves alone, and what becomes of the other updates.       *)
LEMMA CommitStep ==
  ASSUME EditTypeInv, NEW e \in Editors, Commits(e)
  PROVE  /\ EditTypeInv'
         /\ UNCHANGED <<stock, ledger, posted, notices, against, lock, pc, txn, deleted>>
         /\ draft[e].order \in Orders /\ Finished(e)
         /\ draft'[e] = NoDraft
         /\ \A d \in Editors \ {e} :
              draft'[d] = Without(draft[d], draft[e].order, draft[e].seen)
         /\ \A o \in Orders \ {draft[e].order} : status'[o] = status[o] /\ items'[o] = items[o]
<1> DEFINE o == draft[e].order
<1>0. /\ draft \in [Editors -> Draft] /\ draft[e] \in Draft
      /\ draft[e].seen \in Nat /\ draft[e].lines \in Seq(Line)
      /\ draft[e].status \in {"absent", "open", "done"}
      /\ items \in [Orders -> Seq(Line)] /\ status \in [Orders -> {"absent", "open", "done"}]
  BY DEF EditTypeInv, EditTypeOK, TypeOK, Draft
<1>1. /\ o \in Orders /\ Finished(e)
      /\ draft' = [d \in Editors |-> IF d = e THEN NoDraft
                                     ELSE Without(draft[d], o, draft[e].seen)]
      /\ UNCHANGED <<stock, active, ledger, posted, notices, against,
                     version, lock, pc, txn, deleted>>
  BY DEF Commits, CommitEdit, Orders
<1>2. draft' \in [Editors -> Draft]
  BY <1>0, <1>1, WithoutDraft, EditDrafts
<1>3. /\ items' \in [Orders -> Seq(Line)]
      /\ \A x \in Orders \ {o} : items'[x] = items[x]
  <2>1. SubSeq(items[o], draft[e].seen + 1, Len(items[o])) \in Seq(Line)
    BY <1>0, <1>1
  <2>2. SubSeq(items[o], draft[e].seen + 1, Len(items[o])) \o draft[e].lines \in Seq(Line)
    BY <1>0, <2>1
  <2>3. CASE CommitItems(e)
    BY <1>0, <1>1, <2>2, <2>3 DEF CommitItems
  <2>4. CASE items' = [items EXCEPT ![o] = draft[e].lines]
    BY <1>0, <1>1, <2>4
  <2> QED
    BY <2>3, <2>4 DEF Commits
<1>4. /\ status' \in [Orders -> {"absent", "open", "done"}]
      /\ \A x \in Orders \ {o} : status'[x] = status[x]
  BY <1>0, <1>1 DEF Commits, CommitStatus
<1>5. TypeOK' /\ Addressed'
  BY <1>1, <1>3, <1>4 DEF TypeOK, Addressed, EditTypeInv, EditTypeOK
<1> QED
  BY <1>1, <1>2, <1>3, <1>4, <1>5 DEF EditTypeInv, EditTypeOK

LEMMA DestroyStep ==
  ASSUME EditTypeInv, NEW o \in Orders, Destroy(o)
  PROVE  /\ EditTypeInv'
         /\ UNCHANGED <<stock, ledger, posted, notices, lock, pc, txn>>
         /\ lock[o] = None /\ status'[o] = "absent" /\ items'[o] = <<>>
         /\ \A x \in Orders \ {o} : status'[x] = status[x] /\ items'[x] = items[x]
         /\ \A d \in Editors : /\ o \notin Owned(d)
                                /\ draft'[d] = Without(draft[d], o, draft[d].seen)
<1>1. /\ status' = [status EXCEPT ![o] = "absent"]
      /\ items' = [items EXCEPT ![o] = <<>>]
      /\ draft' = [d \in Editors |-> Without(draft[d], o, draft[d].seen)]
      /\ deleted' = deleted \cup {o}
      /\ lock[o] = None /\ \A d \in Editors : o \notin Owned(d)
      /\ UNCHANGED <<stock, active, ledger, posted, notices, against, version,
                     lock, pc, txn>>
  BY DEF Destroy
<1>2. /\ items \in [Orders -> Seq(Line)] /\ status \in [Orders -> {"absent", "open", "done"}]
      /\ draft \in [Editors -> Draft]
  BY DEF EditTypeInv, EditTypeOK, TypeOK
<1>3. draft' \in [Editors -> Draft]
  <2>1. \A d \in Editors : draft[d].seen \in Nat /\ draft[d] \in Draft
    BY <1>2 DEF Draft
  <2> QED
    BY <1>1, <2>1, WithoutDraft
<1>4. TypeOK' /\ Addressed'
  BY <1>1, <1>2 DEF TypeOK, Addressed, EditTypeInv, EditTypeOK
<1> QED
  BY <1>1, <1>2, <1>3, <1>4 DEF EditTypeInv, EditTypeOK

(* A handler that leaves an order's status alone leaves its lines alone;    *)
(* one that files a sale gives it the lines of a request.                   *)
LEMMA HandlerItems ==
  ASSUME EditTypeInv, Next, NEW so \in SalesOrders
  PROVE  items'[so] = items[so] \/ (items'[so] \in Baskets /\ status'[so] # status[so])
<1>0. /\ items \in [Orders -> Seq(Line)] /\ status \in [Orders -> {"absent", "open", "done"}]
      /\ so \in Orders /\ so \notin Returns
  BY ConstantsAssumption DEF EditTypeInv, EditTypeOK, TypeOK, Orders, ConstantsAssumption
<1>1. ASSUME NEW o \in PurchaseOrders \cup SalesOrders, NEW b \in Baskets, CreateOrder(o, b)
      PROVE  items'[so] = items[so] \/ (items'[so] \in Baskets /\ status'[so] # status[so])
  BY <1>0, <1>1 DEF CreateOrder
<1>2. ASSUME NEW r \in Returns, NEW x \in SalesOrders, NEW p \in Products,
             NEW q \in ReturnQuantities, FileReturn(r, x, p, q)
      PROVE  items'[so] = items[so]
  BY <1>0, <1>2 DEF FileReturn
<1>3. ASSUME NEW p \in Products, DeactivateProduct(p) PROVE items' = items
  BY <1>3 DEF DeactivateProduct, orderVars
<1>4. ASSUME NEW w \in Workers, Request(w) \/ Abort(w) \/ LockOrder(w) \/ RefuseReplay(w)
             \/ ReadItems(w) \/ CheckLine(w) \/ RefuseSale(w) \/ RefuseInactive(w)
             \/ RefuseWriteOff(w) \/ Commit(w) \/ Bump(w)
      PROVE  items' = items
  BY <1>4 DEF Request, RequestOrder, RequestWriteOff, Abort, LockOrder, RefuseReplay, ReadItems,
              CheckLine, RefuseSale, RefuseInactive, RefuseWriteOff, Commit, Bump, EndUnchanged,
              orderVars
<1>5. ASSUME NEW w \in Workers, Writing(w) PROVE items' = items
  BY <1>5, WritingStep DEF EditTypeInv, EditTypeOK, TypeInv
<1>6. CASE File
  BY <1>1, <1>2, <1>3, <1>6 DEF File
<1> QED
  BY <1>4, <1>5, <1>6, StepCases DEF Reading, Ending

(* Who holds what: the invariant of the updates, and what it buys, that the *)
(* lines of a sale are those of one request.                                *)
EditRowInv == EditorInv /\ SaleLinesWhole

LEMMA HandlerRows ==
  ASSUME EditTypeInv, EditRowInv, Next, UNCHANGED editVars,
         \A e \in Editors : \A o \in Owned(e) : status'[o] = status[o] /\ lock'[o] = lock[o]
  PROVE  EditRowInv'
<1>1. SaleLinesWhole'
  BY HandlerItems DEF EditRowInv, SaleLinesWhole
<1>2. ASSUME NEW e \in Editors PROVE UpdateInv(e)'
  <2>1. UpdateInv(e) /\ draft' = draft
    BY DEF EditRowInv, EditorInv, editVars
  <2>2. \A x \in Editors : Owned(x)' = Owned(x)
    BY <2>1 DEF Owned
  <2>3. draft[e].owns => /\ status'[draft[e].order] = status[draft[e].order]
                         /\ lock'[draft[e].order] = lock[draft[e].order]
    BY DEF Owned
  <2>4. draft[e].order \in SalesOrders /\ draft[e].owns =>
          items'[draft[e].order] = items[draft[e].order]
    BY <2>3, HandlerItems
  <2> QED
    BY <2>1, <2>2, <2>3, <2>4 DEF UpdateInv
<1> QED
  BY <1>1, <1>2 DEF EditRowInv, EditorInv

LEMMA IdleUpdate ==
  ASSUME NEW e \in Editors, draft'[e] = NoDraft
  PROVE  UpdateInv(e)' /\ Owned(e)' = {}
<1>1. None \notin SalesOrders
  BY ConstantsAssumption DEF ConstantsAssumption, Rows, Orders
<1> QED
  BY <1>1 DEF UpdateInv, Owned, NoDraft

(* An update that advances touches no row but by WriteRow, which takes one  *)
(* nobody holds.                                                            *)
LEMMA AdvanceRows ==
  ASSUME EditTypeInv, EditRowInv, NEW e \in Editors, NEW d \in Draft, Advance(e, d),
         d.owns /\ ~draft[e].owns =>
           d.order = draft[e].order /\ d.order # None /\ lock[d.order] = None
           /\ \A x \in Editors : d.order \notin Owned(x),
         d.owns /\ draft[e].owns => d.order = draft[e].order,
         d.stage = "loaded" => d.seen = 0,
         d.stage # "loaded" /\ d.order \notin PurchaseOrders =>
           d.order \in SalesOrders /\ d.owns /\ d.seen = Len(items[d.order]),
         d.order \in SalesOrders => d.lines \in Baskets \cup {<<>>}
  PROVE  EditRowInv'
<1>1. /\ draft \in [Editors -> Draft] /\ draft' = [draft EXCEPT ![e] = d]
      /\ UNCHANGED <<items, lock>>
  BY DEF Advance, vars, orderVars, EditTypeInv, EditTypeOK
<1>2. draft'[e] = d /\ \A x \in Editors \ {e} : draft'[x] = draft[x]
  BY <1>1
<1>3. /\ Owned(e)' \subseteq {d.order}
      /\ \A x \in Editors \ {e} : Owned(x)' = Owned(x)
  BY <1>2 DEF Owned
<1>4. UpdateInv(e)'
  <2>1. UpdateInv(e)
    BY DEF EditRowInv, EditorInv
  <2>2. d.owns => /\ d.order # None /\ lock[d.order] = None
                  /\ \A x \in Editors \ {e} : d.order \notin Owned(x)
    BY <2>1 DEF UpdateInv
  <2> QED
    BY <1>1, <1>2, <1>3, <2>2 DEF UpdateInv
<1>5. ASSUME NEW x \in Editors \ {e} PROVE UpdateInv(x)'
  <2>1. UpdateInv(x)
    BY DEF EditRowInv, EditorInv
  <2>2. draft[x].owns => draft[x].order \notin Owned(e)'
    <3>1. SUFFICES ASSUME draft[x].owns, d.owns, d.order = draft[x].order PROVE FALSE
      BY <1>2 DEF Owned
    <3>2. draft[x].order \in Owned(x) /\ draft[x].order \notin Owned(e)
      BY <2>1, <3>1 DEF UpdateInv, Owned
    <3>3. ~draft[e].owns
      BY <3>1, <3>2 DEF Owned
    <3> QED
      BY <3>1, <3>2, <3>3
  <2>3. \A y \in Editors \ {x} : draft[x].owns => draft[x].order \notin Owned(y)'
    BY <1>3, <2>1, <2>2 DEF UpdateInv
  <2> QED
    BY <1>1, <1>2, <2>1, <2>3 DEF UpdateInv
<1> QED
  BY <1>1, <1>4, <1>5 DEF EditRowInv, EditorInv, SaleLinesWhole

LEMMA EditAdvances ==
  ASSUME EditTypeInv, EditRowInv, NEW e \in Editors, Edit(e)
  PROVE  EditRowInv' \/ Commits(e)
<1>0. /\ UpdateInv(e) /\ draft[e] \in Draft /\ items \in [Orders -> Seq(Line)]
      /\ None \notin Orders
  BY ConstantsAssumption
     DEF EditRowInv, EditorInv, EditTypeInv, EditTypeOK, TypeOK, ConstantsAssumption, Rows
<1>1. ASSUME NEW o \in Orders, NEW b \in Seq(Line), Load(e, o, b),
             o \in SalesOrders => b \in Baskets \cup {<<>>}
      PROVE  EditRowInv'
  <2> DEFINE d == [NoDraft EXCEPT !.order = o, !.status = status[o], !.lines = b]
  <2>1. d \in Draft
    BY EditDrafts
  <2>2. Advance(e, d)
    BY <1>1 DEF Load, Advance
  <2>3. ~d.owns /\ d.stage = "loaded" /\ d.seen = 0 /\ d.order = o /\ d.lines = b
    BY DEF NoDraft
  <2> HIDE DEF d
  <2> QED
    BY <1>1, <2>1, <2>2, <2>3, AdvanceRows
<1>2. ASSUME NEW o \in PurchaseOrders \cup SalesOrders, NEW b \in Baskets \cup {<<>>},
             LoadOrder(e, o, b)
      PROVE  EditRowInv'
  BY <1>1, <1>2, BasketLines DEF LoadOrder, Orders
<1>3. ASSUME NEW r \in Returns, LoadReturn(e, r) PROVE EditRowInv'
  BY <1>0, <1>1, <1>3, ConstantsAssumption DEF LoadReturn, Orders, ConstantsAssumption
<1>4. CASE WriteRow(e)
  <2> DEFINE d == [draft[e] EXCEPT !.owns = TRUE]
  <2>1. d \in Draft /\ Advance(e, d)
    BY <1>4, EditDrafts DEF WriteRow
  <2>2. /\ d.order = draft[e].order /\ d.lines = draft[e].lines
        /\ d.stage = "loaded" /\ d.seen = draft[e].seen /\ draft[e].stage = "loaded"
    BY <1>0, <1>4 DEF WriteRow, Draft
  <2>3. /\ ~draft[e].owns /\ d.order # None /\ lock[d.order] = None
        /\ \A x \in Editors : d.order \notin Owned(x)
    BY <1>4, <2>2 DEF WriteRow
  <2> HIDE DEF d
  <2> QED
    BY <1>0, <2>1, <2>2, <2>3, AdvanceRows DEF UpdateInv
<1>5. CASE StartDelete(e)
  <2> DEFINE n == Len(items[draft[e].order])
             d == [draft[e] EXCEPT !.stage = "deleting", !.seen = n]
  <2>1. n \in Nat /\ draft[e].order \in PurchaseOrders \cup SalesOrders
    BY <1>0, <1>5 DEF StartDelete, Orders
  <2>2. d \in Draft /\ Advance(e, d)
    BY <1>5, <2>1, EditDrafts DEF StartDelete
  <2>3. /\ d.order = draft[e].order /\ d.lines = draft[e].lines
        /\ d.stage = "deleting" /\ d.seen = n /\ d.owns = draft[e].owns
    BY <1>0 DEF Draft
  <2>4. d.order \in SalesOrders => d.owns
    BY <1>5, <2>3 DEF StartDelete
  <2> HIDE DEF d
  <2> QED
    BY <1>0, <2>1, <2>2, <2>3, <2>4, AdvanceRows DEF UpdateInv
<1>6. ASSUME NEW d \in Draft, Advance(e, d), d.order = draft[e].order, d.lines = draft[e].lines,
             d.seen = draft[e].seen, d.owns = draft[e].owns,
             (d.stage = "loaded") = (draft[e].stage = "loaded")
      PROVE  EditRowInv'
  BY <1>0, <1>6, AdvanceRows DEF UpdateInv
<1>7. CASE ReplaceItems(e)
  <2> DEFINE d == [draft[e] EXCEPT !.stage = "replaced"]
  <2>1. d \in Draft /\ Advance(e, d)
    BY <1>7, EditDrafts DEF ReplaceItems
  <2>2. /\ d.order = draft[e].order /\ d.lines = draft[e].lines /\ d.seen = draft[e].seen
        /\ d.owns = draft[e].owns /\ (d.stage = "loaded") = (draft[e].stage = "loaded")
    BY <1>0, <1>7 DEF Draft, ReplaceItems
  <2> HIDE DEF d
  <2> QED
    BY <1>6, <2>1, <2>2
<1>8. CASE CheckKey(e)
  <2> DEFINE d == [draft[e] EXCEPT !.checked = @ + 1]
  <2>1. d \in Draft /\ Advance(e, d)
    BY <1>8, EditDrafts DEF CheckKey
  <2>2. /\ d.order = draft[e].order /\ d.lines = draft[e].lines /\ d.seen = draft[e].seen
        /\ d.owns = draft[e].owns /\ (d.stage = "loaded") = (draft[e].stage = "loaded")
    BY <1>0 DEF Draft
  <2> HIDE DEF d
  <2> QED
    BY <1>6, <2>1, <2>2
<1>9. CASE AbortEdit(e)
  <2>1. Advance(e, NoDraft) /\ NoDraft \in Draft
    BY <1>9, EditDrafts DEF AbortEdit
  <2>2. /\ ~NoDraft.owns /\ NoDraft.stage = "loaded" /\ NoDraft.seen = 0
        /\ NoDraft.order \notin SalesOrders
    BY <1>0 DEF NoDraft, Orders
  <2> QED
    BY <2>1, <2>2, AdvanceRows
<1>10. CASE SavePurchaseOrder(e) \/ SaveSalesOrder(e) \/ SaveReturn(e)
  BY <1>10 DEF SavePurchaseOrder, SaveSalesOrder, SaveReturn, Commits
<1> QED
  BY <1>2, <1>3, <1>4, <1>5, <1>7, <1>8, <1>9, <1>10 DEF Edit

(* A commit that writes the status, or a sale's lines, is of an update that *)
(* owns the row, and alone.                                                 *)
LEMMA CommitOwner ==
  ASSUME EditTypeInv, EditRowInv, NEW e \in Editors, Commits(e)
  PROVE  draft[e].order \notin PurchaseOrders =>
           /\ draft[e].owns /\ lock[draft[e].order] = None
           /\ \A x \in Editors \ {e} : draft[e].order \notin Owned(x)
<1>1. UpdateInv(e)
  BY DEF EditRowInv, EditorInv
<1>2. Finished(e)
  BY CommitStep
<1> QED
  BY <1>1, <1>2 DEF UpdateInv, Finished

LEMMA CommitRows ==
  ASSUME EditTypeInv, EditRowInv, NEW e \in Editors, Commits(e)
  PROVE  EditRowInv'
<1> DEFINE o == draft[e].order
<1>0. /\ UpdateInv(e) /\ Finished(e) /\ o \in Orders /\ lock' = lock
      /\ draft \in [Editors -> Draft] /\ items \in [Orders -> Seq(Line)]
      /\ draft[e].lines \in Seq(Line) /\ items[o] \in Seq(Line)
  BY CommitStep DEF EditRowInv, EditorInv, EditTypeInv, EditTypeOK, TypeOK, Draft
<1>1. ASSUME NEW so \in SalesOrders PROVE items'[so] \in Baskets \cup {<<>>}
  <2>0. so \in Orders /\ so \notin PurchaseOrders /\ so \notin Returns
    BY ConstantsAssumption DEF Orders, ConstantsAssumption
  <2>1. CASE so # o
    BY <2>0, <2>1, CommitStep DEF EditRowInv, SaleLinesWhole
  <2>2. CASE so = o
    <3>1. items'[o] = SubSeq(items[o], draft[e].seen + 1, Len(items[o])) \o draft[e].lines
      BY <1>0, <2>0, <2>2 DEF Commits, CommitEdit, CommitItems
    <3>2. CASE draft[e].stage = "loaded"
      <4>1. draft[e].seen = 0 /\ draft[e].lines = <<>>
        BY <1>0, <2>0, <2>2, <3>2 DEF UpdateInv, Finished
      <4>2. items'[o] = items[o]
        BY <1>0, <3>1, <4>1
      <4> QED
        BY <2>2, <4>2 DEF EditRowInv, SaleLinesWhole
    <3>3. CASE draft[e].stage # "loaded"
      <4>1. draft[e].seen = Len(items[o])
        BY <1>0, <2>0, <2>2, <3>3 DEF UpdateInv
      <4>2. items'[o] = draft[e].lines
        BY <1>0, <3>1, <4>1
      <4> QED
        BY <1>0, <2>2, <4>2 DEF UpdateInv
    <3> QED
      BY <3>2, <3>3
  <2> QED
    BY <2>1, <2>2
<1>2. \A x \in Editors \ {e} :
        /\ draft[x] \in Draft
        /\ draft'[x] = Without(draft[x], o, draft[e].seen)
        /\ draft'[x].order = draft[x].order /\ draft'[x].lines = draft[x].lines
        /\ draft'[x].stage = draft[x].stage /\ draft'[x].owns = draft[x].owns
        /\ draft[x].seen = 0 => draft'[x].seen = 0
        /\ draft[x].order # o => draft'[x] = draft[x]
  <2>1. draft[e].seen \in Nat
    BY <1>0 DEF Draft
  <2> QED
    BY <1>0, <2>1, CommitStep, WithoutDraft
<1>3. UpdateInv(e)' /\ Owned(e)' = {}
  BY CommitStep, IdleUpdate
<1>4. ASSUME NEW x \in Editors \ {e} PROVE UpdateInv(x)'
  <2>1. UpdateInv(x)
    BY DEF EditRowInv, EditorInv
  <2>2. \A y \in Editors : Owned(y)' \subseteq Owned(y)
    BY <1>2, <1>3 DEF Owned
  <2>3. CASE draft[x].order # o
    <3>1. draft'[x] = draft[x]
      BY <1>2, <2>3
    <3>2. draft[x].order \in SalesOrders => items'[draft[x].order] = items[draft[x].order]
      BY <2>3, CommitStep DEF Orders
    <3> QED
      BY <1>0, <2>1, <2>2, <3>1, <3>2 DEF UpdateInv
  <2>4. CASE draft[x].order = o
    <3>1. o \notin PurchaseOrders => ~draft[x].owns /\ draft[x].stage = "loaded"
      BY <2>1, <2>4, CommitOwner DEF UpdateInv, Owned
    <3> QED
      BY <1>0, <1>2, <2>1, <2>2, <2>4, <3>1 DEF UpdateInv
  <2> QED
    BY <2>3, <2>4
<1> QED
  BY <1>1, <1>3, <1>4 DEF EditRowInv, EditorInv, SaleLinesWhole

LEMMA DestroyRows ==
  ASSUME EditTypeInv, EditRowInv, NEW o \in Orders, Destroy(o)
  PROVE  EditRowInv'
<1>0. /\ lock' = lock /\ items'[o] = <<>>
      /\ \A x \in Orders \ {o} : items'[x] = items[x]
  BY DestroyStep
<1>1. SaleLinesWhole'
  BY <1>0 DEF EditRowInv, SaleLinesWhole, Orders
<1>2. \A x \in Editors :
        /\ o \notin Owned(x)
        /\ draft'[x].order = draft[x].order /\ draft'[x].lines = draft[x].lines
        /\ draft'[x].stage = draft[x].stage /\ draft'[x].owns = draft[x].owns
        /\ draft[x].seen = 0 => draft'[x].seen = 0
        /\ draft[x].order # o => draft'[x] = draft[x]
  <2>1. \A x \in Editors : draft[x] \in Draft /\ draft[x].seen \in Nat
    BY DEF EditTypeInv, EditTypeOK, Draft
  <2> QED
    BY <2>1, DestroyStep, WithoutDraft
<1>3. ASSUME NEW x \in Editors PROVE UpdateInv(x)'
  <2>1. UpdateInv(x)
    BY DEF EditRowInv, EditorInv
  <2>2. \A y \in Editors : Owned(y)' = Owned(y)
    BY <1>2 DEF Owned
  <2>3. CASE draft[x].order # o
    <3>1. draft[x].order \in SalesOrders => items'[draft[x].order] = items[draft[x].order]
      BY <1>0, <2>3 DEF Orders
    <3> QED
      BY <1>0, <1>2, <2>1, <2>2, <2>3, <3>1 DEF UpdateInv
  <2>4. CASE draft[x].order = o
    <3>1. ~draft[x].owns
      BY <1>2, <2>4 DEF Owned
    <3> QED
      BY <1>2, <2>1, <2>2, <2>4, <3>1 DEF UpdateInv
  <2> QED
    BY <2>3, <2>4
<1> QED
  BY <1>1, <1>3 DEF EditRowInv, EditorInv

(* Changing item lists to lists without duplicates disturbs no worker.      *)
LEMMA ItemsOnly ==
  ASSUME EditTypeInv, LedgerInv, UNCHANGED <<stock, ledger, lock, pc, txn>>,
         \A so \in SalesOrders : DistinctProducts(items'[so])
  PROVE  LedgerInv'
<1>1. \A v \in Workers : WorkerInv(v)'
  BY Frame DEF EditTypeInv, EditTypeOK, TypeInv
<1> QED
  BY <1>1 DEF LedgerInv, StockMatchesLedger

(* Every step beside the handlers': an update's, a deletion, a request that *)
(* finds no order.                                                          *)
LEMMA NextEditRows ==
  ASSUME EditTypeInv, EditRowInv, [NextEdits]_allVars
  PROVE  EditTypeInv' /\ EditRowInv'
<1>0. TypeOK /\ Addressed
  BY DEF EditTypeInv, EditTypeOK
<1>1. CASE Next /\ UNCHANGED editVars /\ HandlersWait
  <2>1. EditTypeInv'
    BY <1>0, <1>1, TypeStep DEF EditTypeInv, EditTypeOK, editVars
  <2> QED
    BY <1>1, <2>1, HandlerRows DEF HandlersWait
<1>2. ASSUME NEW e \in Editors, Edit(e) PROVE EditTypeInv' /\ EditRowInv'
  BY <1>2, EditKinds, EditAdvances, CommitStep, CommitRows, AdvanceType DEF Advances
<1>3. ASSUME NEW o \in Orders, Destroy(o) PROVE EditTypeInv' /\ EditRowInv'
  BY <1>3, DestroyStep, DestroyRows
<1>4. ASSUME NEW w \in Workers, MissingOrder(w) PROVE EditTypeInv' /\ EditRowInv'
  <2>1. EndUnchanged(w) /\ UNCHANGED editVars /\ Abort(w)
    BY <1>4 DEF MissingOrder, Abort
  <2>2. TypeOK' /\ Addressed'
    BY <1>0, <2>1, RefusalType, ServeAddressed
  <2>3. \A e \in Editors : \A o \in Owned(e) : status'[o] = status[o] /\ lock'[o] = lock[o]
    <3>1. /\ status' = status
          /\ lock' = [r \in Rows |-> IF lock[r] = w THEN None ELSE lock[r]]
      BY <2>1 DEF EndUnchanged, Released, dbVars
    <3>2. \A v \in Workers : v # None
      BY NoneApart
    <3>3. \A e \in Editors : \A o \in Owned(e) : lock[o] = None /\ o \in Orders
      <4>1. \A e \in Editors : draft[e].order \in Orders \cup {None} /\ UpdateInv(e)
        BY DEF EditTypeInv, EditTypeOK, Draft, EditRowInv, EditorInv
      <4> QED
        BY <4>1 DEF Owned, UpdateInv
    <3> QED
      BY <3>1, <3>2, <3>3 DEF Rows
  <2> QED
    BY <2>1, <2>2, <2>3, HandlerRows DEF EditTypeInv, EditTypeOK, editVars, Next
<1>5. CASE UNCHANGED allVars
  <2>1. UNCHANGED vars /\ UNCHANGED editVars
    BY <1>5 DEF allVars
  <2>2. EditTypeInv'
    BY <1>0, <2>1, TypeStep DEF EditTypeInv, EditTypeOK, editVars
  <2>3. EditRowInv'
    BY <2>1 DEF EditRowInv, EditorInv, UpdateInv, Owned, SaleLinesWhole, vars, orderVars, editVars
  <2> QED
    BY <2>2, <2>3
<1> QED
  BY <1>1, <1>2, <1>3, <1>4, <1>5 DEF NextEdits

LEMMA InitEditRows == InitEdits => EditTypeInv /\ EditRowInv
<1> SUFFICES ASSUME InitEdits PROVE EditTypeInv /\ EditRowInv
  OBVIOUS
<1>1. TypeOK /\ Addressed
  BY InitType, ConstantsAssumption DEF InitEdits
<1>2. NoDraft \in Draft
  BY DEF NoDraft, Draft, Stage
<1>3. EditTypeInv
  BY <1>1, <1>2 DEF InitEdits, EditTypeInv, EditTypeOK
<1>4. None \notin SalesOrders
  BY ConstantsAssumption DEF ConstantsAssumption, Rows, Orders
<1>5. EditorInv
  BY <1>4 DEF InitEdits, NoDraft, EditorInv, UpdateInv
<1>6. SaleLinesWhole
  BY DEF InitEdits, Init, SaleLinesWhole, Orders
<1> QED
  BY <1>3, <1>5, <1>6 DEF EditRowInv

LEMMA EditRows == EditSpec => [](EditTypeInv /\ EditRowInv)
<1>1. EditTypeInv /\ EditRowInv /\ [NextEdits]_allVars => (EditTypeInv /\ EditRowInv)'
  BY NextEditRows
<1> QED
  BY <1>1, InitEditRows, PTL DEF EditSpec

(* Drafts, statuses and item lists keep their types beside the stock        *)
(* endpoints, locked or not, and whatever deleted rows are saved again.     *)
THEOREM EditTypeTheorem == EditSpec => []EditTypeOK
<1>1. EditTypeInv => EditTypeOK
  BY DEF EditTypeInv
<1> QED
  BY <1>1, EditRows, PTL

(* However many updates of a sale race with each other, with its completion *)
(* and its deletion, its lines are always the whole list of one request.    *)
THEOREM SaleLinesTheorem == EditSpec => []SaleLinesWhole
<1>1. EditRowInv => SaleLinesWhole
  BY DEF EditRowInv
<1> QED
  BY <1>1, EditRows, PTL

-----------------------------------------------------------------------------
(* The ledger.                                                              *)

(* What the proofs below need of a step: it is one of the handlers', which  *)
(* StockLedgerProofs deals with, or it is an edit, which leaves the workers *)
(* alone and what they have locked.                                         *)
LEMMA EditCases ==
  ASSUME EditTypeInv, EditRowInv, [NextEdits]_allVars
  PROVE  \/ [Next]_vars
         \/ /\ UNCHANGED <<stock, ledger, posted, notices, lock, pc, txn>>
            /\ \A o \in Orders : lock[o] # None => status'[o] = status[o]
            /\ \A o \in PurchaseOrders : status'[o] \in {status[o], "absent"}
<1>0. PurchaseOrders \subseteq Orders
  BY DEF Orders
<1>1. ASSUME NEW e \in Editors, Commits(e)
      PROVE  /\ UNCHANGED <<stock, ledger, posted, notices, lock, pc, txn>>
             /\ \A o \in Orders : lock[o] # None => status'[o] = status[o]
             /\ \A o \in PurchaseOrders : status'[o] \in {status[o], "absent"}
  <2>1. draft[e].order \in PurchaseOrders => status' = status
    BY <1>1, ConstantsAssumption DEF Commits, CommitEdit, ConstantsAssumption
  <2> QED
    BY <1>0, <1>1, <2>1, CommitStep, CommitOwner
<1>2. ASSUME NEW e \in Editors, Edit(e), ~Commits(e) PROVE UNCHANGED vars
  BY <1>2, EditKinds DEF Advances, Advance
<1>3. ASSUME NEW o \in Orders, Destroy(o)
      PROVE  /\ UNCHANGED <<stock, ledger, posted, notices, lock, pc, txn>>
             /\ \A x \in Orders : lock[x] # None => status'[x] = status[x]
             /\ \A x \in PurchaseOrders : status'[x] \in {status[x], "absent"}
  BY <1>0, <1>3, DestroyStep
<1>4. ASSUME NEW w \in Workers, MissingOrder(w) PROVE Next
  BY <1>4 DEF MissingOrder, Abort, Next
<1>5. UNCHANGED allVars => UNCHANGED vars
  BY DEF allVars
<1> QED
  BY <1>1, <1>2, <1>3, <1>4, <1>5 DEF NextEdits

LEMMA NextEditLedger ==
  ASSUME SoundUse, EditTypeInv, EditRowInv, EditLedgerInv, [NextEdits]_allVars
  PROVE  EditLedgerInv'
<1>0. TypeInv /\ LedgerInv
  BY DEF EditTypeInv, EditTypeOK, TypeInv, EditLedgerInv
<1>1. EditRowInv'
  BY NextEditRows
<1>2. \A so \in SalesOrders : DistinctProducts(items'[so])
  BY <1>1, BasketLines DEF EditRowInv, SaleLinesWhole
<1>3. CASE [Next]_vars
  BY <1>0, <1>1, <1>3, NextLedger DEF EditRowInv, EditLedgerInv
<1>4. CASE UNCHANGED <<stock, ledger, lock, pc, txn>>
  BY <1>0, <1>1, <1>2, <1>4, ItemsOnly DEF EditRowInv, EditLedgerInv
<1> QED
  BY <1>3, <1>4, EditCases

(* No update or deletion disturbs what the ledger's invariant rests on,     *)
(* though rows deleted under a running update come back.                    *)
THEOREM EditLedgerInductive == SoundUse => (EditSpec => []EditLedgerInv)
<1> SUFFICES ASSUME SoundUse PROVE EditSpec => []EditLedgerInv
  OBVIOUS
<1>1. InitEdits => EditLedgerInv
  BY InitLedger, InitEditRows DEF InitEdits, EditLedgerInv, EditRowInv
<1>2. EditTypeInv /\ EditRowInv /\ EditLedgerInv /\ [NextEdits]_allVars => EditLedgerInv'
  BY NextEditLedger
<1> QED
  BY <1>1, <1>2, EditRows, PTL DEF EditSpec

(* Updates and deletions race with the stock endpoints in every way the     *)
(* code allows, and still every unit in stock is one the ledger accounts    *)
(* for, for any number of workers, editors, products and orders.            *)
THEOREM EditsLedgerTheorem == SoundUse => (EditSpec => []StockMatchesLedger)
<1> SUFFICES ASSUME SoundUse PROVE EditSpec => []StockMatchesLedger
  OBVIOUS
<1>1. EditLedgerInv => StockMatchesLedger
  BY DEF EditLedgerInv, LedgerInv
<1> QED
  BY <1>1, EditLedgerInductive, PTL

-----------------------------------------------------------------------------
(* Notices and receipts beside edits.                                       *)

(* A worker sees nothing of an edit in what it has locked.                  *)
LEMMA EditDiscipline ==
  ASSUME EditTypeInv, LockInv, UNCHANGED <<lock, pc, txn>>,
         \A o \in Orders : lock[o] # None => status'[o] = status[o]
  PROVE  LockInv'
<1>1. TypeInv /\ \A v \in Workers : v # None
  BY NoneApart DEF EditTypeInv, EditTypeOK, TypeInv
<1> QED
  BY <1>1, DisciplinedFrame DEF LockInv

(* Handlers beside edits keep the lock discipline and leave no low stock    *)
(* unreported.                                                              *)
EditLockInv == LockInv /\ NoticeInv

LEMMA NextEditLocks ==
  ASSUME EditTypeInv, EditRowInv, EditLockInv, [NextEdits]_allVars
  PROVE  EditLockInv'
<1>0. TypeOK /\ TypeInv /\ LockInv /\ NoticeInv
  BY DEF EditTypeInv, EditTypeOK, TypeInv, EditLockInv
<1>1. CASE [Next]_vars
  BY <1>0, <1>1, NextDiscipline, NextNotices DEF EditLockInv
<1>2. ASSUME UNCHANGED <<stock, posted, notices, lock, pc, txn>>,
             \A o \in Orders : lock[o] # None => status'[o] = status[o]
      PROVE  EditLockInv'
  <2>1. LockInv'
    BY <1>0, <1>2, EditDiscipline
  <2>2. NoticeInv'
    BY <1>0, <1>2 DEF NoticeInv, LowStockReported, Noticed, StockNotices
  <2> QED
    BY <2>1, <2>2 DEF EditLockInv
<1> QED
  BY <1>1, <1>2, EditCases

LEMMA EditLocks == EditSpec => [](EditTypeInv /\ EditRowInv /\ EditLockInv)
<1>1. InitEdits => EditLockInv
  BY InitDiscipline, InitNotices DEF InitEdits, EditLockInv
<1>2. EditTypeInv /\ EditRowInv /\ EditLockInv /\ [NextEdits]_allVars => EditLockInv'
  BY NextEditLocks
<1> QED
  BY <1>1, <1>2, EditRows, PTL DEF EditSpec

(* No edit, and no deletion under a running handler, makes a product run    *)
(* low unreported.                                                          *)
THEOREM EditsLowStockTheorem == EditSpec => []LowStockReported
<1>1. EditLockInv => LowStockReported
  BY DEF EditLockInv, NoticeInv
<1> QED
  BY <1>1, EditLocks, PTL

(* Nor does one let a request take units that are not there.                *)
THEOREM EditsOversellTheorem == SoundUse => (EditSpec => []NoOversell)
<1> SUFFICES ASSUME SoundUse PROVE EditSpec => []NoOversell
  OBVIOUS
<1>1. EditTypeInv /\ EditLedgerInv => NoOversell
  BY NothingOversold DEF EditTypeInv, EditTypeOK, TypeInv, EditLedgerInv
<1> QED
  BY <1>1, EditLedgerInductive, EditRows, PTL

(* No commit of a handler is about a purchase order that is settled.        *)
LEMMA ReceivedOnce ==
  ASSUME TypeInv, LockInv, Next, NEW o \in PurchaseOrders, status[o] = "done"
  PROVE  status'[o] = "done" /\ posted'[o] = posted[o]
<1>0. o \in Orders /\ o \notin SalesOrders /\ o \notin Returns
  BY ConstantsAssumption DEF Orders, ConstantsAssumption
<1>1. CASE File
  BY <1>0, <1>1 DEF File, CreateOrder, FileReturn, DeactivateProduct, TypeInv, TypeOK
<1>2. ASSUME NEW w \in Workers, Commit(w) PROVE status'[o] = "done" /\ posted'[o] = posted[o]
  <2>1. txn[w].order # o
    <3>1. pc[w] = "lines" /\ Disciplined(w) /\ o # None
      BY <1>0, <1>2, NoneApart DEF Commit, LockInv
    <3> QED
      BY <1>0, <3>1 DEF Disciplined, Entitled, Locks
  <2> QED
    BY <1>0, <1>2, <2>1 DEF Commit
<1>3. ASSUME NEW w \in Workers, Reading(w) \/ Writing(w) \/ Ending(w)
      PROVE  status'[o] = "done" /\ posted'[o] = posted[o]
  BY <1>3, ReadingStep, WritingStep, EndingStep
<1> QED
  BY <1>1, <1>2, <1>3, StepCases

(* A received purchase order is never received again, whatever is edited or *)
(* deleted meanwhile and with locking on or off: its status stays until it  *)
(* is deleted, and no later step adds units under its id.                   *)
THEOREM ReceiptTheorem == EditSpec => ReceiptFinal
<1>1. ASSUME EditTypeInv, EditRowInv, EditLockInv, [NextEdits]_allVars
      PROVE  [\A o \in PurchaseOrders : status[o] = "done" =>
                /\ status'[o] \in {"done", "absent"}
                /\ posted'[o] = posted[o]]_allVars
  <2> SUFFICES ASSUME NEW o \in PurchaseOrders, status[o] = "done"
               PROVE  status'[o] \in {"done", "absent"} /\ posted'[o] = posted[o]
    OBVIOUS
  <2>0. TypeInv /\ LockInv
    BY <1>1 DEF EditTypeInv, EditTypeOK, TypeInv, EditLockInv
  <2>1. CASE Next
    BY <2>0, <2>1, ReceivedOnce
  <2>2. CASE UNCHANGED vars
    BY <2>2 DEF vars, dbVars
  <2> QED
    BY <1>1, <2>1, <2>2, EditCases
<1> QED
  BY <1>1, EditLocks, PTL DEF EditSpec, ReceiptFinal

=============================================================================
