-------------------------- MODULE ReportCacheProofs --------------------------
(* ReportCache serves no stale report unless creating the version key undid *)
(* a bump, for every value of the constants: CacheInv is inductive.         *)
EXTENDS ReportCache, TLAPS

LEMMA TypeInit == Init => TypeOK
<1> SUFFICES ASSUME Init
             PROVE  TypeOK
  OBVIOUS
<1>1. undone \in BOOLEAN
  BY DEF Init
<1>2. reader \in [Readers -> Reader] /\ writer \in [Writers -> Writer]
  BY DEF Init, Reader, Writer
<1>3. /\ data \in Nat /\ acked \in Nat /\ version \in Nat \cup {None}
      /\ entries \subseteq Entry
  BY DEF Init
<1> QED
  BY <1>1, <1>2, <1>3 DEF TypeOK

(* What a reader becomes keeps the readers typed.                           *)
LEMMA BecomeTyped ==
  ASSUME TypeOK, NEW r \in Readers, NEW fields \in Reader, Become(r, fields)
  PROVE  /\ reader' \in [Readers -> Reader]
         /\ reader'[r] = fields
         /\ \A s \in Readers \ {r} : reader'[s] = reader[s]
BY DEF TypeOK, Become

LEMMA ReadTyped ==
  ASSUME TypeOK, NEW r \in Readers, Read(r)
  PROVE  TypeOK'
<1>0. reader[r] \in Reader
  BY DEF TypeOK
<1>1. ASSUME NEW fields \in Reader, Become(r, fields), ReaderOnly
      PROVE  TypeOK'
  BY <1>1, BecomeTyped DEF TypeOK, ReaderOnly
<1>2. ASSUME NEW k \in Keys, Ask(r, k)
      PROVE  TypeOK'
  BY <1>1, <1>2 DEF Ask, Reader, TypeOK
<1>3. CASE GetVersion(r)
  <2>1. version \in Nat
    BY <1>3 DEF GetVersion, TypeOK
  <2> QED
    BY <1>0, <1>1, <1>3, <2>1 DEF GetVersion, Reader
<1>4. CASE MissVersion(r)
  BY <1>0, <1>1, <1>4 DEF MissVersion, Reader
<1>5. CASE SetVersion(r)
  <2>1. [reader[r] EXCEPT !.at = "lookup", !.version = 1] \in Reader
    BY <1>0 DEF Reader
  <2> QED
    BY <1>5, <2>1, BecomeTyped DEF SetVersion, CreateVersion, TypeOK
<1>6. CASE Hit(r)
  <2>1. PICK e \in Matching(r) :
          Become(r, [reader[r] EXCEPT !.at = "answered", !.data = e.data])
    BY <1>6 DEF Hit
  <2>2. e.data \in Nat
    BY DEF Matching, TypeOK, Entry
  <2> QED
    BY <1>0, <1>1, <1>6, <2>1, <2>2 DEF Hit, Reader
<1>7. CASE Miss(r)
  BY <1>0, <1>1, <1>7 DEF Miss, Reader
<1>8. CASE Compute(r)
  BY <1>0, <1>1, <1>8 DEF Compute, Reader, TypeOK
<1>9. CASE Fail(r)
  BY <1>0, <1>1, <1>9 DEF Fail, Reader
<1>10. CASE Store(r)
  <2>1. [reader[r] EXCEPT !.at = "answered"] \in Reader
    BY <1>0 DEF Reader
  <2>2. [key |-> reader[r].key, version |-> reader[r].version,
         data |-> reader[r].data] \in Entry
    BY <1>0 DEF Reader, Entry
  <2> QED
    BY <1>10, <2>1, <2>2, BecomeTyped DEF Store, TypeOK
<1>11. CASE Answered(r)
  BY <1>0, <1>1, <1>11 DEF Answered, Reader
<1> QED
  BY <1>2, <1>3, <1>4, <1>5, <1>6, <1>7, <1>8, <1>9, <1>10, <1>11 DEF Read

LEMMA MutateTyped ==
  ASSUME TypeOK, NEW w \in Writers, Mutate(w)
  PROVE  TypeOK'
<1>0. writer[w] \in Writer
  BY DEF TypeOK
<1>1. CASE Commit(w)
  BY <1>1 DEF Commit, TypeOK, Writer
<1>2. ASSUME Acknowledge(w), version' \in Nat, undone' \in BOOLEAN
      PROVE  TypeOK'
  BY <1>0, <1>2 DEF Acknowledge, TypeOK, Writer
<1>3. CASE Incr(w)
  BY <1>2, <1>3 DEF Incr, TypeOK
<1>4. CASE IncrMissing(w)
  BY <1>0, <1>4 DEF IncrMissing, TypeOK, Writer
<1>5. CASE Reset(w)
  BY <1>2, <1>5 DEF Reset, CreateVersion, TypeOK
<1>6. CASE LoseBump(w)
  BY <1>0, <1>6 DEF LoseBump, TypeOK, Writer
<1> QED
  BY <1>1, <1>3, <1>4, <1>5, <1>6 DEF Mutate

LEMMA TypeStep == TypeOK /\ [Next]_vars => TypeOK'
<1> SUFFICES ASSUME TypeOK, [Next]_vars
             PROVE  TypeOK'
  OBVIOUS
<1>1. CASE \E e \in entries : Expire(e)
  BY <1>1 DEF Expire, TypeOK
<1>2. CASE UNCHANGED vars
  BY <1>2 DEF vars, TypeOK
<1> QED
  BY <1>1, <1>2, ReadTyped, MutateTyped DEF Next

(* Whatever runs the cache, its state is well formed.                       *)
THEOREM TypeCorrect == Spec => []TypeOK
<1> QED
  BY TypeInit, TypeStep, PTL DEF Spec

-----------------------------------------------------------------------------
(* Coherent is kept by every step.                                          *)

LEMMA CacheInit == Init => Coherent
BY CacheAssumption DEF Init, Coherent, Holds

(* A reader that moves on without touching the cache: what Coherent asks of *)
(* the record it becomes.                                                   *)
LEMMA ReaderMoves ==
  ASSUME TypeOK, Coherent, NEW r \in Readers, NEW fields \in Reader,
         Become(r, fields), ReaderOnly,
         fields.floor <= acked,
         fields.at = "answered" => fields.data >= fields.floor,
         fields.at \in {"lookup", "compute", "store"} =>
           /\ Reached(fields.version)
           /\ \A e \in entries : e.version = fields.version => e.data >= fields.floor
           /\ \A s \in Readers \ {r} :
                reader[s].at = "store" /\ reader[s].version = fields.version
                  => reader[s].data >= fields.floor,
         fields.at = "store" => fields.data = data
  PROVE  Coherent'
<1>1. /\ reader' \in [Readers -> Reader]
      /\ reader'[r] = fields
      /\ \A s \in Readers \ {r} : reader'[s] = reader[s]
  BY BecomeTyped
<1>2. UNCHANGED <<data, acked, version, entries, writer>>
  BY DEF ReaderOnly
<1>3. /\ acked \in Nat /\ data \in Nat /\ acked <= data
      /\ \A s \in Readers : reader[s].floor \in Nat /\ reader[s].floor <= acked
  BY DEF TypeOK, Coherent, Reader
<1>4. ASSUME NEW s \in Readers
      PROVE  /\ reader'[s].floor <= acked
             /\ reader'[s].at = "answered" => reader'[s].data >= reader'[s].floor
             /\ Holds(s)' => /\ Reached(reader'[s].version)
                             /\ \A e \in entries :
                                  e.version = reader'[s].version => e.data >= reader'[s].floor
  BY <1>1, <1>2, <1>4 DEF Coherent, Holds, Reached
<1>5. ASSUME NEW s \in Readers, reader'[s].at = "store", reader'[s].version = version
      PROVE  reader'[s].data >= acked
  BY <1>1, <1>3, <1>5 DEF Coherent
<1>6. ASSUME NEW s \in Readers, reader'[s].at = "store",
             NEW t \in Readers, t = s \/ Holds(t)', reader'[t].version = reader'[s].version
      PROVE  reader'[s].data >= reader'[t].floor
  <2>1. CASE s = r
    <3>1. reader'[s].data = data /\ reader'[t].floor <= acked
      BY <1>1, <1>4, <1>6, <2>1
    <3>2. reader'[t].floor \in Nat
      BY <1>1 DEF Reader
    <3> QED
      BY <1>3, <3>1, <3>2
  <2>2. CASE s # r /\ t = r
    BY <1>1, <1>6, <2>2 DEF Holds
  <2>3. CASE s # r /\ t # r
    BY <1>1, <1>6, <2>3 DEF Coherent, Holds
  <2> QED
    BY <2>1, <2>2, <2>3
<1> QED
  BY <1>2, <1>4, <1>5, <1>6 DEF Coherent, Reached

LEMMA ReadKeeps ==
  ASSUME TypeOK, Coherent, NEW r \in Readers, Read(r)
  PROVE  CacheInv'
<1> DEFINE old == reader[r]
<1>0. /\ old \in Reader /\ old.floor <= acked
      /\ acked \in Nat /\ data \in Nat /\ acked <= data
  BY DEF TypeOK, Coherent
<1>1. Holds(r) =>
        /\ Reached(old.version)
        /\ \A e \in entries : e.version = old.version => e.data >= old.floor
        /\ \A s \in Readers \ {r} :
             reader[s].at = "store" /\ reader[s].version = old.version
               => reader[s].data >= old.floor
  BY DEF Coherent
<1>2. ASSUME NEW k \in Keys, Ask(r, k)
      PROVE  Coherent'
  BY <1>0, <1>2, ReaderMoves DEF Ask, Reader
<1>3. CASE GetVersion(r)
  <2> DEFINE new == [old EXCEPT !.at = "lookup", !.version = version]
  <2>1. /\ new \in Reader /\ new.at = "lookup" /\ new.version = version
        /\ new.floor = old.floor
    BY <1>0, <1>3 DEF GetVersion, TypeOK, Reader
  <2>2. Become(r, new) /\ ReaderOnly /\ Reached(version)
    BY <1>3 DEF GetVersion, Reached, TypeOK
  <2>3. \A e \in entries : e.version = version => e.data >= old.floor
    <3>1. \A e \in entries : e.version = version => e.data >= acked /\ e.data \in Nat
      BY DEF Coherent, TypeOK, Entry
    <3> QED
      BY <1>0, <3>1 DEF Reader
  <2>4. ASSUME NEW s \in Readers \ {r}, reader[s].at = "store", reader[s].version = version
        PROVE  reader[s].data >= old.floor
    <3>1. reader[s].data >= acked /\ reader[s].data \in Nat
      BY <2>4 DEF Coherent, TypeOK, Reader
    <3> QED
      BY <1>0, <3>1 DEF Reader
  <2> HIDE DEF new
  <2> QED
    BY <1>0, <2>1, <2>2, <2>3, <2>4, ReaderMoves DEF CacheInv
<1>4. CASE MissVersion(r)
  <2> DEFINE new == [old EXCEPT !.at = "set"]
  <2>1. new \in Reader /\ new.at = "set" /\ new.floor = old.floor
    BY <1>0 DEF Reader
  <2>2. Become(r, new) /\ ReaderOnly
    BY <1>4 DEF MissVersion
  <2> HIDE DEF new
  <2> QED
    BY <1>0, <2>1, <2>2, ReaderMoves DEF CacheInv
<1>10. CASE SetVersion(r)
  <2> DEFINE new == [old EXCEPT !.at = "lookup", !.version = 1]
  <2> SUFFICES ASSUME ~undone'
               PROVE  Coherent'
    BY DEF CacheInv
  <2>1. /\ new \in Reader /\ new.at = "lookup" /\ new.version = 1
        /\ new.floor = old.floor
    BY <1>0 DEF Reader
  <2>2. /\ version' = 1 /\ version \in {None, 1} /\ ~undone /\ Become(r, new)
        /\ UNCHANGED <<data, acked, entries, writer>>
    BY <1>10 DEF SetVersion, CreateVersion
  <2> HIDE DEF new
  <2>3. CASE version = 1
    <3>1. ReaderOnly
      <4>1. undone' = undone
        <5>1. undone \in BOOLEAN /\ version \in {None, 1}
          BY <2>2 DEF TypeOK
        <5>2. undone' = (undone \/ version \notin {None, 1})
          BY <1>10 DEF SetVersion, CreateVersion
        <5> QED
          BY <5>1, <5>2, Zenon
      <4> QED
        BY <2>2, <2>3, <4>1 DEF ReaderOnly
    <3>2. Reached(1)
      BY <2>3, CacheAssumption DEF Reached, CacheAssumption
    <3>3. \A e \in entries : e.version = version => e.data >= acked /\ e.data \in Nat
      BY DEF Coherent, TypeOK, Entry
    <3>4. \A s \in Readers : reader[s].at = "store" /\ reader[s].version = version
                                => reader[s].data >= acked /\ reader[s].data \in Nat
      BY DEF Coherent, TypeOK, Reader
    <3>5. old.floor \in Nat
      BY <1>0 DEF Reader
    <3> QED
      BY <1>0, <2>1, <2>2, <2>3, <3>1, <3>2, <3>3, <3>4, <3>5, ReaderMoves DEF CacheInv
  <2>4. CASE version = None
    <3>1. entries = {} /\ \A s \in Readers : ~Holds(s)
      BY <2>4 DEF Coherent, Reached
    <3>2. /\ reader'[r] = new
          /\ \A s \in Readers \ {r} : reader'[s] = reader[s]
      BY <2>1, <2>2, BecomeTyped
    <3>3. Reached(1)'
      BY <2>2, CacheAssumption DEF Reached, CacheAssumption
    <3>4. \A s \in Readers : /\ reader'[s].floor <= acked
                             /\ reader'[s].at # "store"
                             /\ Holds(s)' => s = r
                             /\ reader'[s].at = "answered" =>
                                  reader'[s].data >= reader'[s].floor
      BY <1>0, <2>1, <3>1, <3>2 DEF Coherent, Holds
    <3> QED
      BY <2>1, <2>2, <3>1, <3>2, <3>3, <3>4 DEF Coherent
  <2> QED
    BY <2>2, <2>3, <2>4
<1>5. CASE Hit(r)
  <2>1. PICK e \in Matching(r) :
          Become(r, [old EXCEPT !.at = "answered", !.data = e.data])
    BY <1>5 DEF Hit
  <2> DEFINE new == [old EXCEPT !.at = "answered", !.data = e.data]
  <2>2. e.data \in Nat /\ e.data >= old.floor
    BY <1>1, <1>5 DEF Hit, Holds, Matching, TypeOK, Entry
  <2>3. new \in Reader /\ new.at = "answered" /\ new.data = e.data /\ new.floor = old.floor
    BY <1>0, <2>2 DEF Reader
  <2>4. Become(r, new) /\ ReaderOnly
    BY <1>5, <2>1 DEF Hit
  <2> HIDE DEF new
  <2> QED
    BY <1>0, <2>2, <2>3, <2>4, ReaderMoves DEF CacheInv
<1>6. CASE Miss(r)
  <2> DEFINE new == [old EXCEPT !.at = "compute"]
  <2>1. /\ new \in Reader /\ new.at = "compute" /\ new.version = old.version
        /\ new.floor = old.floor
    BY <1>0 DEF Reader
  <2>2. Become(r, new) /\ ReaderOnly /\ Holds(r)
    BY <1>6 DEF Miss, Holds
  <2> HIDE DEF new
  <2> QED
    BY <1>0, <1>1, <2>1, <2>2, ReaderMoves DEF CacheInv
<1>7. CASE Compute(r)
  <2> DEFINE new == [old EXCEPT !.at = "store", !.data = data]
  <2>1. /\ new \in Reader /\ new.at = "store" /\ new.version = old.version
        /\ new.floor = old.floor /\ new.data = data
    BY <1>0 DEF Reader
  <2>2. Become(r, new) /\ ReaderOnly /\ Holds(r)
    BY <1>7 DEF Compute, Holds
  <2> HIDE DEF new
  <2> QED
    BY <1>0, <1>1, <2>1, <2>2, ReaderMoves DEF CacheInv
<1>8. CASE Fail(r) \/ Answered(r)
  <2> DEFINE new == [old EXCEPT !.at = "idle"]
  <2>1. new \in Reader /\ new.at = "idle" /\ new.floor = old.floor
    BY <1>0 DEF Reader
  <2>2. Become(r, new) /\ ReaderOnly
    BY <1>8 DEF Fail, Answered
  <2> HIDE DEF new
  <2> QED
    BY <1>0, <2>1, <2>2, ReaderMoves DEF CacheInv
<1>9. CASE Store(r)
  <2> DEFINE entry == [key |-> old.key, version |-> old.version, data |-> old.data]
             new   == [old EXCEPT !.at = "answered"]
  <2>1. /\ new \in Reader /\ new.at = "answered" /\ new.floor = old.floor
        /\ new.data = old.data /\ old.data \in Nat /\ old.version \in Nat
    BY <1>0 DEF Reader
  <2>2. /\ entries' = (entries \ Matching(r)) \cup {entry}
        /\ UNCHANGED <<data, acked, undone, version, writer>>
        /\ Become(r, new) /\ old.at = "store" /\ Holds(r)
    BY <1>9 DEF Store, Holds
  <2>3. /\ old.version = version => old.data >= acked
        /\ \A s \in Readers : (s = r \/ Holds(s)) /\ reader[s].version = old.version
             => old.data >= reader[s].floor
    BY <2>2 DEF Coherent
  <2>4. /\ reader'[r] = new
        /\ \A s \in Readers \ {r} : reader'[s] = reader[s]
    BY <2>1, <2>2, BecomeTyped
  <2>5. entry.version = old.version /\ entry.data = old.data
    OBVIOUS
  <2> HIDE DEF new, entry
  <2>6. \A e \in entries' : e \in entries \/ e = entry
    BY <2>2
  <2>7. \A e \in entries' : Reached(e.version) /\ (e.version = version => e.data >= acked)
    BY <1>1, <2>2, <2>3, <2>5, <2>6 DEF Coherent
  <2>8. ASSUME NEW s \in Readers
        PROVE  /\ reader'[s].floor <= acked
               /\ reader'[s].at = "answered" => reader'[s].data >= reader'[s].floor
               /\ Holds(s)' => /\ Reached(reader'[s].version)
                               /\ \A e \in entries' :
                                    e.version = reader'[s].version => e.data >= reader'[s].floor
    <3>1. CASE s = r
      BY <1>0, <2>1, <2>3, <2>4, <3>1 DEF Holds
    <3>2. CASE s # r
      BY <2>3, <2>4, <2>5, <2>6, <3>2 DEF Coherent, Holds
    <3> QED
      BY <3>1, <3>2
  <2>9. ASSUME NEW s \in Readers, reader'[s].at = "store"
        PROVE  /\ reader'[s].version = version => reader'[s].data >= acked
               /\ \A t \in Readers : /\ t = s \/ Holds(t)'
                                     /\ reader'[t].version = reader'[s].version
                                     => reader'[s].data >= reader'[t].floor
    BY <2>1, <2>4, <2>9 DEF Coherent, Holds
  <2> QED
    BY <2>2, <2>7, <2>8, <2>9 DEF Coherent, CacheInv, Reached
<1> QED
  BY <1>2, <1>3, <1>4, <1>5, <1>6, <1>7, <1>8, <1>9, <1>10 DEF Read, CacheInv

(* A bump, or the creation of the key, moves the version past all that is  *)
(* stored or held.                                                         *)
LEMMA NewVersion ==
  ASSUME TypeOK, Coherent, NEW w \in Writers, Acknowledge(w),
         version' \in Nat, version # None => version' > version
  PROVE  Coherent'
<1>0. /\ writer \in [Writers -> Writer] /\ acked \in Nat /\ data \in Nat
      /\ acked <= data /\ writer[w].commit \in Nat /\ writer[w].commit <= data
  BY DEF TypeOK, Coherent, Writer
<1>1. /\ acked' \in Nat /\ acked' >= acked /\ acked' <= data
      /\ UNCHANGED <<data, entries, reader>>
  BY <1>0 DEF Acknowledge
<1>2. \A v \in Writers : writer'[v].commit <= data'
  BY <1>0 DEF Acknowledge, Coherent, Writer
<1>3. version' # None
  BY CacheAssumption DEF CacheAssumption
<1>4. ASSUME NEW v \in Nat, Reached(v)
      PROVE  v # version' /\ Reached(v)'
  <2>1. version \in Nat /\ v <= version /\ version' > version
    BY <1>4 DEF Reached, TypeOK
  <2> QED
    BY <1>3, <2>1 DEF Reached
<1>5. \A e \in entries : e.version # version' /\ Reached(e.version)'
  BY <1>4 DEF TypeOK, Coherent, Entry
<1>6. \A s \in Readers : Holds(s) => reader[s].version # version'
                                    /\ Reached(reader[s].version)'
  <2>1. \A s \in Readers : reader[s].version \in Nat /\ (Holds(s) => Reached(reader[s].version))
    BY DEF TypeOK, Coherent, Reader
  <2> QED
    BY <1>1, <1>4, <2>1 DEF Reached
<1>7. \A s \in Readers : reader[s].floor <= acked'
  <2>1. \A s \in Readers : reader[s].floor \in Nat /\ reader[s].floor <= acked
    BY DEF TypeOK, Coherent, Reader
  <2> QED
    BY <1>0, <1>1, <2>1
<1> QED
  BY <1>1, <1>2, <1>5, <1>6, <1>7 DEF Coherent, Holds

LEMMA MutateKeeps ==
  ASSUME TypeOK, Coherent, NEW w \in Writers, Mutate(w)
  PROVE  CacheInv'
<1>0. /\ writer \in [Writers -> Writer]
      /\ version \in Nat \cup {None} /\ acked \in Nat /\ data \in Nat
      /\ acked <= data /\ writer[w].commit \in Nat /\ writer[w].commit <= data
  BY DEF TypeOK, Coherent, Writer
<1>1. CASE Commit(w)
  <2>1. data' = data + 1 /\ UNCHANGED <<acked, version, entries, reader>>
    BY <1>1 DEF Commit
  <2>2. \A v \in Writers : writer'[v].commit <= data'
    BY <1>0, <1>1 DEF Commit, Coherent, Writer
  <2> QED
    BY <1>0, <2>1, <2>2 DEF Coherent, CacheInv, Holds, Reached
<1>2. CASE Incr(w)
  BY <1>0, <1>2, NewVersion DEF Incr, CacheInv
<1>3. CASE Reset(w)
  <2> SUFFICES ASSUME ~undone'
               PROVE  Coherent'
    BY DEF CacheInv
  <2>1. Acknowledge(w) /\ version' = 2 /\ version \in {None, 1}
    BY <1>3 DEF Reset, CreateVersion
  <2> QED
    BY <2>1, NewVersion
<1>4. CASE IncrMissing(w) \/ LoseBump(w)
  <2>1. UNCHANGED <<data, acked, version, entries, reader>>
    BY <1>4 DEF LoseBump, IncrMissing
  <2>2. \A v \in Writers : writer'[v].commit <= data
    BY <1>0, <1>4 DEF LoseBump, IncrMissing, Coherent, Writer
  <2> QED
    BY <2>1, <2>2 DEF Coherent, CacheInv, Holds, Reached
<1> QED
  BY <1>1, <1>2, <1>3, <1>4 DEF Mutate

(* What was undone stays so.                                               *)
LEMMA UndoneStays == undone /\ [Next]_vars => undone'
BY DEF Next, vars, Read, Mutate, Ask, GetVersion, MissVersion, SetVersion, Hit, Miss,
       Compute, Fail, Store, Answered, Expire, Commit, Incr, IncrMissing, Reset,
       LoseBump, ReaderOnly, CreateVersion

LEMMA CacheStep == TypeOK /\ CacheInv /\ [Next]_vars => CacheInv'
<1> SUFFICES ASSUME TypeOK, Coherent, [Next]_vars
             PROVE  CacheInv'
  BY UndoneStays DEF CacheInv
<1>1. CASE \E e \in entries : Expire(e)
  BY <1>1 DEF Expire, CacheInv, Coherent, Holds, Reached
<1>2. CASE UNCHANGED vars
  BY <1>2 DEF vars, CacheInv, Coherent, Holds, Reached
<1> QED
  BY <1>1, <1>2, ReadKeeps, MutateKeeps DEF Next

(* The inductive invariant, for readers, writers, keys and mutations in any *)
(* number: as long as no creation of the version key has undone a bump,     *)
(* what is stored or about to be under the current version is up to date.   *)
THEOREM CacheTheorem == Spec => []CacheInv
<1>1. Init => TypeOK /\ CacheInv
  BY TypeInit, CacheInit DEF CacheInv
<1>2. TypeOK /\ CacheInv /\ [Next]_vars => (TypeOK /\ CacheInv)'
  BY TypeStep, CacheStep
<1> QED
  BY <1>1, <1>2, PTL DEF Spec

(* So nobody who was told of a mutation gets a report from before it.       *)
THEOREM NoStaleTheorem == Spec => []StaleOnlyIfUndone
<1>1. CacheInv => StaleOnlyIfUndone
  BY DEF CacheInv, Coherent, StaleOnlyIfUndone, NoStaleHit
<1> QED
  BY <1>1, CacheTheorem, PTL
=============================================================================
