------------------------------ MODULE ReportCache ------------------------------
(***************************************************************************)
(* The version-counter cache of the report endpoints (apps/core/cache.py)  *)
(* against the stock mutations that invalidate it: one namespace, every    *)
(* cache call a step of its own.                                           *)
(*                                                                         *)
(* data counts the committed stock mutations; a report is the number of    *)
(* mutations it was computed from.  acked is the last mutation whose       *)
(* bump_version has returned, that is, whose client has its answer.        *)
(* undone remembers whether creating the version key, which takes a look   *)
(* and then a set, has ever overwritten a bump that came in between.       *)
(***************************************************************************)
EXTENDS Integers, FiniteSets

CONSTANTS
  Readers,     \* workers serving GET /reports/...
  Writers,     \* workers serving stock mutations
  Keys,        \* endpoint, user, role and query parameters
  MaxCommits,  \* bound on the number of mutations
  None

ASSUME CacheAssumption ==
  /\ MaxCommits \in Nat
  /\ None \notin Nat

VARIABLES data, acked, undone,
  version,  \* cache:version:inventory, None when the key does not exist
  entries,  \* the cached responses: [key, version, data]
  reader,   \* what each reader is at, and what it holds
  writer    \* what each writer is at, and the mutation it committed

vars == <<data, acked, undone, version, entries, reader, writer>>

Entry  == [key : Keys, version : Nat, data : Nat]
Reader == [at : {"idle", "get", "set", "lookup", "compute", "store", "answered"},
           key : Keys, version : Nat, data : Nat, floor : Nat]
Writer == [at : {"idle", "bump", "reset"}, commit : Nat]

Init ==
  /\ data = 0 /\ acked = 0 /\ undone = FALSE
  /\ version \in {None, 1}
  /\ entries = {}
  /\ reader \in [Readers -> {[at |-> "idle", key |-> k, version |-> 0,
                              data |-> 0, floor |-> 0] : k \in Keys}]
  /\ writer = [w \in Writers |-> [at |-> "idle", commit |-> 0]]

-----------------------------------------------------------------------------
(* A report request.                                                       *)

Become(r, fields) == reader' = [reader EXCEPT ![r] = fields]
ReaderOnly == UNCHANGED <<data, acked, undone, version, entries, writer>>

(* cache.set of the version key, to the 1 a reader or the 2 a writer that  *)
(* found no key thinks it is the first to need.                            *)
CreateVersion(v) ==
  /\ version' = v
  /\ undone' = (undone \/ version \notin {None, 1})

(* floor: what the client may count on, because it was told before.        *)
Ask(r, k) ==
  /\ reader[r].at = "idle"
  /\ Become(r, [at |-> "get", key |-> k, version |-> 0, data |-> 0, floor |-> acked])
  /\ ReaderOnly

(* An operator named ...Fault is the one after it with one slip in it, such *)
(* as a later change might bring; nothing uses it.                         *)

(* The missing key is not looked for.                                      *)
GetVersionFault(r) ==
  /\ reader[r].at = "get"
  /\ Become(r, [reader[r] EXCEPT !.at = "lookup", !.version = version])
  /\ ReaderOnly

(* get_version: cache.get.                                                 *)
GetVersion(r) ==
  /\ reader[r].at = "get"
  /\ version # None
  /\ Become(r, [reader[r] EXCEPT !.at = "lookup", !.version = version])
  /\ ReaderOnly

MissVersion(r) ==
  /\ reader[r].at = "get"
  /\ version = None
  /\ Become(r, [reader[r] EXCEPT !.at = "set"])
  /\ ReaderOnly

(* get_version: cache.set(key, 1) and return 1.                            *)
SetVersion(r) ==
  /\ reader[r].at = "set"
  /\ CreateVersion(1)
  /\ Become(r, [reader[r] EXCEPT !.at = "lookup", !.version = 1])
  /\ UNCHANGED <<data, acked, entries, writer>>

Matching(r) == {e \in entries : e.key = reader[r].key /\ e.version = reader[r].version}

Hit(r) ==
  /\ reader[r].at = "lookup"
  /\ \E e \in Matching(r) :
       Become(r, [reader[r] EXCEPT !.at = "answered", !.data = e.data])
  /\ ReaderOnly

Miss(r) ==
  /\ reader[r].at = "lookup"
  /\ Matching(r) = {}
  /\ Become(r, [reader[r] EXCEPT !.at = "compute"])
  /\ ReaderOnly

(* The view queries the database.                                          *)
Compute(r) ==
  /\ reader[r].at = "compute"
  /\ Become(r, [reader[r] EXCEPT !.at = "store", !.data = data])
  /\ ReaderOnly

(* A response that is not 2xx, or a request that dies, caches nothing.     *)
Fail(r) ==
  /\ reader[r].at \in {"get", "set", "lookup", "compute", "store"}
  /\ Become(r, [reader[r] EXCEPT !.at = "idle"])
  /\ ReaderOnly

(* The key is made after the view has run.                                 *)
StoreFault(r) ==
  /\ reader[r].at = "store"
  /\ entries' = {e \in entries : e.key # reader[r].key \/ e.version # version}
                  \cup {[key |-> reader[r].key, version |-> version,
                         data |-> reader[r].data]}
  /\ Become(r, [reader[r] EXCEPT !.at = "answered"])
  /\ UNCHANGED <<data, acked, undone, version, writer>>

(* cache.set(key, response, timeout=ttl).                                  *)
Store(r) ==
  /\ reader[r].at = "store"
  /\ entries' = (entries \ Matching(r))
                  \cup {[key |-> reader[r].key, version |-> reader[r].version,
                         data |-> reader[r].data]}
  /\ Become(r, [reader[r] EXCEPT !.at = "answered"])
  /\ UNCHANGED <<data, acked, undone, version, writer>>

Answered(r) ==
  /\ reader[r].at = "answered"
  /\ Become(r, [reader[r] EXCEPT !.at = "idle"])
  /\ ReaderOnly

(* timeout=None, as for the version key: never.                            *)
ExpireFault(e) ==
  /\ e \in entries
  /\ version = None
  /\ entries' = entries \ {e}
  /\ UNCHANGED <<data, acked, undone, version, reader, writer>>

(* The timeout of a cached response.                                       *)
Expire(e) ==
  /\ e \in entries
  /\ entries' = entries \ {e}
  /\ UNCHANGED <<data, acked, undone, version, reader, writer>>

-----------------------------------------------------------------------------
(* A stock mutation: commit, then bump_version from on_commit.             *)

Commit(w) ==
  /\ writer[w].at = "idle"
  /\ data < MaxCommits
  /\ data' = data + 1
  /\ writer' = [writer EXCEPT ![w] = [at |-> "bump", commit |-> data + 1]]
  /\ UNCHANGED <<acked, undone, version, entries, reader>>

Acknowledge(w) ==
  /\ acked' = IF writer[w].commit > acked THEN writer[w].commit ELSE acked
  /\ writer' = [writer EXCEPT ![w].at = "idle"]
  /\ UNCHANGED <<data, entries, reader>>

(* cache.incr.                                                             *)
Incr(w) ==
  /\ writer[w].at = "bump"
  /\ version # None
  /\ version' = version + 1
  /\ UNCHANGED undone
  /\ Acknowledge(w)

(* cache.incr raises ValueError: the key does not exist.                   *)
IncrMissing(w) ==
  /\ writer[w].at = "bump"
  /\ version = None
  /\ writer' = [writer EXCEPT ![w].at = "reset"]
  /\ UNCHANGED <<data, acked, undone, version, entries, reader>>

Reset(w) ==
  /\ writer[w].at = "reset"
  /\ CreateVersion(2)
  /\ Acknowledge(w)

(* An error of the cache is swallowed and the client gets its 200.         *)
LoseBumpFault(w) ==
  /\ writer[w].at # "idle"
  /\ UNCHANGED <<undone, version>>
  /\ Acknowledge(w)

(* The worker dies, or Redis does not answer: committed, never bumped.     *)
LoseBump(w) ==
  /\ writer[w].at # "idle"
  /\ writer' = [writer EXCEPT ![w].at = "idle"]
  /\ UNCHANGED <<data, acked, undone, version, entries, reader>>

Read(r) == \/ \E k \in Keys : Ask(r, k)
           \/ GetVersion(r) \/ MissVersion(r) \/ SetVersion(r)
           \/ Hit(r) \/ Miss(r) \/ Compute(r) \/ Fail(r) \/ Store(r) \/ Answered(r)

Mutate(w) == Commit(w) \/ Incr(w) \/ IncrMissing(w) \/ Reset(w) \/ LoseBump(w)

Next == \/ \E r \in Readers : Read(r)
        \/ \E w \in Writers : Mutate(w)
        \/ \E e \in entries : Expire(e)

Spec == Init /\ [][Next]_vars

(* Redis drops a key when its timeout has passed, in every version it may  *)
(* have been written under.                                                *)
FairSpec ==
  Spec /\ \A k \in Keys, v \in 1..(MaxCommits + 2), d \in 0..MaxCommits :
            WF_vars(Expire([key |-> k, version |-> v, data |-> d]))

-----------------------------------------------------------------------------
TypeOK ==
  /\ data \in Nat /\ acked \in Nat /\ undone \in BOOLEAN
  /\ version \in Nat \cup {None}
  /\ entries \subseteq Entry
  /\ reader \in [Readers -> Reader]
  /\ writer \in [Writers -> Writer]

(* A client that was told of a mutation never gets a report from before    *)
(* it: after bump_version returns, no older response can be reached.       *)
NoStaleHit ==
  \A r \in Readers : reader[r].at = "answered" => reader[r].data >= reader[r].floor

(* The same as far as it is true of get_version and bump_version as they   *)
(* are: only the creation of a missing version key can break it, and only  *)
(* by overwriting a bump.                                                  *)
StaleOnlyIfUndone == undone \/ NoStaleHit

(* A cached report older than the database dies out even when the bump of  *)
(* a mutation was lost: mutations being bounded, some day every reachable  *)
(* response is up to date and stays so.                                    *)
EventuallyFresh ==
  <>[](\A e \in entries : e.version = version => e.data = data)

(* The strengthening: versions held are not from the future, and there is  *)
(* none before the key is; what is stored, or about to be, under the       *)
(* current version knows every acknowledged mutation; and under a reader's *)
(* version, everything the reader may count on.                            *)
Holds(r) == reader[r].at \in {"lookup", "compute", "store"}

(* v is a version there has been. *)
Reached(v) == version # None /\ v <= version

Coherent ==
  /\ acked <= data
  /\ \A w \in Writers : writer[w].commit <= data
  /\ \A e \in entries : /\ Reached(e.version)
                        /\ e.version = version => e.data >= acked
  /\ \A r \in Readers :
       /\ reader[r].floor <= acked
       /\ reader[r].at = "answered" => reader[r].data >= reader[r].floor
       /\ Holds(r) => /\ Reached(reader[r].version)
                      /\ \A e \in entries :
                           e.version = reader[r].version => e.data >= reader[r].floor
       /\ reader[r].at = "store" =>
            /\ reader[r].version = version => reader[r].data >= acked
            /\ \A s \in Readers : /\ s = r \/ Holds(s)
                                  /\ reader[s].version = reader[r].version
                                  => reader[r].data >= reader[s].floor

CacheInv == undone \/ Coherent
=============================================================================
