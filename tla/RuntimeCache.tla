---------------------------- MODULE RuntimeCache ----------------------------
(***************************************************************************)
(* The runtime cache: entries with an expiry in an UNLOGGED table that all *)
(* processes share, read and written inside the transaction of a request.  *)
(* What a request writes is locked until it ends, and others see it only   *)
(* after the commit.                                                       *)
(*                                                                         *)
(* Modules that extend this one add the steps of their requests; a request *)
(* keeps what it does in tx[s].op, its next step in tx[s].step and what it *)
(* remembers in tx[s].mem.  An expired row that a read deletes on its way  *)
(* is left to Cleanup: no operation tells such a row from none.            *)
(***************************************************************************)
EXTENDS Integers, FiniteSets

CONSTANTS
  Sessions,     \* requests under way at the same time
  Keys,         \* keys of runtime_cache
  None,
  MaxTime,      \* bound on the clock
  MaxRequests,  \* bound on the requests
  CleanAt,      \* bound: the times at which expired rows are removed
  MaxCrashes    \* bound on database crashes

ASSUME CacheAssumption ==
  MaxTime \in Nat /\ MaxRequests \in Nat /\ MaxCrashes \in Nat
  /\ CleanAt \subseteq 0..MaxTime

VARIABLES
  cache,    \* the committed rows
  tx,       \* the transaction of each session
  now,      \* time.time()
  requests, crashes,
  \* history
  commits   \* number of transactions committed so far

cacheVars == <<cache, tx, now, requests, crashes, commits>>

\* own holds the rows the transaction has written, None for a deleted one;
\* began tells which commits it may have seen from its first step on.
Nothing == [k \in {} |-> None]
Idle == [op |-> "idle", step |-> "idle", mem |-> None, own |-> Nothing, began |-> 0]

CacheInit ==
  /\ cache = [k \in Keys |-> None]
  /\ tx = [s \in Sessions |-> Idle]
  /\ now = 0
  /\ requests = 0 /\ crashes = 0 /\ commits = 0

-----------------------------------------------------------------------------
(***************************************************************************)
(* Reading.                                                                *)
(***************************************************************************)
Row(s, k) == IF k \in DOMAIN tx[s].own THEN tx[s].own[k] ELSE cache[k]

Live(row) == row # None /\ row.until > now

Get(s, k) == IF Live(Row(s, k)) THEN Row(s, k).value ELSE None

-----------------------------------------------------------------------------
(***************************************************************************)
(* Writing: the rows a transaction has after the statement.  A writer      *)
(* waits for the transaction that holds the row.                           *)
(***************************************************************************)
Unlocked(s, k) == \A q \in Sessions \ {s} : k \notin DOMAIN tx[q].own

Entry(value, until) == [value |-> value, until |-> until, began |-> 0, put |-> 0]

With(own, k, row) == [x \in DOMAIN own \cup {k} |-> IF x = k THEN row ELSE own[x]]

Put(own, k, value, ex) == With(own, k, Entry(value, now + ex))

\* set(..., nx=True): TRUE if the row was inserted.
Inserts(s, k) == ~Live(Row(s, k))

\* A DELETE takes what it sees; a row of which it sees none it does not wait for.
Drop(own, k) == IF k \in DOMAIN own \/ cache[k] # None THEN With(own, k, None) ELSE own

MayDrop(s, k) == cache[k] = None \/ Unlocked(s, k)

\* incr: an expired count starts again, a live one keeps its expiry.
Increased(row, at, ex) ==
  IF row = None \/ row.until <= at THEN Entry(1, at + ex) ELSE Entry(row.value + 1, row.until)

-----------------------------------------------------------------------------
(***************************************************************************)
(* Transactions.                                                           *)
(***************************************************************************)
Begin(s, op, step, mem, own) ==
  /\ tx[s] = Idle
  /\ requests < MaxRequests /\ requests' = requests + 1
  /\ tx' = [tx EXCEPT ![s] = [op |-> op, step |-> step, mem |-> mem, own |-> own,
                              began |-> commits]]
  /\ UNCHANGED <<cache, now, crashes, commits>>

Continue(s, step, mem, own) ==
  /\ tx' = [tx EXCEPT ![s] = [op |-> tx[s].op, step |-> step, mem |-> mem, own |-> own,
                              began |-> tx[s].began]]
  /\ UNCHANGED <<cache, now, requests, crashes, commits>>

\* get_db commits when the response is made.
CommitRows(s, own) ==
  /\ cache' = [k \in Keys |->
       IF k \notin DOMAIN own THEN cache[k]
       ELSE IF own[k] = None THEN None
       ELSE [value |-> own[k].value, until |-> own[k].until, began |-> tx[s].began, put |-> commits + 1]]
  /\ tx' = [tx EXCEPT ![s] = Idle]
  /\ commits' = commits + 1
  /\ UNCHANGED <<now, requests, crashes>>

Commit(s) == CommitRows(s, tx[s].own)

\* An exception rolls back, whatever the request has written.
RollBack(s) ==
  /\ tx[s] # Idle
  /\ tx' = [tx EXCEPT ![s] = Idle]
  /\ UNCHANGED <<cache, now, requests, crashes, commits>>

-----------------------------------------------------------------------------
Tick ==
  /\ now < MaxTime /\ now' = now + 1
  /\ UNCHANGED <<cache, tx, requests, crashes, commits>>

\* pyboard_cleanup_runtime_cache, every ten minutes.
Cleanup ==
  LET gone == {k \in Keys : /\ cache[k] # None /\ cache[k].until <= now
                            /\ \A s \in Sessions : k \notin DOMAIN tx[s].own} IN
  /\ now \in CleanAt /\ gone # {}
  /\ cache' = [k \in Keys |-> IF k \in gone THEN None ELSE cache[k]]
  /\ UNCHANGED <<tx, now, requests, crashes, commits>>

\* A crash of the database empties the table and ends every transaction.
Crash ==
  /\ crashes < MaxCrashes /\ crashes' = crashes + 1
  /\ cache' = [k \in Keys |-> None]
  /\ tx' = [s \in Sessions |-> Idle]
  /\ UNCHANGED <<now, requests, commits>>
=============================================================================
