------------------------------ MODULE Devices ------------------------------
(***************************************************************************)
(* The devices of a user that are online.  Every node reports the addresses*)
(* it sees; a report merges them into one entry per user, which it reads   *)
(* without a lock, and drops the list of all counts, which the next reader *)
(* builds again from the entries.                                          *)
(***************************************************************************)
EXTENDS RuntimeCache, FiniteSetsExt

CONSTANTS
  Limited,     \* users with a device limit
  Nodes,
  Addresses,   \* addresses a node can see
  UniqueIp,    \* device_limit_mode 1
  AliveTtl,    \* 120 s
  StaleAfter,  \* 100 s
  ListTtl      \* 60 s

ASSUME DeviceAssumption ==
  /\ UniqueIp \in BOOLEAN
  /\ AliveTtl \in Nat /\ StaleAfter \in Nat /\ ListTtl \in Nat
  /\ StaleAfter < AliveTtl

VARIABLE
  heard        \* history: the last report of each node on each user

AliveKey(u) == <<"alive", u>>
ListKey == <<"alive_list">>
DeviceKeys == {AliveKey(u) : u \in Limited} \cup {ListKey}

\* What an entry can hold: who saw which addresses, and when.
Sights == UNION {[ns -> [ips : SUBSET Addresses, at : 0..MaxTime]] : ns \in SUBSET Nodes}

ASSUME AliveAssumption ==
  /\ DeviceKeys \subseteq Keys
  /\ None \notin Sights
  /\ None \notin [value : Sights, until : Nat, began : Nat, put : Nat]

DeviceInit == heard = [u \in Limited |-> [n \in Nodes |-> None]]

-----------------------------------------------------------------------------
\* The entry of the node is replaced, and what no node has confirmed for 100
\* seconds is dropped.
Merged(seen, n, ips, at) ==
  LET all == With(seen, n, [ips |-> ips, at |-> at]) IN
  [m \in {x \in DOMAIN all : at - all[x].at <= StaleAfter} |-> all[m]]

\* _count_alive_ips
AliveIps(seen) ==
  IF UniqueIp THEN Cardinality(UNION {seen[n].ips : n \in DOMAIN seen})
  ELSE MapThenSumSet(LAMBDA n : Cardinality(seen[n].ips), DOMAIN seen)

Seen(s, u) == IF Get(s, AliveKey(u)) = None THEN Nothing ELSE Get(s, AliveKey(u))

-----------------------------------------------------------------------------
(***************************************************************************)
(* handle_alive: all entries are read at once, then written one by one, in *)
(* the order of the node's message.  Two reports that name the same users  *)
(* in another order wait for each other, until PostgreSQL ends one of them *)
(* (RollBack).                                                             *)
(***************************************************************************)
Alive(s, n, data) ==
  /\ Begin(s, "Alive", "set",
           [node |-> n, at |-> now, data |-> data, todo |-> DOMAIN data,
            seen |-> [u \in DOMAIN data |-> Seen(s, u)]], Nothing)
  /\ UNCHANGED heard

SetAlive(s, u) ==
  LET mem == tx[s].mem IN
  /\ tx[s].op = "Alive" /\ tx[s].step = "set"
  /\ u \in mem.todo /\ Unlocked(s, AliveKey(u))
  /\ Continue(s, "set", [mem EXCEPT !.todo = @ \ {u}],
       Put(tx[s].own, AliveKey(u), Merged(mem.seen[u], mem.node, mem.data[u], mem.at), AliveTtl))
  /\ UNCHANGED heard

\* Mutant: the list is left to expire.
WithoutListKept(own) == own

WithoutList(own) == Drop(own, ListKey)

DropList(s) ==
  /\ tx[s].op = "Alive" /\ tx[s].step = "set" /\ tx[s].mem.todo = {}
  /\ MayDrop(s, ListKey)
  /\ Continue(s, "reported", tx[s].mem, WithoutList(tx[s].own))
  /\ UNCHANGED heard

\* Of two reports that overlap the later one takes the other's news away.
CommitAlive(s) ==
  LET mem == tx[s].mem
      news(u, n) ==
        IF n = mem.node THEN [ips |-> mem.data[u], at |-> mem.at, put |-> commits + 1]
        ELSE IF heard[u][n] # None /\ heard[u][n].put > tx[s].began THEN None
        ELSE heard[u][n] IN
  /\ tx[s].op = "Alive" /\ tx[s].step = "reported"
  /\ Commit(s)
  /\ heard' = [u \in Limited |->
       IF u \in DOMAIN mem.data THEN [n \in Nodes |-> news(u, n)] ELSE heard[u]]

-----------------------------------------------------------------------------
(***************************************************************************)
(* get_alive_list: the cached list, or one made of all entries.            *)
(***************************************************************************)
AliveList(s) ==
  /\ Get(s, ListKey) = None
  /\ Begin(s, "AliveList", "set",
       [u \in {x \in Limited : Get(s, AliveKey(x)) # None} |-> AliveIps(Seen(s, u))], Nothing)
  /\ UNCHANGED heard

SetList(s) ==
  /\ tx[s].op = "AliveList" /\ tx[s].step = "set"
  /\ Unlocked(s, ListKey)
  /\ Continue(s, "listed", None, Put(tx[s].own, ListKey, tx[s].mem, ListTtl))
  /\ UNCHANGED heard

CommitList(s) ==
  /\ tx[s].op = "AliveList" /\ tx[s].step = "listed"
  /\ Commit(s)
  /\ UNCHANGED heard

-----------------------------------------------------------------------------
DeviceStart(s) ==
  \/ AliveList(s)
  \/ \E n \in Nodes, users \in (SUBSET Limited) \ {{}} :
       \E data \in [users -> (SUBSET Addresses) \ {{}}] : Alive(s, n, data)

DeviceStep(s) ==
  \/ \E u \in Limited : SetAlive(s, u)
  \/ DropList(s) \/ CommitAlive(s) \/ SetList(s) \/ CommitList(s)

\* A crash empties the table, and nobody has heard of anything.
DeviceOther ==
  \/ /\ Tick \/ Cleanup \/ \E s \in Sessions : RollBack(s)
     /\ UNCHANGED heard
  \/ Crash /\ heard' = [u \in Limited |-> [n \in Nodes |-> None]]

DeviceNext == (\E s \in Sessions : DeviceStart(s) \/ DeviceStep(s)) \/ DeviceOther

DeviceSpec == CacheInit /\ DeviceInit /\ [][DeviceNext]_<<cacheVars, heard>>

-----------------------------------------------------------------------------
(***************************************************************************)
(* Properties.                                                             *)
(***************************************************************************)
\* What a node has reported is in the user's entry for as long as it counts,
\* whatever other nodes report, unless two reports on the user overlapped; and
\* no two of the addresses it counts were seen too long after each other
\* (handle_alive).
ReportKept ==
  \A u \in Limited : Live(cache[AliveKey(u)]) =>
    LET row == cache[AliveKey(u)]
        written == row.until - AliveTtl IN
    /\ \A n \in Nodes : heard[u][n] # None /\ written - heard[u][n].at <= StaleAfter =>
         n \in DOMAIN row.value /\ row.value[n].ips = heard[u][n].ips
    /\ \A m, n \in DOMAIN row.value : row.value[m].at - row.value[n].at <= StaleAfter

\* The list agrees with every entry that was there when the list was made, and
\* a report removes every list but one that is being made at that time
\* (get_alive_list, handle_alive).
ListCurrent ==
  Live(cache[ListKey]) => \A u \in Limited : Live(cache[AliveKey(u)]) =>
    LET list == cache[ListKey]
        row == cache[AliveKey(u)] IN
    /\ list.put > row.began
    /\ list.began >= row.put =>
         u \in DOMAIN list.value /\ list.value[u] = AliveIps(row.value)

\* The entry of every user and the list made of them.
DevicesCurrent == ReportKept /\ ListCurrent
=============================================================================
