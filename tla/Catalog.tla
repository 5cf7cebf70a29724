------------------------------ MODULE Catalog ------------------------------
(***************************************************************************)
(* What refers to what: nodes name groups and routes, plans a group, users *)
(* a plan, a group and who invited them, orders a plan, a payment and a    *)
(* user, tickets and invite codes a user, messages a ticket.  The schema   *)
(* has no foreign keys.  A deletion counts what still refers to the row,   *)
(* one kind after the other in statements of their own, or, for a user,    *)
(* deletes it too; nothing is locked, and a reference may be typed that    *)
(* nobody looks up.  Rows that only record what happened (commissions,     *)
(* redemptions, events) keep the ids of what is gone and are left out.     *)
(***************************************************************************)
EXTENDS Null, Naturals, FiniteSets, Sequences

CONSTANTS
  Clerks,    \* sessions: requests that read first and write later
  Rows,      \* ids of all tables
  KindOf,    \* the table of each
  MaxNow     \* bound: the clock

\* Which tables each table refers to.
Refers ==
  [group |-> {}, route |-> {}, payment |-> {}, plan |-> {"group"}, node |-> {"group", "route"},
   user |-> {"group", "plan", "user"}, order |-> {"user", "plan", "payment"},
   ticket |-> {"user"}, code |-> {"user"}, message |-> {"ticket"}]

ASSUME CatalogAssumption ==
  /\ IsFiniteSet(Rows) /\ KindOf \in [Rows -> DOMAIN Refers]
  /\ \A targets \in SUBSET Rows : targets # None

VARIABLES
  rows,      \* committed rows
  refs,      \* what each of them refers to, None before it is created
  shown,     \* plans with show = TRUE
  renewable, \* plans with renew = TRUE
  seats,     \* capacity_limit of each plan, 0 for NULL
  expires,   \* expired_at of each user
  now,       \* the clock
  clerk,     \* the transaction of each session, or None
  loose      \* history: targets of references that escaped a deletion

catalogVars == <<rows, refs, shown, renewable, seats, expires, now, clerk, loose>>

Kind(kind) == {x \in Rows : KindOf[x] = kind}
RefsOf(x, kind) == refs[x] \cap Kind(kind)
Have(kind) == rows \cap Kind(kind)
\* A serial key is used once.
Unborn(x) == refs[x] = None
\* The expiry of a subscription that runs, beyond the bound.
Running == MaxNow + 1

\* Rows that a database may hold: what they refer to is there, and of the right
\* tables.
StartOK(start) ==
  /\ start.rows \subseteq Rows /\ start.refs \in [Rows -> (SUBSET Rows) \cup {None}]
  /\ \A x \in start.rows :
       /\ start.refs[x] # None /\ start.refs[x] \subseteq start.rows
       /\ \A t \in start.refs[x] : KindOf[t] \in Refers[KindOf[x]]

CatalogInit(start) ==
  /\ rows = start.rows /\ refs = start.refs
  /\ shown = start.rows \cap Kind("plan") /\ renewable = start.rows \cap Kind("plan")
  /\ seats = [p \in Kind("plan") |-> 1]
  /\ expires = [u \in Kind("user") |-> Running]
  /\ now = 0 /\ loose = {}
  /\ clerk = [s \in Clerks |-> None]

(***************************************************************************)
(* Who uses a plan and who may buy it                                      *)
(***************************************************************************)
\* expired_at >= now, as the repositories count, and expired_at > now, as the
\* services ask.
Counted(u) == expires[u] >= now
Active(u) == expires[u] > now

\* count_active_users
Holders(p) == {u \in Have("user") : p \in refs[u] /\ Counted(u)}

\* create_order, for another period of the plan
Orderable(u, p) ==
  /\ p \notin shown => p \in renewable /\ p \in refs[u] /\ Active(u)
  /\ p \in refs[u] => p \in renewable
  /\ ~(p \in refs[u] /\ Active(u)) /\ seats[p] # 0 => Cardinality(Holders(p)) < seats[p]

(***************************************************************************)
(* Transactions                                                            *)
(***************************************************************************)
\* adds is what the written row will refer to, excused tells that a reference
\* to the row being deleted appeared behind the check or was not counted.
Take(s, op, on, adds) ==
  /\ clerk[s] = None
  /\ clerk' = [clerk EXCEPT ![s] =
       [op |-> op, on |-> on, adds |-> adds, step |-> 1, gone |-> {}, excused |-> FALSE]]

Busy(s, op) == clerk[s] # None /\ clerk[s].op = op

\* Row x refers to targets from now on: deletions of them, or of what they
\* belong to, may have looked already, and a target may be gone.
Refer(x, targets, done) ==
  /\ refs' = [refs EXCEPT ![x] = targets]
  /\ LET new == IF x \in rows THEN targets \ refs[x] ELSE targets
         touched == new \cup UNION {refs[t] : t \in new \cap rows}
     IN /\ loose' = loose \cup (new \ rows)
        /\ clerk' = [s \in Clerks |->
             IF s \in done THEN None
             ELSE IF clerk[s] # None /\ clerk[s].op \in {"delete", "erase"} /\ clerk[s].on \in touched
                  THEN [clerk[s] EXCEPT !.excused = TRUE] ELSE clerk[s]]

\* A refusal or a lost request
GiveUp(s) ==
  /\ clerk[s] # None
  /\ clerk' = [clerk EXCEPT ![s] = None]
  /\ UNCHANGED <<rows, refs, shown, renewable, seats, expires, now, loose>>

(***************************************************************************)
(* References                                                              *)
(***************************************************************************)
Typed == {"group", "route", "payment", "plan", "node", "user"}

\* Rows of these tables are created and edited with the ids that were typed.
TypeRefs(x, targets) ==
  /\ KindOf[x] \in Typed /\ x \notin targets
  /\ x \in rows \/ (Unborn(x) /\ KindOf[x] # "user")
  /\ \A t \in targets : KindOf[t] \in Refers[KindOf[x]]
  /\ Refer(x, targets, {})
  /\ rows' = rows \cup {x}
  /\ UNCHANGED <<shown, renewable, seats, expires, now>>

\* These read what they will refer to and write it later: create_order,
\* checkout, admin_generate_users, registration with a code, codes, tickets.
CreateOrder(s, u, p) ==
  /\ u \in Have("user") /\ p \in Have("plan") /\ Orderable(u, p)
  /\ Take(s, "order", None, {u, p})
  /\ UNCHANGED <<rows, refs, shown, renewable, seats, expires, now, loose>>

Checkout(s, o, y) ==
  /\ o \in Have("order") /\ y \in Have("payment")
  /\ Take(s, "checkout", o, {y} \cup (refs[o] \ Kind("payment")))
  /\ UNCHANGED <<rows, refs, shown, renewable, seats, expires, now, loose>>

GenerateUser(s, p) ==
  /\ p \in Have("plan")
  /\ Take(s, "user", None, {p} \cup RefsOf(p, "group"))
  /\ UNCHANGED <<rows, refs, shown, renewable, seats, expires, now, loose>>

Register(s, c) ==
  /\ c \in Have("code")
  /\ Take(s, "user", None, RefsOf(c, "user"))
  /\ UNCHANGED <<rows, refs, shown, renewable, seats, expires, now, loose>>

\* A ticket and a code of a user, a message of a ticket.
Begin(s, kind, owner) ==
  /\ owner \in rows
  /\ \/ kind \in {"ticket", "code"} /\ KindOf[owner] = "user"
     \/ kind = "message" /\ KindOf[owner] = "ticket"
  /\ Take(s, kind, None, {owner})
  /\ UNCHANGED <<rows, refs, shown, renewable, seats, expires, now, loose>>

Insert(s, x) ==
  /\ clerk[s] # None /\ KindOf[x] = clerk[s].op /\ Unborn(x)
  /\ rows' = rows \cup {x}
  /\ Refer(x, clerk[s].adds, {s})
  /\ UNCHANGED <<shown, renewable, seats, expires, now>>

\* The UPDATE of an order that is gone finds no row, and the request fails.
CommitCheckout(s) ==
  /\ Busy(s, "checkout") /\ clerk[s].on \in rows
  /\ Refer(clerk[s].on, clerk[s].adds, {s})
  /\ UNCHANGED <<rows, shown, renewable, seats, expires, now>>

\* An order is opened or a card redeemed: the plan stays locked from its read
\* to the end, and the user gets it with its group.
Open(u, p) ==
  /\ u \in Have("user") /\ p \in Have("plan")
  /\ Refer(u, {p} \cup RefsOf(p, "group") \cup RefsOf(u, "user"), {})
  /\ expires' = [expires EXCEPT ![u] = Running]
  /\ UNCHANGED <<rows, shown, renewable, seats, now>>

(***************************************************************************)
(* Deletions that count first                                              *)
(***************************************************************************)
Checks == [group |-> <<"node", "plan", "user">>, route |-> <<"node">>,
           plan |-> <<"order", "user">>, payment |-> <<"order">>]

\* Mutant: the users of a group are not counted.
InUseUncounted(x, kind) ==
  {y \in Have(kind) : x \in refs[y] /\ kind # "user"}
\* The users of a plan are counted while they are active.
InUse(x, kind) ==
  {y \in Have(kind) : x \in refs[y] /\ (kind = "user" /\ KindOf[x] = "plan" => Counted(y))}

DeleteRow(s, x) ==
  /\ x \in rows /\ KindOf[x] \in DOMAIN Checks
  /\ Take(s, "delete", x, {})
  /\ UNCHANGED <<rows, refs, shown, renewable, seats, expires, now, loose>>

CheckUse(s) ==
  /\ Busy(s, "delete") /\ clerk[s].step <= Len(Checks[KindOf[clerk[s].on]])
  /\ LET x == clerk[s].on
         kind == Checks[KindOf[x]][clerk[s].step]
     IN /\ InUse(x, kind) = {}
        /\ clerk' = [clerk EXCEPT ![s].step = @ + 1,
             ![s].excused = @ \/ (KindOf[x] = "plan" /\ \E y \in Have("user") : x \in refs[y] /\ ~Counted(y))]
  /\ UNCHANGED <<rows, refs, shown, renewable, seats, expires, now, loose>>

CommitDelete(s) ==
  /\ Busy(s, "delete") /\ clerk[s].step > Len(Checks[KindOf[clerk[s].on]])
  /\ clerk[s].on \in rows
  /\ rows' = rows \ {clerk[s].on}
  /\ loose' = IF clerk[s].excused THEN loose \cup {clerk[s].on} ELSE loose
  /\ clerk' = [clerk EXCEPT ![s] = None]
  /\ UNCHANGED <<refs, shown, renewable, seats, expires, now>>

RemoveNode(n) ==
  /\ n \in Have("node")
  /\ rows' = rows \ {n}
  /\ UNCHANGED <<refs, shown, renewable, seats, expires, now, clerk, loose>>

(***************************************************************************)
(* delete_user: what belongs to the user goes first, invited users forget  *)
(* who invited them.                                                       *)
(***************************************************************************)
Belongings == <<"message", "ticket", "order", "code", "user">>

DeleteUser(s, u) ==
  /\ u \in Have("user")
  /\ Take(s, "erase", u, {})
  /\ UNCHANGED <<rows, refs, shown, renewable, seats, expires, now, loose>>

\* One statement; what it finds is gone when the session commits.
Erase(s) ==
  /\ Busy(s, "erase") /\ clerk[s].step <= Len(Belongings)
  /\ LET kind == Belongings[clerk[s].step]
         owners == IF kind = "message" THEN {t \in Have("ticket") : clerk[s].on \in refs[t]} ELSE {clerk[s].on}
     IN clerk' = [clerk EXCEPT ![s].step = @ + 1,
                               ![s].gone = @ \cup {y \in Have(kind) : refs[y] \cap owners # {}}]
  /\ UNCHANGED <<rows, refs, shown, renewable, seats, expires, now, loose>>

CommitErase(s) ==
  /\ Busy(s, "erase") /\ clerk[s].step > Len(Belongings) /\ clerk[s].on \in rows
  /\ LET u == clerk[s].on
         gone == {y \in clerk[s].gone : KindOf[y] # "user"} \cup {u}
     IN /\ rows' = rows \ gone
        /\ refs' = [y \in Rows |-> IF y \in clerk[s].gone THEN refs[y] \ {u} ELSE refs[y]]
        /\ loose' = IF clerk[s].excused THEN loose \cup gone ELSE loose
  /\ clerk' = [clerk EXCEPT ![s] = None]
  /\ UNCHANGED <<shown, renewable, seats, expires, now>>

(***************************************************************************)
(* What administrators, traffic and time change                            *)
(***************************************************************************)
SetOffer(p, show, renew, limit) ==
  /\ p \in Have("plan")
  /\ shown' = IF show THEN shown \cup {p} ELSE shown \ {p}
  /\ renewable' = IF renew THEN renewable \cup {p} ELSE renewable \ {p}
  /\ seats' = [seats EXCEPT ![p] = limit]
  /\ UNCHANGED <<rows, refs, expires, now, clerk, loose>>

SetAccount(u, expiry) ==
  /\ u \in Have("user")
  /\ expires' = [expires EXCEPT ![u] = expiry]
  /\ UNCHANGED <<rows, refs, shown, renewable, seats, now, clerk, loose>>

NextMoment ==
  /\ now < MaxNow
  /\ now' = now + 1
  /\ UNCHANGED <<rows, refs, shown, renewable, seats, expires, clerk, loose>>

ClerkStep(s) ==
  \/ \E x \in Rows : Insert(s, x)
  \/ CommitCheckout(s) \/ CheckUse(s) \/ CommitDelete(s) \/ Erase(s) \/ CommitErase(s) \/ GiveUp(s)

ClerkBegin(s) ==
  \E x, y \in Rows :
    \/ CreateOrder(s, x, y) \/ Checkout(s, x, y) \/ GenerateUser(s, x) \/ Register(s, x)
    \/ DeleteRow(s, x) \/ DeleteUser(s, x)
    \/ \E kind \in {"ticket", "code", "message"} : Begin(s, kind, x)

CatalogChange ==
  \/ \E x, y \in Rows, targets \in SUBSET Rows :
       TypeRefs(x, targets) \/ Open(x, y) \/ RemoveNode(x)
  \/ \E p \in Rows, show, renew \in BOOLEAN, limit \in Nat : SetOffer(p, show, renew, limit)
  \/ \E u \in Rows, expiry \in Nat : SetAccount(u, expiry)
  \/ NextMoment

CatalogNext == CatalogChange \/ \E s \in Clerks : ClerkStep(s) \/ ClerkBegin(s)

CatalogSpec(start) == CatalogInit(start) /\ [][CatalogNext]_catalogVars

(***************************************************************************)
(* Properties                                                              *)
(***************************************************************************)
\* The deletions: no row refers to one that is gone, unless the id was typed
\* after that, the reference appeared while the deletion was under way, or it
\* was an expired user's when the plan was deleted.
NoDangling == \A x \in rows : refs[x] \subseteq rows \cup loose
=============================================================================
