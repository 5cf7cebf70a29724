-------------------------------- MODULE Nodes --------------------------------
(***************************************************************************)
(* The configuration of the nodes: written whole by a creation, in parts   *)
(* by the interface, as it was shown by the page, or copied; completed by  *)
(* _normalize_node before every write but a copy; read by the nodes, by    *)
(* subscriptions and by the browsers of users, which keep a list until its *)
(* ETag changes.  A request carries a function from some of the Columns to *)
(* values; None is NULL.  A secret is a number: 0 for settings that hold   *)
(* no keys, otherwise the number of the write that made it.  A row is read *)
(* and written in one step; the second it is stamped with is the one in    *)
(* which the transaction began, and others may have committed since.       *)
(***************************************************************************)
EXTENDS Null, Naturals, Sequences

CONSTANTS
  Nodes,     \* ids of server_v2node
  Readers,   \* users with a browser
  NewNodes,  \* what a creation may send: all columns
  Patches,   \* what the interface may send: some columns
  FormEdits, \* what an administrator changes in the page's form
  Quota,     \* transfer_enable of the users
  MaxWrites, \* bound: writes of nodes
  MaxClock   \* bound: seconds

\* The columns that _normalize_node and the properties look at.
Columns == {"show", "protocol", "tls", "tls_settings", "network", "encryption", "flow", "cipher",
            "obfs", "obfs_password", "up_mbps"}

\* A creation without a network is refused, and the column is NOT NULL; keys that
\* a request brings along are not those of a write.
ASSUME NodesAssumption ==
  /\ None \notin Nat /\ None \notin {"tcp", "aes-128-gcm"} /\ MaxWrites \in Nat /\ Quota \in Nat
  /\ \A d \in NewNodes : Columns \subseteq DOMAIN d
  /\ \A d \in NewNodes \cup FormEdits : "network" \in DOMAIN d => d["network"] # None
  /\ \A d \in NewNodes \cup Patches \cup FormEdits, c \in {"tls_settings", "obfs_password"} :
       c \in DOMAIN d => d[c] \notin 1..MaxWrites

VARIABLES
  node,     \* rows: a function of the columns, None before and after
  stamp,    \* created_at and updated_at of each row
  writes,   \* writes so far
  clock,    \* seconds
  form,     \* the form that lies open: the node, its columns and when, or None
  patched,  \* history: rows that descend from a partial write
  stamped,  \* history: the nodes and updated_at of all versions there were
  twins,    \* history: those of them that two versions had
  reader,   \* each user: uuid, banned, expired_at and the traffic that is left
  infoShown,\* setting show_info_to_server_enable
  held      \* each browser: the list and its ETag, or None

rowVars == <<node, stamp, writes, form, patched, stamped, twins>>
browserVars == <<reader, infoShown, held>>
nodeVars == <<rowVars, clock, browserVars>>

Live == {n \in Nodes : node[n] # None}
Ciphers2022 == {"2022-blake3-aes-128-gcm", "2022-blake3-aes-256-gcm", "2022-blake3-chacha20-poly1305"}
AlwaysTls == {"hysteria2", "hysteria", "trojan", "tuic"}

NodesInit ==
  /\ node = [n \in Nodes |-> None]
  /\ stamp = [n \in Nodes |-> [created |-> 0, updated |-> 0]]
  /\ writes = 0 /\ clock = 1 /\ form = None /\ patched = {} /\ stamped = {} /\ twins = {}
  /\ reader = [u \in Readers |-> [uuid |-> 0, banned |-> FALSE, until |-> MaxClock, left |-> Quota]]
  /\ infoShown = FALSE
  /\ held = [u \in Readers |-> None]

(***************************************************************************)
(* _normalize_node.  d is what the request carries, fresh a new secret.     *)
(***************************************************************************)
\* d, completed by e; and d with another value in a column.
Over(d, e) == [c \in DOMAIN d \cup DOMAIN e |-> IF c \in DOMAIN d THEN d[c] ELSE e[c]]
With(d, column, value) == Over([c \in {column} |-> value], d)

Value(d, column) == IF column \in DOMAIN d THEN d[column] ELSE None

Secured(d) ==
  IF Value(d, "protocol") \in AlwaysTls \/ (Value(d, "protocol") = "anytls" /\ Value(d, "tls") = 0)
  THEN With(d, "tls", 1) ELSE d

Ciphered(d) ==
  IF Value(d, "protocol") = "shadowsocks" /\ Value(d, "cipher") = None
  THEN With(d, "cipher", "aes-128-gcm") ELSE d

\* Mutant: Reality gets new keys with every write.
KeyedAlways(d, fresh) == IF Value(d, "tls") = 2 THEN With(d, "tls_settings", fresh) ELSE d
\* Reality has keys of its own unless the settings sent with it hold some.
Keyed(d, fresh) ==
  IF Value(d, "tls") = 2 /\ Value(d, "tls_settings") \in {None, 0}
  THEN With(d, "tls_settings", fresh) ELSE d

\* Mutant: flow stays whatever the network is.
StreamedAny(d) == d
Streamed(d) ==
  IF Value(d, "network") \notin {None, "tcp"} /\ Value(d, "encryption") # "mlkem768x25519plus"
  THEN With(d, "flow", None) ELSE d

Obfuscated(d, fresh) ==
  CASE Value(d, "obfs") # None /\ Value(d, "obfs_password") = None -> With(d, "obfs_password", fresh)
    [] "obfs" \in DOMAIN d /\ d["obfs"] = None -> With(d, "obfs_password", None)
    [] OTHER -> d

\* up_mbps and down_mbps are 0 where the request does not carry them.
Metered(d) == Over(d, [c \in {"up_mbps"} |-> 0])

Normalized(d, fresh) == Metered(Obfuscated(Streamed(Keyed(Ciphered(Secured(d)), fresh)), fresh))

(***************************************************************************)
(* Writes                                                                  *)
(***************************************************************************)
Write(n, row) ==
  /\ writes < MaxWrites
  /\ writes' = writes + 1
  /\ node' = [node EXCEPT ![n] = row]
  /\ UNCHANGED <<clock, browserVars>>

\* A version of row n has come that is stamped with this second.
Version(n, second) ==
  /\ stamped' = stamped \cup {<<n, second>>}
  /\ twins' = twins \cup (stamped \cap {<<n, second>>})

\* The trigger of the table takes now(), when the transaction began, which was
\* not before a second that the request knows of.  A row that does not change
\* is not written.
Touch(n, earliest) ==
  \/ node'[n] = node[n] /\ UNCHANGED <<stamp, stamped, twins>>
  \/ /\ node'[n] # node[n]
     /\ \E began \in earliest..clock :
          stamp' = [stamp EXCEPT ![n].updated = began] /\ Version(n, began)

Stamp(n) ==
  \E began \in 1..clock :
    stamp' = [stamp EXCEPT ![n] = [created |-> began, updated |-> began]] /\ Version(n, began)

\* A serial key is used once.
Unused(n) == node[n] = None /\ stamp[n].created = 0

CreateNode(n, data) ==
  /\ Unused(n)
  /\ Write(n, Normalized(data, writes + 1)) /\ Stamp(n)
  /\ UNCHANGED <<form, patched>>

UpdateNode(n, patch) ==
  /\ n \in Live
  /\ Write(n, Over(Normalized(patch, writes + 1), node[n])) /\ Touch(n, 1)
  /\ patched' = patched \cup {n}
  /\ UNCHANGED form

\* The page shows every column and sends every column back, as it was when the
\* form was opened.
OpenNodeForm(n) ==
  /\ n \in Live /\ form = None
  /\ form' = [node |-> n, columns |-> node[n], at |-> clock]
  /\ UNCHANGED <<node, stamp, writes, patched, stamped, twins, clock, browserVars>>

SaveNodeForm(edit) ==
  /\ form # None
  /\ form' = None
  /\ IF form.node \in Live
     THEN Write(form.node, Normalized(Over(edit, form.columns), writes + 1)) /\ Touch(form.node, form.at)
     ELSE UNCHANGED <<node, stamp, writes, stamped, twins, clock, browserVars>>
  /\ UNCHANGED patched

CopyNode(n, x) ==
  /\ n \in Live /\ Unused(x)
  /\ Write(x, With(node[n], "show", FALSE)) /\ Stamp(x)
  /\ patched' = IF n \in patched THEN patched \cup {x} ELSE patched
  /\ UNCHANGED form

DeleteNode(n) ==
  /\ n \in Live
  /\ Write(n, None) /\ UNCHANGED <<stamp, form, patched, stamped, twins>>

(***************************************************************************)
(* Readers                                                                 *)
(***************************************************************************)
\* is_available
Available(u) == ~reader[u].banned /\ reader[u].left > 0 /\ reader[u].until > clock

\* list_visible_by_group, of users and nodes of one group
Visible == {n \in Live : node[n]["show"]}

\* get_available_servers: the visible nodes and, in their passwords, the uuid;
\* in front of them, where the setting asks for it, two copies of the first with
\* the traffic left and the expiry for a name.
Served(u) ==
  IF Available(u)
  THEN [nodes |-> {[node |-> n, columns |-> node[n], uuid |-> reader[u].uuid] : n \in Visible},
        infos |-> IF infoShown /\ Visible # {} THEN <<reader[u].left, reader[u].until>> ELSE <<>>]
  ELSE [nodes |-> {}, infos |-> <<>>]

\* Mutant: the ids only.
CacheKeysOfIds(list) == [nodes |-> {<<x.node>> : x \in list.nodes}, infos |-> Len(list.infos)]
\* The cache_key of every entry, of which the ETag is the hash: a copy has the
\* key of the first node, so the ETag tells how many copies there are.
CacheKeys(list) ==
  [nodes |-> {<<x.node, stamp[x.node].updated>> : x \in list.nodes}, infos |-> Len(list.infos)]

NotModified(u) == held[u] # None /\ held[u].etag = CacheKeys(Served(u))

\* get_user_servers
GetUserServers(u) ==
  /\ held' = IF NotModified(u) THEN held
             ELSE [held EXCEPT ![u] = [list |-> Served(u), etag |-> CacheKeys(Served(u))]]
  /\ UNCHANGED <<rowVars, clock, reader, infoShown>>

\* reset_security, once
ResetUuid(u) ==
  /\ reader[u].uuid = 0
  /\ reader' = [reader EXCEPT ![u].uuid = 1]
  /\ UNCHANGED <<rowVars, clock, infoShown, held>>

SetBanned(u) ==
  /\ reader' = [reader EXCEPT ![u].banned = ~@]
  /\ UNCHANGED <<rowVars, clock, infoShown, held>>

\* flush_traffic_cache_to_users: reported traffic is billed.
BillTraffic(u) ==
  /\ reader[u].left > 0
  /\ reader' = [reader EXCEPT ![u].left = @ - 1]
  /\ UNCHANGED <<rowVars, clock, infoShown, held>>

\* An order is opened: new traffic, and an expiry beyond the bound.
Renew(u) ==
  /\ reader' = [reader EXCEPT ![u].left = Quota, ![u].until = MaxClock + 1]
  /\ UNCHANGED <<rowVars, clock, infoShown, held>>

ShowInfo ==
  /\ infoShown' = ~infoShown
  /\ UNCHANGED <<rowVars, clock, reader, held>>

NextSecond ==
  /\ clock < MaxClock
  /\ clock' = clock + 1
  /\ UNCHANGED <<rowVars, browserVars>>

NodeWrites ==
  \/ \E n \in Nodes :
       \/ \E data \in NewNodes : CreateNode(n, data)
       \/ \E patch \in Patches : UpdateNode(n, patch)
       \/ OpenNodeForm(n) \/ DeleteNode(n)
       \/ \E x \in Nodes : CopyNode(n, x)
  \/ \E edit \in FormEdits : SaveNodeForm(edit)

Browsing ==
  \/ NextSecond \/ ShowInfo
  \/ \E u \in Readers : GetUserServers(u) \/ ResetUuid(u) \/ SetBanned(u) \/ BillTraffic(u) \/ Renew(u)

NodesNext == NodeWrites \/ Browsing

NodesSpec == NodesInit /\ [][NodesNext]_nodeVars

(***************************************************************************)
(* What a client and a node compute from a row of shadowsocks              *)
(***************************************************************************)
Digest(n, length) == <<stamp[n].created, length>>

\* _ss_password, the part before the colon
SsPassword(n) ==
  IF node[n]["cipher"] \in Ciphers2022
  THEN Digest(n, IF node[n]["cipher"] = "2022-blake3-aes-128-gcm" THEN 16 ELSE 32) ELSE None

\* get_v2node_config: server_key
ServerKey(n) ==
  CASE node[n]["cipher"] = "2022-blake3-aes-128-gcm" -> Digest(n, 16)
    [] node[n]["cipher"] = "2022-blake3-aes-256-gcm" -> Digest(n, 32)
    [] OTHER -> None

(***************************************************************************)
(* Properties                                                              *)
(***************************************************************************)
\* _normalize_node: however a node was created, saved by the page or copied,
\* its columns fit together.  A partial update may pull them apart: it is
\* completed without the columns it does not carry.  And a client derives the
\* server key of a cipher of 2022 like the node does; for the third of these
\* ciphers the node is not given any.
Coherent ==
  \A n \in Live \ patched :
    LET row == node[n]
    IN /\ row["protocol"] \in AlwaysTls \cup {"anytls"} => row["tls"] # 0
       /\ row["protocol"] = "shadowsocks" => row["cipher"] # None
       /\ row["tls"] = 2 => row["tls_settings"] \notin {None, 0}
       /\ row["flow"] # None => row["network"] = "tcp" \/ row["encryption"] = "mlkem768x25519plus"
       /\ (row["obfs"] # None) <=> (row["obfs_password"] # None)
       /\ row["cipher"] # "2022-blake3-chacha20-poly1305" => SsPassword(n) = ServerKey(n)

\* The page sends something else in this column than what the row has.
Retyped(edit, n, column) ==
  column \in DOMAIN edit \/ form.columns[column] # node[n][column]

\* A node that has keys or a password gets new ones only from a request that
\* sends Reality without the settings, or obfuscation without the password, or
\* from a page that was opened before it had these, or on which they are edited:
\* clients hold the old ones until their subscription is updated.
SecretsSurvive ==
  [][\A n \in Live : node'[n] # None =>
       /\ node[n]["tls_settings"] \notin {None, 0} /\ node'[n]["tls_settings"] = writes' =>
            \/ \E p \in Patches : Value(p, "tls") = 2 /\ Value(p, "tls_settings") \in {None, 0} /\ UpdateNode(n, p)
            \/ \E e \in FormEdits : SaveNodeForm(e) /\ Retyped(e, n, "tls_settings")
       /\ node[n]["obfs_password"] # None /\ node'[n]["obfs_password"] = writes' =>
            \/ \E p \in Patches : Value(p, "obfs") # None /\ Value(p, "obfs_password") = None /\ UpdateNode(n, p)
            \/ \E e \in FormEdits : SaveNodeForm(e) /\ Retyped(e, n, "obfs_password")]_node

\* get_user_servers, "304 Not Modified": the browser has the entries of the
\* current list and each node with the settings it has now, whether transactions
\* commit in the order of their stamps or not, nodes come, go and are hidden, and
\* the account or the setting changes.  What may be old is what no stamp tells: a
\* node two versions of which were written by transactions of the same second,
\* the uuid in the passwords, and the traffic and expiry in the copies in front.
NotModifiedIsTrue ==
  \A u \in Readers :
    NotModified(u) =>
      LET list == held[u].list
      IN /\ {x.node : x \in list.nodes} = {x.node : x \in Served(u).nodes}
         /\ Len(list.infos) = Len(Served(u).infos)
         /\ \A x \in list.nodes : <<x.node, stamp[x.node].updated>> \notin twins => x.columns = node[x.node]

=============================================================================
