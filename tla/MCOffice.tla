------------------------------ MODULE MCOffice ------------------------------
(***************************************************************************)
(* The administration: tickets and chats, mail and events, nodes, and what *)
(* refers to what.  A behaviour belongs to one menu; the others stand still.*)
(***************************************************************************)
EXTENDS Desk, Events, Nodes, Catalog, TLC

CONSTANTS a1, u1, c1, g1, r1, p1, y1, n1, v1, v2, o1, t1, m1, i1

VARIABLE menu  \* bound: what a behaviour is about

MCChat == [u \in Clients |-> IF u = a1 THEN c1 ELSE None]
MCCategories == {"access", "mail", "system", "audit"}
MCRetention == [access |-> 1, mail |-> 2, system |-> 2]

(* Nodes: one of each protocol that _normalize_node treats differently. *)
Reality ==
  [show |-> TRUE, protocol |-> "vless", tls |-> 2, tls_settings |-> None, network |-> "tcp",
   encryption |-> None, flow |-> "xtls-rprx-vision", cipher |-> None, obfs |-> None,
   obfs_password |-> None, up_mbps |-> 0]
MCNewNodes ==
  {Reality,
   [Reality EXCEPT !.protocol = "shadowsocks", !.tls = 0, !.network = "ws", !.cipher = "2022-blake3-aes-128-gcm"],
   [Reality EXCEPT !.protocol = "hysteria2", !.tls = 0, !.obfs = "salamander"],
   [Reality EXCEPT !.protocol = "anytls", !.tls = 0, !.network = "ws", !.tls_settings = 0]}
MCPatches ==
  {[tls |-> 2], [network |-> "ws"], [show |-> FALSE], [obfs |-> "salamander"],
   [cipher |-> "2022-blake3-chacha20-poly1305"], [tls |-> 0]}
MCFormEdits ==
  {[show |-> FALSE], [show |-> TRUE, network |-> "ws"], [obfs |-> None], [protocol |-> "shadowsocks"]}

(* Catalog: the rows there are at the start of each menu. *)
MCKindOf ==
  g1 :> "group" @@ r1 :> "route" @@ p1 :> "plan" @@ y1 :> "payment" @@ n1 :> "node" @@ v1 :> "user"
    @@ v2 :> "user" @@ o1 :> "order" @@ t1 :> "ticket" @@ m1 :> "message" @@ i1 :> "code"
Rooted(there, pointing) ==
  [rows |-> there,
   refs |-> [x \in Rows |-> IF x \in pointing THEN {g1} ELSE IF x \in there THEN {} ELSE None]]
Starts ==
  [group |-> Rooted({g1, p1, n1}, {p1}), plan |-> Rooted({p1, y1, v1}, {}),
   erase |-> Rooted({p1, v1}, {})]
ASSUME StartsAssumption == \A start \in DOMAIN Starts : StartOK(Starts[start])

Menus == {"tickets", "bot", "mail", "log", "config", "browse"} \cup DOMAIN Starts

Init ==
  /\ menu \in Menus
  /\ DeskInit /\ EventsInit /\ NodesInit
  /\ CatalogInit(IF menu \in DOMAIN Starts THEN Starts[menu] ELSE Rooted({}, {}))

DeskMenu ==
  /\ menu \in {"tickets", "bot"} /\ raced = {}
  /\ \E s \in Desks : DeskStep(s) \/ (menu = "tickets" /\ TicketStart(s)) \/ (menu = "bot" /\ ChatStart(s))
  /\ UNCHANGED <<eventVars, nodeVars, catalogVars>>

EventsMenu ==
  /\ (menu = "mail" /\ MailNext) \/ (menu = "log" /\ LogNext)
  /\ UNCHANGED <<deskVars, nodeVars, catalogVars>>

FewWrites == 3
SomeWrite(n) ==
  \/ CreateNode(n, Reality) \/ DeleteNode(n)
  \/ \E patch \in {[show |-> FALSE], [network |-> "ws"]} : UpdateNode(n, patch)

NodesMenu ==
  /\ \/ menu = "config" /\ NodeWrites
     \/ menu = "browse" /\ (Browsing \/ \E n \in Nodes : writes < FewWrites /\ SomeWrite(n))
  /\ UNCHANGED <<deskVars, eventVars, catalogVars>>

CatalogStart(s) ==
  \/ menu = "group" /\ (GenerateUser(s, p1) \/ \E x \in {g1, r1} : DeleteRow(s, x))
  \/ menu = "plan" /\ \/ CreateOrder(s, v1, p1) \/ Checkout(s, o1, y1) \/ GenerateUser(s, p1)
                      \/ \E x \in {p1, y1} : DeleteRow(s, x)
  \/ menu = "erase" /\ \/ CreateOrder(s, v1, p1) \/ Register(s, i1) \/ DeleteUser(s, v1)
                       \/ \E owner \in {v1, t1}, kind \in {"ticket", "code", "message"} : Begin(s, kind, owner)

CatalogEdit ==
  \/ menu = "group" /\ \/ \E x \in {n1, r1, p1}, targets \in SUBSET {g1, r1} : TypeRefs(x, targets)
                       \/ RemoveNode(n1)
  \/ menu = "plan" /\ \/ Open(v1, p1) \/ NextMoment \/ SetAccount(v1, 0)
                      \/ \E show \in BOOLEAN : SetOffer(p1, show, ~show, 1)
                      \/ \E targets \in {{}, {p1}} : TypeRefs(v1, targets)

CatalogMenu ==
  /\ menu \in DOMAIN Starts
  /\ CatalogEdit \/ \E s \in Clerks : ClerkStep(s) \/ CatalogStart(s)
  /\ UNCHANGED <<deskVars, eventVars, nodeVars>>

vars == <<deskVars, eventVars, nodeVars, catalogVars, menu>>

Next == (DeskMenu \/ EventsMenu \/ NodesMenu \/ CatalogMenu) /\ UNCHANGED menu

Spec == Init /\ [][Next]_vars

Symmetry == Permutations(Desks) \cup Permutations(Clerks)
=============================================================================
