------------------------------- MODULE Pages -------------------------------
(***************************************************************************)
(* The administrators' HTML pages (src/app/admin_ui): a form is rendered    *)
(* from a row, lies open in a browser tab, is posted back as text, parsed   *)
(* by forms.py, handed to a service and written.  A behaviour looks at one  *)
(* column of one row, chosen by Init among all columns the pages edit; the  *)
(* other inputs of its form are left as they are.  A value is "null", the   *)
(* false value of its type ("zero": 0, "", {}, []), another one ("some"),   *)
(* or a time that is not a whole minute ("odd").  What an input holds is    *)
(* "blank", "zero", "some", the word None ("none") or unreadable ("bad").   *)
(*                                                                          *)
(* Columns of a node that its service computes from each other are in       *)
(* Nodes; the pages of orders, tickets and jobs call the services that    *)
(* Orders, Desk and JobQueue model.                                         *)
(***************************************************************************)
EXTENDS Naturals, TLC

CONSTANTS
  MaxTokens  \* bound: tokens issued in a behaviour

VARIABLES
  field,    \* <<table, column>>
  row,      \* the column's value, or "absent"
  tab,      \* the open form, or Closed
  outcome,  \* what the last request answered
  admin,    \* the token cookie belongs to an administrator
  csrf,     \* the cookie admin_csrf, 0 when there is none
  door,     \* the token in the open login page, 0 when there is none
  page,     \* the token in the page the tab was loaded with, 0 before that
  issued,   \* the tokens issued so far are 1 .. issued
  login,    \* history: the token issued by the latest login
  loadedIn  \* history: the login during which the page was loaded

session == <<admin, csrf, door, page, issued, login, loadedIn>>
vars == <<field, row, tab, outcome, session>>

(***************************************************************************)
(* How a column is rendered, how its input is read back, and which columns  *)
(* each page edits.                                                         *)
(***************************************************************************)
On(columns, kind) == [c \in columns |-> kind]

\* What the expression in a template puts into the input.
Rendered(kind, v) ==
  IF kind = "hidden" THEN "blank"                   \* the new password
  ELSE IF v = "odd" THEN IF kind = "window" THEN "bad" ELSE "some"  \* only minutes
  ELSE IF v = "null"
       THEN IF kind = "raw" THEN "none" ELSE IF kind = "json" THEN "zero" ELSE "blank"
  ELSE IF v = "zero" /\ kind \notin {"number", "json"} THEN "blank" ELSE v

\* The functions of deps.py and forms.py that turn an input into a value;
\* before is the hidden expired_at_original.
Parsed(kind, text, before) ==
  IF text # "blank"
  THEN CASE text = "bad" -> "refused" [] text = "none" -> "some" [] OTHER -> text
  ELSE
  CASE kind = "original" -> before
    [] kind \in {"text", "int", "time", "object", "list"} -> "null"
    [] kind \in {"string", "flag", "orZero", "count"} -> "zero"
    [] kind = "default" -> "some"
    [] kind = "level" -> IF before = "zero" THEN "unreadable" ELSE "zero"
    [] OTHER -> "refused"          \* required_int, required_datetime, ...

UserShown ==
  On({"balance", "transfer_enable"}, "number") @@
  On({"email", "remarks", "plan_id", "group_id", "device_limit", "speed_limit",
      "discount", "commission_rate"}, "truthy") @@
  On({"banned", "is_admin", "is_staff"}, "flag") @@
  ("password" :> "hidden") @@ ("expired_at" :> "minute")
UserUpdate ==
  On({"email", "password", "remarks"}, "text") @@
  On({"balance", "transfer_enable", "plan_id", "group_id", "device_limit",
      "speed_limit", "discount", "commission_rate"}, "int") @@
  On({"banned", "is_admin", "is_staff"}, "flag") @@ ("expired_at" :> "original")
UserCreate == On({"email", "password"}, "string")
UserGenerate == ("password" :> "text") @@ ("plan_id" :> "int") @@ ("expired_at" :> "time")

PlanNumbers ==
  {"group_id", "transfer_enable", "device_limit", "speed_limit", "sort", "capacity_limit",
   "month_price", "quarter_price", "half_year_price", "year_price", "two_year_price",
   "three_year_price", "onetime_price", "reset_price", "reset_traffic_method"}
PlanShownTruthy ==
  On(PlanNumbers \cup {"name", "content"}, "truthy") @@ On({"show", "renew"}, "flag")
PlanShown ==
  On(PlanNumbers, "number") @@ On({"name", "content"}, "truthy") @@ On({"show", "renew"}, "flag")
PlanUpdate ==
  On(PlanNumbers, "int") @@ On({"name", "content"}, "text") @@ On({"show", "renew"}, "flag")
PlanCreate == On({"group_id", "transfer_enable"}, "required") @@ ("name" :> "string") @@ PlanUpdate

NoticeShown == On({"title", "content", "img_url", "tags"}, "truthy") @@ ("show" :> "flag")
NoticeUpdate == On({"title", "content", "img_url", "tags"}, "text") @@ ("show" :> "flag")
NoticeCreate == On({"title", "content"}, "string") @@ NoticeUpdate

KnowledgeShown ==
  On({"language", "category", "title", "body"}, "truthy") @@ ("sort" :> "number") @@ ("show" :> "flag")
KnowledgeUpdate ==
  On({"language", "category", "title", "body"}, "text") @@ ("sort" :> "int") @@ ("show" :> "flag")
KnowledgeCreate == On({"language", "category", "title", "body"}, "string") @@ KnowledgeUpdate

\* window is the pair started_at, ended_at; it is "odd" when the two lie in
\* the same minute.
CouponShown ==
  On({"value", "limit_use", "limit_use_with_user"}, "number") @@
  On({"name", "code", "limit_plan_ids", "limit_period"}, "truthy") @@
  ("type" :> "choice") @@ ("window" :> "window") @@ ("show" :> "flag")
CouponUpdate ==
  On({"type", "value", "limit_use", "limit_use_with_user"}, "int") @@
  On({"name", "code", "limit_plan_ids", "limit_period"}, "text") @@
  ("window" :> "time") @@ ("show" :> "flag")
CouponCreate == On({"type", "value", "window"}, "required") @@ ("name" :> "string") @@ CouponUpdate
CouponGenerate == On({"type", "value", "window"}, "required") @@ ("name" :> "string") @@ CouponUpdate

GiftcardShown ==
  On({"value", "limit_use"}, "number") @@
  On({"name", "code", "plan_id", "used_user_ids"}, "truthy") @@
  ("type" :> "choice") @@ ("window" :> "window")
GiftcardUpdate ==
  On({"type", "value", "plan_id", "limit_use"}, "int") @@
  On({"name", "code", "used_user_ids"}, "text") @@ ("window" :> "time")
GiftcardCreate ==
  On({"type", "window"}, "required") @@ ("name" :> "string") @@ ("code" :> "text") @@
  On({"value", "plan_id", "limit_use"}, "int")
GiftcardGenerate ==
  On({"type", "window"}, "required") @@ ("name" :> "string") @@
  On({"value", "plan_id", "limit_use"}, "int")

PaymentShown ==
  On({"handling_fee_fixed", "handling_fee_percent", "sort"}, "number") @@
  On({"name", "icon", "notify_domain"}, "truthy") @@
  ("payment" :> "choice") @@ ("config" :> "json") @@ ("enable" :> "flag")
PaymentUpdate ==
  On({"handling_fee_fixed", "handling_fee_percent", "sort"}, "int") @@
  On({"payment", "name", "icon", "notify_domain", "config"}, "text") @@ ("enable" :> "flag")
PaymentCreate == On({"payment", "name", "config"}, "string") @@ PaymentUpdate

\* user_id and code of an invite code are read-only once it exists.
InviteShown == ("status" :> "choice") @@ ("pv" :> "number")
InviteUpdate == On({"status", "pv"}, "int")
InviteCreate == On({"status"}, "orZero")

GroupShown == On({"name"}, "truthy")
GroupUpdate == On({"name"}, "text")
GroupCreate == On({"name"}, "string")

\* match is that of a rule whose action is not default_out.
RouteShown ==
  On({"remarks", "action_value"}, "truthy") @@ ("match" :> "raw") @@ ("action" :> "choice")
RouteUpdate == On({"remarks", "action", "action_value"}, "text") @@ ("match" :> "list")
RouteCreate == On({"remarks", "action"}, "string") @@ RouteUpdate

NodeShown ==
  On({"server_port", "sort", "parent_id", "up_mbps", "down_mbps"}, "number") @@
  On({"name", "host", "port", "rate", "listen_ip", "udp_relay_mode", "congestion_control",
      "group_id", "route_id", "tags", "padding_scheme"}, "truthy") @@
  On({"network_settings", "encryption_settings"}, "json") @@
  On({"show", "disable_sni", "zero_rtt_handshake"}, "flag")
NodeUpdate ==
  On({"server_port", "sort", "parent_id", "up_mbps", "down_mbps"}, "int") @@
  On({"name", "host", "port", "rate", "listen_ip", "udp_relay_mode", "congestion_control"}, "text") @@
  On({"group_id", "route_id", "tags", "padding_scheme"}, "list") @@
  On({"network_settings", "encryption_settings"}, "object") @@
  On({"show", "disable_sni", "zero_rtt_handshake"}, "flag")
NodeCreate ==
  On({"server_port", "group_id"}, "required") @@ On({"up_mbps", "down_mbps"}, "orZero") @@
  On({"rate", "listen_ip"}, "default") @@ On({"name", "host", "port"}, "string") @@ NodeUpdate

Levels == {"commission_distribution_l1", "commission_distribution_l2", "commission_distribution_l3"}
TextSettings == {"app_name", "app_url", "subscribe_url", "email_host", "telegram_bot_token"}
CountSettings == {"ticket_status", "try_out_plan_id", "server_pull_interval", "email_verify"}
ListSettings == {"deposit_bounus", "email_whitelist_suffix"}
\* fetch_config gives a level of 0 as None, for which the page shows nothing
\* and sends the type hint "str".  The levels stand for the group invite.
SettingShown ==
  On(TextSettings \cup Levels, "truthy") @@ On(CountSettings, "number") @@ On(ListSettings, "json")
SettingUpdate ==
  On(TextSettings, "string") @@ On(CountSettings \cup ListSettings, "count") @@ On(Levels, "level")

\* The columns that are NOT NULL.
UserNotNull ==
  {"email", "password", "balance", "transfer_enable", "banned", "is_admin", "is_staff", "expired_at"}
PlanNotNull == {"name", "group_id", "transfer_enable", "show", "renew"}
NoticeNotNull == {"title", "content", "show"}
KnowledgeNotNull == {"language", "category", "title", "body", "show"}
CouponNotNull == {"name", "code", "type", "value", "window", "show"}
GiftcardNotNull == {"name", "code", "type", "window"}
PaymentNotNull == {"name", "payment", "config", "enable"}
InviteNotNull == {"status", "pv"}
GroupNotNull == {"name"}
RouteNotNull == {"remarks", "action"}
NodeNotNull ==
  {"name", "host", "port", "server_port", "rate", "listen_ip", "show", "disable_sni",
   "zero_rtt_handshake", "up_mbps", "down_mbps"}

\* required: the inputs a browser does not send empty; filled: columns in which
\* the services never store a false value.
Form(shown, create, update, required, notNull, filled) ==
  [shown |-> shown, create |-> create, update |-> update,
   required |-> required, notNull |-> notNull, filled |-> filled]

Forms == [
  user |-> Form(UserShown, UserCreate, UserUpdate, {}, UserNotNull, {"email", "password"}),
  plan |-> Form(PlanShown, PlanCreate, PlanUpdate,
    {"name", "group_id", "transfer_enable"}, PlanNotNull, {}),
  notice |-> Form(NoticeShown, NoticeCreate, NoticeUpdate,
    {"title", "content"}, NoticeNotNull, {}),
  knowledge |-> Form(KnowledgeShown, KnowledgeCreate, KnowledgeUpdate,
    {"language", "category", "title", "body"}, KnowledgeNotNull, {}),
  coupon |-> Form(CouponShown, CouponCreate, CouponUpdate,
    {"name", "type", "value", "window"}, CouponNotNull, {"code", "value", "window"}),
  giftcard |-> Form(GiftcardShown, GiftcardCreate, GiftcardUpdate,
    {"name", "type", "window"}, GiftcardNotNull, {"code", "window"}),
  payment |-> Form(PaymentShown, PaymentCreate, PaymentUpdate,
    {"name", "payment", "config"}, PaymentNotNull, {"payment", "config"}),
  invite |-> Form(InviteShown, InviteCreate, InviteUpdate, {}, InviteNotNull, {}),
  group |-> Form(GroupShown, GroupCreate, GroupUpdate, {"name"}, GroupNotNull, {"name"}),
  route |-> Form(RouteShown, RouteCreate, RouteUpdate, {"remarks"}, RouteNotNull, {}),
  node |-> Form(NodeShown, NodeCreate, NodeUpdate,
    {"name", "host", "port", "server_port", "rate", "group_id"}, NodeNotNull, {}),
  setting |-> Form(SettingShown, SettingUpdate, SettingUpdate, {}, DOMAIN SettingShown, {})]

Fields == UNION {{<<t, c>> : c \in DOMAIN Forms[t].shown} : t \in DOMAIN Forms}
Table == field[1]
Column == field[2]
Shown(v) == Rendered(Forms[Table].shown[Column], v)

\* What the column may hold through the interface and the program's own writes.
Storable ==
  LET kind == Forms[Table].shown[Column]
  IN (IF Column \in Forms[Table].notNull THEN {} ELSE {"null"}) \cup
     (IF kind = "choice" \/ Column \in Forms[Table].filled THEN {} ELSE {"zero"}) \cup
     (IF kind \in {"minute", "window"} THEN {"odd"} ELSE {}) \cup {"some"}

\* What can be put into the input: markup, type attribute and free text.
Typed(shown, parse) ==
  IF shown = "choice" THEN {"some"}
  ELSE IF shown = "window" THEN {"blank", "some", "bad"}
  ELSE IF \/ shown \in {"flag", "minute", "hidden"}
          \/ parse \in {"text", "string", "default"} /\ shown # "json"
       THEN {"blank", "some"}
  ELSE IF shown # "json" /\ (parse = "list" \/ (parse = "required" /\ shown = "truthy"))
       THEN {"blank", "some", "bad"}
  ELSE IF parse \in {"int", "required", "orZero"} THEN {"blank", "zero", "some"}
  ELSE {"blank", "zero", "some", "bad"}

Closed == [mode |-> "closed", base |-> "absent", input |-> "blank"]

Init ==
  /\ field \in Fields
  /\ row \in Storable \cup (IF Table = "setting" THEN {} ELSE {"absent"})
  /\ tab = Closed /\ outcome = "none"
  /\ admin = TRUE /\ csrf = 1 /\ door = 0 /\ page = 1
  /\ issued = 1 /\ login = 1 /\ loadedIn = 1

(***************************************************************************)
(* Sessions.  Every page carries the cookie's token of the moment it was    *)
(* loaded and sends it in the header X-CSRF-Token of every request.         *)
(***************************************************************************)
MayIssue == issued < MaxTokens

\* The token in the cookie, or a new one that the answer sets.
KeepOrIssue ==
  IF csrf # 0 THEN UNCHANGED <<csrf, issued>>
  ELSE MayIssue /\ csrf' = issued + 1 /\ issued' = issued + 1

LoginPage ==
  /\ ~admin
  /\ KeepOrIssue
  /\ door' = csrf'
  /\ UNCHANGED <<field, row, tab, outcome, admin, page, login, loadedIn>>

\* A wrong password, or a login page older than the cookie.
LoginRefused ==
  /\ door # 0
  /\ KeepOrIssue
  /\ door' = csrf'
  /\ UNCHANGED <<field, row, tab, outcome, admin, page, login, loadedIn>>

LoginKeepingToken ==
  /\ door # 0 /\ door = csrf /\ MayIssue
  /\ csrf' = csrf /\ issued' = issued + 1 /\ login' = issued + 1
  /\ admin' = TRUE /\ door' = 0
  /\ UNCHANGED <<field, row, tab, outcome, page, loadedIn>>

LoginSubmit ==
  /\ door # 0 /\ door = csrf /\ MayIssue
  /\ csrf' = issued + 1 /\ issued' = issued + 1 /\ login' = issued + 1
  /\ admin' = TRUE /\ door' = 0
  /\ UNCHANGED <<field, row, tab, outcome, page, loadedIn>>

Logout ==
  /\ admin' = FALSE /\ csrf' = 0
  /\ UNCHANGED <<field, row, tab, outcome, door, page, issued, login, loadedIn>>

\* The token expires, or its user is banned or no administrator any more.
LoseRights ==
  /\ admin
  /\ admin' = FALSE
  /\ UNCHANGED <<field, row, tab, outcome, csrf, door, page, issued, login, loadedIn>>

LoadPage ==
  /\ admin
  /\ KeepOrIssue
  /\ page' = csrf' /\ loadedIn' = login
  /\ tab' = Closed
  /\ UNCHANGED <<field, row, outcome, admin, door, login>>

Valid == csrf # 0 /\ page = csrf
Allowed == admin /\ Valid

Answer(o) == outcome' = o /\ UNCHANGED <<field, session>>

\* A posted form or button that fails the first two checks of its handler.
Denied ==
  /\ ~Allowed
  /\ tab' = Closed /\ UNCHANGED row
  /\ Answer(IF admin THEN "refused" ELSE "login")

(***************************************************************************)
(* Forms.                                                                   *)
(***************************************************************************)
Generates == [user |-> UserGenerate, coupon |-> CouponGenerate, giftcard |-> GiftcardGenerate]
ParseOf(mode) ==
  IF mode = "generate" THEN Generates[Table]
  ELSE IF mode = "create" THEN Forms[Table].create ELSE Forms[Table].update
Inputs(mode) == Typed(Forms[Table].shown[Column], ParseOf(mode)[Column])

OpenForm(t) ==
  /\ Table = t /\ admin /\ tab = Closed
  /\ \/ /\ row # "absent"
        /\ tab' = [mode |-> "update", base |-> row, input |-> Shown(row)]
     \/ /\ row = "absent" /\ Column \in DOMAIN Forms[t].create
        /\ \E text \in Inputs("create") :
             tab' = [mode |-> "create", base |-> row, input |-> text]
  /\ UNCHANGED row
  /\ Answer("none")

OpenGenerateForm(t) ==
  /\ Table = t /\ admin /\ tab = Closed
  /\ row = "absent" /\ Column \in DOMAIN Generates[t]
  /\ \E text \in Inputs("generate") :
       tab' = [mode |-> "generate", base |-> row, input |-> text]
  /\ UNCHANGED row
  /\ Answer("none")

Alter ==
  /\ tab # Closed
  /\ \E text \in Inputs(tab.mode) : tab' = [tab EXCEPT !.input = text]
  /\ UNCHANGED row
  /\ Answer("none")

Dismiss == tab # Closed /\ tab' = Closed /\ UNCHANGED row /\ Answer("none")

\* The browser's own check of the form.
Sendable == ~(tab.input = "blank" /\ Column \in Forms[Table].required)

\* The handler's try block: a refusal is shown and get_db commits, which has
\* nothing to write; any other exception rolls back.
Written(v) ==
  CASE v = "refused" -> UNCHANGED row /\ Answer("refused")
    [] v = "unreadable" \/ (v = "null" /\ Column \in Forms[Table].notNull)
         -> UNCHANGED row /\ Answer("error")
    [] OTHER -> row' = v /\ Answer("saved")

\* What a service stores for a column: the parsed value v, old in the row.
\* (PlainWithoutNone, a mutant: exclude_none in place of exclude_unset.)
PlainWithoutNone(c, v, old) == IF v = "null" /\ old # "absent" THEN old ELSE v
Plain(c, v, old) == v
StoreUser(c, v, old) ==
  IF v = "null" /\ c \in {"email", "password"} THEN old ELSE v
\* A new or generated user: no password means the address, no expiry is 0.
StoreNewUser(c, v, old) ==
  IF v = "null" THEN CASE c = "password" -> "some"
                            [] c = "expired_at" -> "zero" [] OTHER -> v ELSE v
StoreCoupon(c, v, old) ==
  CASE c = "value" /\ v = "zero" -> "refused"
    [] c = "code" /\ v = "null" /\ old = "absent" -> "some"        \* generated
    [] OTHER -> v
StoreGiftcard(c, v, old) == IF c = "code" /\ v = "null" /\ old = "absent" THEN "some" ELSE v
StorePayment(c, v, old) == IF c \in {"config", "payment"} /\ v # "some" THEN "refused" ELSE v
StoreGroup(c, v, old) ==
  CASE v = "zero" -> "refused" [] v = "null" -> old [] OTHER -> v
StoreRoute(c, v, old) ==
  IF old = "absent" /\ ((c = "match" /\ v = "null") \/ (c = "remarks" /\ v = "zero"))
  THEN "refused" ELSE v
StoreNode(c, v, old) ==
  IF old = "absent" /\ c \in {"name", "host", "port"} /\ v = "zero" THEN "refused" ELSE v

\* The service that stores a column of table t.
Store(t, c, v, old) ==
  CASE t = "user" -> IF old = "absent" THEN StoreNewUser(c, v, old) ELSE StoreUser(c, v, old)
    [] t = "coupon" -> StoreCoupon(c, v, old)
    [] t = "giftcard" -> StoreGiftcard(c, v, old)
    [] t = "payment" -> StorePayment(c, v, old)
    [] t = "group" -> StoreGroup(c, v, old)
    [] t = "route" -> StoreRoute(c, v, old)
    [] t = "node" -> StoreNode(c, v, old)
    [] OTHER -> Plain(c, v, old)

CreateRow(t) ==
  /\ Table = t /\ tab.mode = "create" /\ Allowed /\ Sendable
  /\ row = "absent"
  /\ Written(Store(t, Column, Parsed(Forms[t].create[Column], tab.input, row), row))
  /\ tab' = Closed

UpdateRow(t) ==
  /\ Table = t /\ tab.mode = "update" /\ Allowed /\ Sendable
  /\ LET v == Parsed(Forms[t].update[Column], tab.input, tab.base)
     IN IF v = "refused" \/ row = "absent"
        THEN UNCHANGED row /\ Answer("refused")
        ELSE Written(Store(t, Column, v, row))
  /\ tab' = Closed

\* Many rows at once, of which row is one.  The number of rows may be out of
\* range, and a batch of users may meet an address that is taken after it has
\* inserted some: the refusal is shown and what was inserted is committed.
GenerateRows(t) ==
  /\ Table = t /\ tab.mode = "generate" /\ Allowed /\ Sendable
  /\ row = "absent"
  /\ LET v == Store(t, Column, Parsed(Generates[t][Column], tab.input, row), row)
     IN \/ Written(v)
        \/ UNCHANGED row /\ Answer("refused")
        \/ t = "user" /\ v # "refused" /\ row' = v /\ Answer("refused")
  /\ tab' = Closed

\* A button of the table: the row is written, or found missing or in use.
Button(t, v, refusable) ==
  /\ Table = t /\ tab = Closed /\ Allowed
  /\ \/ row # "absent" /\ row' = v /\ Answer("saved")
     \/ (row = "absent" \/ refusable) /\ UNCHANGED row /\ Answer("refused")
  /\ UNCHANGED tab

(***************************************************************************)
(* The pages.                                                               *)
(***************************************************************************)
Ban ==
  \E banned \in {"zero", "some"} :
    Button("user", IF Column = "banned" THEN banned ELSE row, FALSE)

UsersPage ==
  \/ OpenForm("user") \/ OpenGenerateForm("user")
  \/ CreateRow("user") \/ GenerateRows("user")
  \/ UpdateRow("user") \/ Ban \/ Button("user", "absent", FALSE)

PlansPage ==
  \/ OpenForm("plan") \/ CreateRow("plan") \/ UpdateRow("plan")
  \/ Button("plan", "absent", TRUE)

NoticesPage ==
  \/ OpenForm("notice") \/ CreateRow("notice") \/ UpdateRow("notice")
  \/ Button("notice", "absent", FALSE)

KnowledgePage ==
  \/ OpenForm("knowledge") \/ CreateRow("knowledge") \/ UpdateRow("knowledge")
  \/ Button("knowledge", "absent", FALSE)

Toggle ==
  Button("coupon", IF Column = "show" THEN IF row = "some" THEN "zero" ELSE "some" ELSE row, FALSE)

CouponsPage ==
  \/ OpenForm("coupon") \/ OpenGenerateForm("coupon")
  \/ CreateRow("coupon") \/ GenerateRows("coupon")
  \/ UpdateRow("coupon") \/ Toggle \/ Button("coupon", "absent", FALSE)

GiftcardsPage ==
  \/ OpenForm("giftcard") \/ OpenGenerateForm("giftcard")
  \/ CreateRow("giftcard") \/ GenerateRows("giftcard")
  \/ UpdateRow("giftcard") \/ Button("giftcard", "absent", FALSE)

PaymentsPage ==
  \/ OpenForm("payment") \/ CreateRow("payment")
  \/ UpdateRow("payment") \/ Button("payment", "absent", TRUE)

InvitePage ==
  \/ OpenForm("invite") \/ CreateRow("invite") \/ UpdateRow("invite")
  \/ Button("invite", "absent", FALSE)

GroupsPage ==
  \/ OpenForm("group") \/ CreateRow("group") \/ UpdateRow("group")
  \/ Button("group", "absent", TRUE)

RoutesPage ==
  \/ OpenForm("route") \/ CreateRow("route") \/ UpdateRow("route")
  \/ Button("route", "absent", TRUE)

NodesPage ==
  \/ OpenForm("node") \/ CreateRow("node") \/ UpdateRow("node")
  \/ Button("node", "absent", FALSE)

SettingsPage == OpenForm("setting") \/ UpdateRow("setting")

\* The interface and the program write the same row.
Elsewhere ==
  /\ row' \in (Storable \cup (IF Table = "setting" THEN {} ELSE {"absent"})) \ {row}
  /\ UNCHANGED <<field, tab, outcome, session>>

Session == LoginPage \/ LoginRefused \/ LoginSubmit \/ Logout \/ LoseRights \/ LoadPage

Next ==
  \/ Session \/ Alter \/ Dismiss \/ Denied \/ Elsewhere
  \/ UsersPage \/ PlansPage \/ NoticesPage \/ KnowledgePage \/ CouponsPage \/ GiftcardsPage
  \/ PaymentsPage \/ InvitePage \/ GroupsPage \/ RoutesPage \/ NodesPage \/ SettingsPage

Spec == Init /\ [][Next]_vars

-----------------------------------------------------------------------------
(***************************************************************************)
(* Properties.                                                              *)
(***************************************************************************)
\* A form is posted: it closes with an answer.
Posted == tab # Closed /\ tab' = Closed /\ outcome' # "none"
Untouched == tab.mode = "update" /\ row = tab.base /\ tab.input = Shown(tab.base)

\* The columns in which 0 is not the same as nothing.
ZeroCounts ==
  ({"plan"} \X (PlanNumbers \ {"group_id", "transfer_enable"})) \cup
  ({"coupon"} \X {"limit_use", "limit_use_with_user"}) \cup {<<"giftcard", "limit_use">>} \cup
  {<<"node", "parent_id">>}

\* What the program takes a value for: the seconds of an expiry are not kept
\* by the pages, and elsewhere nothing is the same as a false value.
Meaning(v) ==
  CASE v = "odd" -> "some"
    [] v = "null" /\ field \notin ZeroCounts -> "zero"
    [] OTHER -> v

\* A form that is saved as it was opened, over a row nobody has changed, leaves
\* the meaning of every column alone: no price of 0 becomes no price, no
\* expiry is lost.  Except for a route whose match was cleared through the
\* page: it is rendered as the word None.  And it is saved, except for the
\* levels of commission that are 0, the window of a code that opens and closes
\* within a minute, and a node that was given an empty listen_ip through the
\* interface.
MeaningKept == ~(Column = "match" /\ row = "null") => Meaning(row') = Meaning(row)
SaveAccepted ==
  /\ Allowed
  /\ ~(Column \in Levels /\ row = "zero")
  /\ ~(Column = "window" /\ row = "odd")
  /\ ~(Column = "listen_ip" /\ row = "zero")
  => outcome' = "saved"
UntouchedHarmless == [][Posted /\ Untouched => MeaningKept /\ SaveAccepted]_vars

\* What an administrator typed, and the page reports as saved, is what the form
\* shows when it is opened next; clearing an optional input clears the column.
\* Not so for the address, the password and the expiry of a user, which an
\* empty input leaves alone, for inputs with a default, and for the match of a
\* route (see UntouchedHarmless).
KeptWhenBlank ==
  tab.input = "blank" /\ Column \in {"email", "password", "expired_at"} /\ Table = "user"
MatchCleared == Column = "match" /\ tab.input \in {"blank", "none"}
DefaultWhenBlank ==
  \/ Forms[Table].shown[Column] = "json"
  \/ Table \in {"setting", "group"}
  \/ tab.mode # "update" /\ ParseOf(tab.mode)[Column] \in {"orZero", "default", "text"}
TypedIsShown ==
  [][Posted /\ outcome' = "saved" /\ ~KeptWhenBlank /\ ~MatchCleared /\ ~(tab.input = "blank" /\ DefaultWhenBlank)
     => \/ Shown(row') = tab.input \/ Forms[Table].shown[Column] = "hidden"
        \/ tab.input = "zero" /\ Shown(row') = "blank"
           /\ Forms[Table].shown[Column] = "truthy"]_vars

\* A page changes a row only for the login it was loaded under: not after a
\* logout, and not in the name of whoever logged in since.
SavesAreCurrent ==
  [][outcome' = "saved" /\ (Posted \/ outcome # "saved") => admin /\ loadedIn = login]_vars
=============================================================================
