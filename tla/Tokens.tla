------------------------------- MODULE Tokens -------------------------------
(***************************************************************************)
(* Accounts and what opens them, as far as it lives in the runtime cache:  *)
(* e-mail codes, one-time login tokens, subscription codes, the limits per *)
(* address and the cached settings; and the invite codes, rows that are    *)
(* used the same way.  A request reads, waits for the rows it writes, and  *)
(* commits; whatever it reads for its decisions is read in its first step. *)
(* A request that is refused rolls back and leaves nothing, its increments *)
(* of the limits included: such requests are not steps here.               *)
(***************************************************************************)
EXTENDS RuntimeCache

CONSTANTS
  Users,        \* accounts that exist from the start
  Newcomers,    \* e-mail addresses without an account
  Invites,      \* invite codes
  Ttl,          \* seconds each kind of entry lives
  Limit,        \* register_limit_count
  RateLimit,    \* e-mail codes per address and minute
  Values,       \* values of the setting email_verify
  Secrets       \* bound: numbers that stand for the random tokens

ASSUME TokenAssumption ==
  /\ Users \cap Newcomers = {}
  /\ Ttl \in [{"temp", "code", "last", "rate", "limit", "otp", "setting"} -> Nat \ {0}]
  /\ Limit \in Nat /\ RateLimit \in Nat
  /\ Secrets = 1..MaxRequests
  /\ None \notin Nat

VARIABLES
  accounts,     \* addresses with an account
  banned,
  version,      \* users.token, as the number of resets
  spent,        \* invite codes with status 1
  setting,      \* the row of the setting
  \* history
  uses,         \* who used which one-time thing, and when
  window,       \* registrations since the limit last started to count
  changed       \* the commit that last changed the row of the setting

rows == <<accounts, banned, version, spent, setting>>
tokenVars == <<rows, uses, window, changed>>

People == Users \cup Newcomers
TokenOf(u) == <<u, version[u]>>

TempKey(n) == <<"temp_token", n>>
CodeKey(e) == <<"email_code", e>>
LastKey(e) == <<"email_last", e>>
OtpKey(tok) == <<"otp", tok>>
OtpnKey(n) == <<"otpn", n>>
RateKey == <<"email_rate">>
LimitKey == <<"register_limit">>
SettingKey == <<"setting">>

TokenKeys ==
  {TempKey(n) : n \in Secrets} \cup {OtpnKey(n) : n \in Secrets}
  \cup {CodeKey(e) : e \in People} \cup {LastKey(e) : e \in People}
  \cup {OtpKey(<<u, v>>) : u \in Users, v \in 0..MaxRequests}
  \cup {RateKey, LimitKey, SettingKey}

\* Rows whose value the requests compute with.
ASSUME KeyAssumption ==
  /\ TokenKeys \subseteq Keys
  /\ None \notin [value : Nat \cup (Users \X Nat), until : Nat, began : Nat, put : Nat]
  /\ None \notin [start : Nat, made : Nat]

TokenInit ==
  /\ accounts = Users
  /\ banned = {}
  /\ version = [u \in Users |-> 0]
  /\ spent = {}
  /\ setting = None
  /\ uses = {} /\ window = None /\ changed = 0

Secret == requests + 1

At(s, op, step) == tx[s].op = op /\ tx[s].step = step

\* The history of a one-time thing that the committing request has used.
Used(s, whats) ==
  uses' = uses \cup {[what |-> w, began |-> tx[s].began, ended |-> commits + 1] : w \in whats}

\* get_current_user: the token names the account, the row decides.
Authenticated(u) == u \in accounts /\ u \notin banned

-----------------------------------------------------------------------------
(***************************************************************************)
(* Settings: a miss reads the row and fills the cache.                     *)
(***************************************************************************)
SettingValue(s) == IF Get(s, SettingKey) # None THEN Get(s, SettingKey) ELSE setting

ReadSetting(s) ==
  /\ Get(s, SettingKey) = None /\ setting # None
  /\ Begin(s, "ReadSetting", "fill", setting, Nothing)
  /\ UNCHANGED tokenVars

\* Mutant: a changed row leaves the cache alone.
CachedNot(own, value) == own

\* _cache_set
Cached(own, value) == Put(own, SettingKey, value, Ttl.setting)

\* The cache is filled, in whatever request needed the value.
FillSetting(s) ==
  /\ At(s, "ReadSetting", "fill") /\ Unlocked(s, SettingKey)
  /\ Continue(s, "end", None, Put(tx[s].own, SettingKey, tx[s].mem, Ttl.setting))
  /\ UNCHANGED tokenVars

\* set, update_setting, create_setting: an unchanged value writes no row, but
\* the cache.
SaveSetting(s, v) ==
  /\ Begin(s, "SaveSetting", "write", [old |-> setting, new |-> v], Nothing)
  /\ UNCHANGED tokenVars

DropSetting(s) ==
  /\ setting # None
  /\ Begin(s, "SaveSetting", "write", [old |-> setting, new |-> None], Nothing)
  /\ UNCHANGED tokenVars

\* The row is written and locked; a row that was inserted or deleted meanwhile
\* ends the request with an error.
WriteSetting(s) ==
  LET old == tx[s].mem.old
      new == tx[s].mem.new IN
  /\ At(s, "SaveSetting", "write")
  /\ \A q \in Sessions : ~At(q, "SaveSetting", "cache")
  /\ (old = None) = (setting = None)
  /\ IF new = old
     THEN Unlocked(s, SettingKey) /\ Continue(s, "end", tx[s].mem, Cached(tx[s].own, new))
     ELSE Continue(s, "cache", tx[s].mem, tx[s].own)
  /\ UNCHANGED tokenVars

CommitSetting(s) ==
  LET new == tx[s].mem.new IN
  /\ At(s, "SaveSetting", "cache")
  /\ IF new = None THEN MayDrop(s, SettingKey) ELSE Unlocked(s, SettingKey)
  /\ CommitRows(s, IF new = None THEN Drop(tx[s].own, SettingKey) ELSE Cached(tx[s].own, new))
  /\ setting' = new
  /\ changed' = commits + 1
  /\ UNCHANGED <<accounts, banned, version, spent, uses, window>>

-----------------------------------------------------------------------------
(***************************************************************************)
(* E-mail codes, registration and the forgotten password.                  *)
(***************************************************************************)
\* create_email_verify_code
SendCode(s, e) ==
  LET rate == Increased(cache[RateKey], now, Ttl.rate) IN
  /\ Unlocked(s, RateKey)
  /\ rate.value <= RateLimit
  /\ Get(s, LastKey(e)) = None
  /\ Begin(s, "SendCode", "set", [email |-> e, code |-> Secret], With(Nothing, RateKey, rate))
  /\ UNCHANGED tokenVars

SetCode(s) ==
  LET e == tx[s].mem.email IN
  /\ At(s, "SendCode", "set")
  /\ Unlocked(s, CodeKey(e)) /\ Unlocked(s, LastKey(e))
  /\ Continue(s, "end", tx[s].mem,
       Put(Put(tx[s].own, CodeKey(e), tx[s].mem.code, Ttl.code), LastKey(e), now, Ttl.last))
  /\ UNCHANGED tokenVars

\* Mutant: the count of the address is not compared.
CountedUnchecked(row) == Increased(row, now, Ttl.limit).value > 0

\* _check_register_limit
Counted(row) == Increased(row, now, Ttl.limit).value <= Limit

\* register, up to the last of its reads; email_verify asks for a code.
Register(s, e, code, invite) ==
  /\ Unlocked(s, LimitKey) /\ Counted(cache[LimitKey])
  /\ code = IF SettingValue(s) = 1 THEN Get(s, CodeKey(e)) ELSE None
  /\ SettingValue(s) = 1 => code # None
  /\ e \notin accounts
  /\ invite \in Invites => invite \notin spent
  /\ Begin(s, "Register", "insert",
           [email |-> e, code |-> code, invite |-> invite, at |-> now],
           With(Nothing, LimitKey, Increased(cache[LimitKey], now, Ttl.limit)))
  /\ UNCHANGED tokenVars

\* _resolve_invite_user_id with invite_never_expire off
Spent(invite) == {invite} \cap Invites

\* The unique key on users.email ends the second of two registrations.
CommitRegister(s) ==
  LET e == tx[s].mem.email
      invite == tx[s].mem.invite
      at == tx[s].mem.at IN
  /\ At(s, "Register", "insert")
  /\ e \notin accounts
  /\ MayDrop(s, CodeKey(e))
  /\ CommitRows(s, With(tx[s].own, CodeKey(e), None))
  /\ accounts' = accounts \cup {e}
  /\ spent' = spent \cup Spent(invite)
  /\ Used(s, {<<"code", n>> : n \in {tx[s].mem.code} \cap Secrets}
             \cup {<<"invite", i>> : i \in {invite} \cap Invites})
  /\ window' = IF window = None \/ at >= window.start + Ttl.limit
               THEN [start |-> at, made |-> 1] ELSE [window EXCEPT !.made = @ + 1]
  /\ UNCHANGED <<banned, version, setting, changed>>

Forget(s, e, code) ==
  /\ Get(s, CodeKey(e)) = code
  /\ e \in accounts
  /\ Begin(s, "Forget", "delete", [email |-> e, code |-> code], Nothing)
  /\ UNCHANGED tokenVars

\* The password is written and the code deleted.
CommitForget(s) ==
  LET e == tx[s].mem.email IN
  /\ At(s, "Forget", "delete")
  /\ MayDrop(s, CodeKey(e))
  /\ CommitRows(s, With(tx[s].own, CodeKey(e), None))
  /\ Used(s, {<<"code", tx[s].mem.code>>})
  /\ UNCHANGED <<rows, window, changed>>

-----------------------------------------------------------------------------
(***************************************************************************)
(* One-time login.                                                         *)
(***************************************************************************)
\* get_quick_login_url
QuickLogin(s, u) ==
  /\ Authenticated(u)
  /\ Begin(s, "QuickLogin", "end", [code |-> Secret], Put(Nothing, TempKey(Secret), u, Ttl.temp))
  /\ UNCHANGED tokenVars

\* Mutant: the token stays where it is.
RedeemedKept(own, n) == own

\* token2_login
Redeemed(own, n) == Drop(own, TempKey(n))

Redeem(s, n) ==
  /\ Get(s, TempKey(n)) # None
  /\ Begin(s, "Redeem", "delete", [token |-> n, user |-> Get(s, TempKey(n))], Nothing)
  /\ UNCHANGED tokenVars

DeleteTemp(s) ==
  LET n == tx[s].mem.token IN
  /\ At(s, "Redeem", "delete") /\ MayDrop(s, TempKey(n))
  /\ Continue(s, "login", tx[s].mem, Redeemed(tx[s].own, n))
  /\ UNCHANGED tokenVars

\* build_token_for_user_id refuses a banned account, and its error takes the
\* deletion back.
CommitRedeem(s) ==
  /\ At(s, "Redeem", "login")
  /\ Authenticated(tx[s].mem.user)
  /\ Commit(s)
  /\ Used(s, {<<"temp", tx[s].mem.token>>})
  /\ UNCHANGED <<rows, window, changed>>

-----------------------------------------------------------------------------
(***************************************************************************)
(* Subscription URLs with one-time codes (show_subscribe_method 1).        *)
(***************************************************************************)
\* A URL that exists already needs no step.
SubscribeUrl(s, u) ==
  /\ Authenticated(u) /\ Get(s, OtpKey(TokenOf(u))) = None
  /\ Begin(s, "SubscribeUrl", "build", [token |-> TokenOf(u), code |-> Secret], Nothing)
  /\ UNCHANGED tokenVars

\* Mutant: the loser of the race stores its code as well.
BuiltBoth(s, tok, n) == Put(Put(tx[s].own, OtpKey(tok), n, Ttl.otp), OtpnKey(n), tok, Ttl.otp - 1)

\* build_subscribe_url: the loser of the race takes the code of the winner.
Built(s, tok, n) ==
  IF Inserts(s, OtpKey(tok))
  THEN Put(Put(tx[s].own, OtpKey(tok), n, Ttl.otp), OtpnKey(n), tok, Ttl.otp)
  ELSE tx[s].own

BuildUrl(s) ==
  /\ tx[s].step = "build" /\ Unlocked(s, OtpKey(tx[s].mem.token))
  /\ Continue(s, "end", tx[s].mem, Built(s, tx[s].mem.token, tx[s].mem.code))
  /\ UNCHANGED tokenVars

\* resolve_subscribe_user
Fetch(s, n) ==
  /\ Get(s, OtpnKey(n)) # None
  /\ Begin(s, "Fetch", "delete",
           [token |-> Get(s, OtpnKey(n)), used |-> n, code |-> Secret], Nothing)
  /\ UNCHANGED tokenVars

\* Both entries are deleted, the user is looked for by the token, and the page
\* is rendered with the next URL.
DeleteOtp(s) ==
  LET tok == tx[s].mem.token IN
  /\ At(s, "Fetch", "delete")
  /\ MayDrop(s, OtpnKey(tx[s].mem.used)) /\ MayDrop(s, OtpKey(tok))
  /\ tok[2] = version[tok[1]]
  /\ tok[1] \notin banned
  /\ Continue(s, "build", tx[s].mem, Drop(Drop(tx[s].own, OtpnKey(tx[s].mem.used)), OtpKey(tok)))
  /\ UNCHANGED tokenVars

\* reset_security: the old token is no longer anyone's.
ResetSecurity(u) ==
  /\ Authenticated(u) /\ requests < MaxRequests
  /\ version' = [version EXCEPT ![u] = @ + 1]
  /\ requests' = requests + 1 /\ commits' = commits + 1
  /\ UNCHANGED <<cache, tx, now, crashes, accounts, banned, spent, setting, uses, window, changed>>

\* admin_set_banned
SetBanned(u) ==
  /\ u \in accounts /\ requests < MaxRequests
  /\ banned' = IF u \in banned THEN banned \ {u} ELSE banned \cup {u}
  /\ requests' = requests + 1 /\ commits' = commits + 1
  /\ UNCHANGED <<cache, tx, now, crashes, accounts, version, spent, setting, uses, window, changed>>

-----------------------------------------------------------------------------
\* The requests that end without a change of other rows.
End(s) ==
  /\ tx[s].step = "end"
  /\ Commit(s)
  /\ Used(s, IF tx[s].op = "Fetch" THEN {<<"otp", tx[s].mem.used>>} ELSE {})
  /\ UNCHANGED <<rows, window, changed>>

AccountStart(s) ==
  \/ ReadSetting(s) \/ DropSetting(s) \/ \E v \in Values : SaveSetting(s, v)
  \/ \E e \in People : SendCode(s, e)
  \/ \E e \in Newcomers, code \in Secrets \cup {None}, invite \in Invites \cup {None} :
       Register(s, e, code, invite)
  \/ \E e \in People, code \in Secrets : Forget(s, e, code)

LoginStart(s) ==
  \/ \E u \in Users : QuickLogin(s, u) \/ SubscribeUrl(s, u)
  \/ \E n \in Secrets : Redeem(s, n) \/ Fetch(s, n)

TokenStep(s) ==
  \/ FillSetting(s) \/ WriteSetting(s) \/ CommitSetting(s)
  \/ SetCode(s) \/ CommitRegister(s) \/ CommitForget(s)
  \/ DeleteTemp(s) \/ CommitRedeem(s) \/ BuildUrl(s) \/ DeleteOtp(s) \/ End(s)

TokenAdmin == \E u \in Users : ResetSecurity(u) \/ SetBanned(u)

\* The limit starts to count again in the table that a crash has emptied.
TokenOther ==
  \/ /\ Tick \/ Cleanup \/ \E s \in Sessions : RollBack(s)
     /\ UNCHANGED tokenVars
  \/ Crash /\ window' = None /\ UNCHANGED <<rows, uses, changed>>

TokenNext ==
  \/ \E s \in Sessions : AccountStart(s) \/ LoginStart(s) \/ TokenStep(s)
  \/ TokenAdmin \/ TokenOther

TokenSpec == CacheInit /\ TokenInit /\ [][TokenNext]_<<cacheVars, tokenVars>>

-----------------------------------------------------------------------------
(***************************************************************************)
(* Properties.                                                             *)
(***************************************************************************)
\* A one-time thing (a login token, an e-mail code, a subscription code or an
\* invite code) serves a second request only if the two overlapped: none of the
\* four is locked between its check and its deletion (token2_login, register,
\* forget_password, resolve_subscribe_user, _resolve_invite_user_id).
SingleUse ==
  \A a, b \in uses : a # b /\ a.what = b.what => a.began < b.ended /\ b.began < a.ended

\* One address makes at most register_limit_count accounts while the limit
\* counts: of the counted requests those that failed took their count back
\* (_check_register_limit, incr).
LimitKept == window # None => window.made <= Limit

\* The code that a user's next URL shows is one that can be resolved: the two
\* entries of a code are written, replaced and dropped together, whoever else
\* builds or resolves (build_subscribe_url, resolve_subscribe_user).
OtpPaired ==
  \A tok \in {<<u, v>> : u \in Users, v \in 0..MaxRequests} :
    Live(cache[OtpKey(tok)]) =>
      /\ Live(cache[OtpnKey(cache[OtpKey(tok)].value)])
      /\ cache[OtpnKey(cache[OtpKey(tok)].value)].value = tok

\* A cached setting differs from its row only if whoever cached it had begun
\* before the row changed and came late (_get_cached, update_setting).
SettingFresh ==
  LET row == cache[SettingKey] IN
  Live(row) /\ row.value # setting => row.began < changed /\ changed < row.put
=============================================================================
