---------------------------- MODULE CacheProofs ----------------------------
(***************************************************************************)
(* Proofs about the requests on the runtime cache (Tokens, Devices).       *)
(***************************************************************************)
EXTENDS Tokens, Devices, FiniteSetTheorems, TLAPS

\* A statement writes one row of its transaction.
LEMMA WithAt ==
  ASSUME NEW own, NEW k, NEW row
  PROVE  /\ k \in DOMAIN With(own, k, row) /\ With(own, k, row)[k] = row
         /\ \A x : x # k => /\ x \in DOMAIN With(own, k, row) <=> x \in DOMAIN own
                            /\ x \in DOMAIN own => With(own, k, row)[x] = own[x]
  BY DEF With

\* The rows of a transaction that has written nothing.
LEMMA NothingAt == \A x : x \notin DOMAIN Nothing
  BY DEF Nothing

(***************************************************************************)
(* The steps of a session: it goes to c, or it commits the rows of own.    *)
(***************************************************************************)
Moves(s, c) ==
  /\ tx' = [tx EXCEPT ![s] = c]
  /\ UNCHANGED <<cache, now, crashes, commits>>

\* Begin, by what the transaction is afterwards.
LEMMA BeginAs ==
  ASSUME NEW s, NEW op, NEW step, NEW mem, NEW own, Begin(s, op, step, mem, own)
  PROVE  \E c : /\ Moves(s, c) /\ c.op = op /\ c.step = step /\ c.mem = mem /\ c.own = own /\ c.began = commits
                /\ tx[s] = Idle /\ requests < MaxRequests /\ requests' = requests + 1
<1>1. PICK c : c = [op |-> op, step |-> step, mem |-> mem, own |-> own, began |-> commits]
  OBVIOUS
<1>2. c.op = op /\ c.step = step /\ c.mem = mem /\ c.own = own /\ c.began = commits
  BY <1>1
<1>3. Moves(s, c) /\ tx[s] = Idle /\ requests < MaxRequests /\ requests' = requests + 1
  BY <1>1 DEF Begin, Moves
<1> QED BY <1>2, <1>3

\* Continue, likewise.
LEMMA ContinueAs ==
  ASSUME NEW s, NEW step, NEW mem, NEW own, Continue(s, step, mem, own)
  PROVE  \E c : /\ Moves(s, c) /\ c.op = tx[s].op /\ c.step = step /\ c.mem = mem /\ c.own = own
                /\ c.began = tx[s].began /\ requests' = requests
<1>1. PICK c : c = [op |-> tx[s].op, step |-> step, mem |-> mem, own |-> own, began |-> tx[s].began]
  OBVIOUS
<1>2. c.op = tx[s].op /\ c.step = step /\ c.mem = mem /\ c.own = own /\ c.began = tx[s].began
  BY <1>1
<1>3. Moves(s, c) /\ requests' = requests
  BY <1>1 DEF Continue, Moves
<1> QED BY <1>2, <1>3

(***************************************************************************)
(* Tokens.  What a request of each kind is after its first step, and after *)
(* a later one that does not end it.                                       *)
(***************************************************************************)
Makers == {"SendCode", "QuickLogin", "SubscribeUrl", "Fetch"}
Toks == Users \X (0..MaxRequests)

Held(k, v) == Live(cache[k]) /\ cache[k].value = v

Started(c) ==
  /\ c.began = commits
  /\ <<c.op, c.step>> \in
       {<<"ReadSetting", "fill">>, <<"SaveSetting", "write">>, <<"SendCode", "set">>, <<"Register", "insert">>,
        <<"Forget", "delete">>, <<"QuickLogin", "end">>, <<"SubscribeUrl", "build">>, <<"Redeem", "delete">>,
        <<"Fetch", "delete">>}
  /\ c.op \in Makers => c.mem.code = requests + 1
  /\ c.op \notin {"SendCode", "Register", "QuickLogin"} => c.own = Nothing
  /\ c.op = "ReadSetting" => c.mem = setting
  /\ c.op = "SaveSetting" => c.mem.old = setting
  /\ c.op = "SendCode" => c.mem.email \in People /\ \E row : c.own = With(Nothing, RateKey, row)
  /\ c.op = "Register" =>
       /\ c.mem.email \in People /\ c.mem.at = now
       /\ c.own = With(Nothing, LimitKey, Increased(cache[LimitKey], now, Ttl.limit)) /\ Counted(cache[LimitKey])
       /\ \A q \in Sessions : LimitKey \notin DOMAIN tx[q].own
       /\ c.mem.code \in Secrets => Held(CodeKey(c.mem.email), c.mem.code)
       /\ c.mem.invite \in Invites => c.mem.invite \notin spent
  /\ c.op = "Forget" => c.mem.email \in People /\ c.mem.code \in Secrets /\ Held(CodeKey(c.mem.email), c.mem.code)
  /\ c.op = "QuickLogin" => \E row : c.own = With(Nothing, TempKey(requests + 1), row)
  /\ c.op = "Redeem" => c.mem.token \in Secrets /\ Live(cache[TempKey(c.mem.token)])
  /\ c.op = "SubscribeUrl" => \E u \in Users : c.mem.token = TokenOf(u)
  /\ c.op = "Fetch" => c.mem.used \in Secrets /\ Held(OtpnKey(c.mem.used), c.mem.token)

\* An idle session sees the committed rows.
LEMMA IdleReads ==
  ASSUME NEW s, tx[s] = Idle, NEW k, NEW v, v # None, Get(s, k) = v
  PROVE  Held(k, v)
<1>1. k \notin DOMAIN tx[s].own
  BY NothingAt DEF Idle
<1> QED BY <1>1 DEF Get, Row, Held

\* The requests of TokenNext begin so.
LEMMA Starts ==
  ASSUME NEW s \in Sessions, AccountStart(s) \/ LoginStart(s)
  PROVE  \E c : Moves(s, c) /\ Started(c) /\ tx[s] = Idle /\ requests < MaxRequests /\ requests' = requests + 1
                /\ UNCHANGED tokenVars
<1>0. None \notin Secrets
  BY TokenAssumption, CacheAssumption
<1>1. CASE ReadSetting(s)
  <2>1. PICK mem : mem = setting
    OBVIOUS
  <2>2. Begin(s, "ReadSetting", "fill", mem, Nothing) /\ UNCHANGED tokenVars
    BY <1>1, <2>1 DEF ReadSetting
  <2> QED BY <2>1, <2>2, BeginAs DEF Started, Makers
<1>2. CASE DropSetting(s) \/ \E v \in Values : SaveSetting(s, v)
  <2>1. PICK v : Begin(s, "SaveSetting", "write", [old |-> setting, new |-> v], Nothing) /\ UNCHANGED tokenVars
    BY <1>2 DEF DropSetting, SaveSetting
  <2>2. PICK mem : mem = [old |-> setting, new |-> v]
    OBVIOUS
  <2>3. Begin(s, "SaveSetting", "write", mem, Nothing) /\ mem.old = setting
    BY <2>1, <2>2
  <2> QED BY <2>1, <2>3, BeginAs DEF Started, Makers
<1>3. ASSUME NEW e \in People, SendCode(s, e) PROVE \E c : Moves(s, c) /\ Started(c) /\ tx[s] = Idle /\ requests < MaxRequests /\ requests' = requests + 1 /\ UNCHANGED tokenVars
  <2>1. PICK mem : mem = [email |-> e, code |-> Secret]
    OBVIOUS
  <2>2. PICK row : row = Increased(cache[RateKey], now, Ttl.rate)
    OBVIOUS
  <2>3. PICK own : own = With(Nothing, RateKey, row)
    OBVIOUS
  <2>4. Begin(s, "SendCode", "set", mem, own) /\ UNCHANGED tokenVars
    BY <1>3, <2>1, <2>2, <2>3 DEF SendCode
  <2>5. mem.email = e /\ mem.code = requests + 1
    BY <2>1 DEF Secret
  <2> QED BY <2>3, <2>4, <2>5, BeginAs DEF Started, Makers
<1>4. ASSUME NEW e \in Newcomers, NEW code \in Secrets \cup {None}, NEW invite \in Invites \cup {None}, Register(s, e, code, invite)
      PROVE \E c : Moves(s, c) /\ Started(c) /\ tx[s] = Idle /\ requests < MaxRequests /\ requests' = requests + 1 /\ UNCHANGED tokenVars
  <2>1. PICK mem : mem = [email |-> e, code |-> code, invite |-> invite, at |-> now]
    OBVIOUS
  <2>2. PICK own : own = With(Nothing, LimitKey, Increased(cache[LimitKey], now, Ttl.limit))
    OBVIOUS
  <2>3. Begin(s, "Register", "insert", mem, own) /\ UNCHANGED tokenVars
    BY <1>4, <2>1, <2>2 DEF Register
  <2>4. mem.email = e /\ mem.code = code /\ mem.invite = invite /\ mem.at = now
    BY <2>1
  <2>5. e \in People
    BY DEF People
  <2>6. Counted(cache[LimitKey]) /\ (invite \in Invites => invite \notin spent)
    BY <1>4 DEF Register
  <2>7. tx[s] = Idle
    BY <2>3, BeginAs
  <2>8. code \in Secrets => Held(CodeKey(e), code)
    <3>1. SUFFICES ASSUME code \in Secrets PROVE Held(CodeKey(e), code)
      OBVIOUS
    <3>2. code # None
      BY <1>0, <3>1
    <3>3. code = Get(s, CodeKey(e))
      BY <1>4, <3>2 DEF Register
    <3> QED BY <2>7, <3>2, <3>3, IdleReads
  <2>9. \A q \in Sessions : LimitKey \notin DOMAIN tx[q].own
    BY <1>4, <2>7, NothingAt DEF Register, Unlocked, Idle
  <2> QED BY <2>2, <2>3, <2>4, <2>5, <2>6, <2>8, <2>9, BeginAs DEF Started, Makers
<1>5. ASSUME NEW e \in People, NEW code \in Secrets, Forget(s, e, code)
      PROVE \E c : Moves(s, c) /\ Started(c) /\ tx[s] = Idle /\ requests < MaxRequests /\ requests' = requests + 1 /\ UNCHANGED tokenVars
  <2>1. PICK mem : mem = [email |-> e, code |-> code]
    OBVIOUS
  <2>2. Begin(s, "Forget", "delete", mem, Nothing) /\ UNCHANGED tokenVars /\ Get(s, CodeKey(e)) = code
    BY <1>5, <2>1 DEF Forget
  <2>3. mem.email = e /\ mem.code = code
    BY <2>1
  <2>4. Held(CodeKey(e), code)
    BY <1>0, <2>2, BeginAs, IdleReads
  <2> QED BY <2>2, <2>3, <2>4, BeginAs DEF Started, Makers
<1>6. ASSUME NEW u \in Users, QuickLogin(s, u)
      PROVE \E c : Moves(s, c) /\ Started(c) /\ tx[s] = Idle /\ requests < MaxRequests /\ requests' = requests + 1 /\ UNCHANGED tokenVars
  <2>1. PICK mem : mem = [code |-> Secret]
    OBVIOUS
  <2>2. PICK row : row = Entry(u, now + Ttl.temp)
    OBVIOUS
  <2>3. PICK own : own = With(Nothing, TempKey(requests + 1), row)
    OBVIOUS
  <2>4. Begin(s, "QuickLogin", "end", mem, own) /\ UNCHANGED tokenVars
    BY <1>6, <2>1, <2>2, <2>3 DEF QuickLogin, Put, Secret
  <2>5. mem.code = requests + 1
    BY <2>1 DEF Secret
  <2> QED BY <2>3, <2>4, <2>5, BeginAs DEF Started, Makers
<1>7. ASSUME NEW u \in Users, SubscribeUrl(s, u)
      PROVE \E c : Moves(s, c) /\ Started(c) /\ tx[s] = Idle /\ requests < MaxRequests /\ requests' = requests + 1 /\ UNCHANGED tokenVars
  <2>1. PICK mem : mem = [token |-> TokenOf(u), code |-> Secret]
    OBVIOUS
  <2>2. Begin(s, "SubscribeUrl", "build", mem, Nothing) /\ UNCHANGED tokenVars
    BY <1>7, <2>1 DEF SubscribeUrl
  <2>3. mem.token = TokenOf(u) /\ mem.code = requests + 1
    BY <2>1 DEF Secret
  <2> QED BY <2>2, <2>3, BeginAs DEF Started, Makers
<1>8. ASSUME NEW n \in Secrets, Redeem(s, n)
      PROVE \E c : Moves(s, c) /\ Started(c) /\ tx[s] = Idle /\ requests < MaxRequests /\ requests' = requests + 1 /\ UNCHANGED tokenVars
  <2>1. PICK user : user = Get(s, TempKey(n))
    OBVIOUS
  <2>2. PICK mem : mem = [token |-> n, user |-> user]
    OBVIOUS
  <2>3. Begin(s, "Redeem", "delete", mem, Nothing) /\ UNCHANGED tokenVars /\ user # None
    BY <1>8, <2>1, <2>2 DEF Redeem
  <2>4. mem.token = n
    BY <2>2
  <2>5. Live(cache[TempKey(n)])
    BY <2>1, <2>3, BeginAs, IdleReads DEF Held
  <2> QED BY <2>3, <2>4, <2>5, BeginAs DEF Started, Makers
<1>9. ASSUME NEW n \in Secrets, Fetch(s, n)
      PROVE \E c : Moves(s, c) /\ Started(c) /\ tx[s] = Idle /\ requests < MaxRequests /\ requests' = requests + 1 /\ UNCHANGED tokenVars
  <2>1. PICK token : token = Get(s, OtpnKey(n))
    OBVIOUS
  <2>2. PICK mem : mem = [token |-> token, used |-> n, code |-> Secret]
    OBVIOUS
  <2>3. Begin(s, "Fetch", "delete", mem, Nothing) /\ UNCHANGED tokenVars /\ token # None
    BY <1>9, <2>1, <2>2 DEF Fetch
  <2>4. mem.token = token /\ mem.used = n /\ mem.code = requests + 1
    BY <2>2 DEF Secret
  <2>5. Held(OtpnKey(n), token)
    BY <2>1, <2>3, BeginAs, IdleReads
  <2> QED BY <2>3, <2>4, <2>5, BeginAs DEF Started, Makers
<1> QED BY <1>1, <1>2, <1>3, <1>4, <1>5, <1>6, <1>7, <1>8, <1>9 DEF AccountStart, LoginStart

\* The step of a session that belongs to more than one kind of request.
StepOK(c) ==
  /\ c.step = "build" => c.op \in {"SubscribeUrl", "Fetch"}
  /\ c.step = "end" => c.op \in {"ReadSetting", "SaveSetting", "SendCode", "QuickLogin", "SubscribeUrl", "Fetch"}

Wrote(b, c) ==
  /\ c.op = b.op /\ c.began = b.began
  /\ c.op # "ReadSetting" => c.mem = b.mem
  /\ <<c.op, b.step, c.step>> \in
       {<<"ReadSetting", "fill", "end">>, <<"SaveSetting", "write", "end">>, <<"SaveSetting", "write", "cache">>,
        <<"SendCode", "set", "end">>, <<"Redeem", "delete", "login">>, <<"SubscribeUrl", "build", "end">>,
        <<"Fetch", "delete", "build">>, <<"Fetch", "build", "end">>}
  /\ c.op = "ReadSetting" => \E row : c.own = With(b.own, SettingKey, row) /\ row.value = b.mem
  /\ c.op = "SaveSetting" =>
       \/ c.own = b.own
       \/ \E row : c.own = With(b.own, SettingKey, row) /\ row.value = b.mem.old
  /\ c.op = "SendCode" =>
       \E row, last : c.own = With(With(b.own, CodeKey(b.mem.email), row), LastKey(b.mem.email), last)
                      /\ row.value = b.mem.code
  /\ c.op = "Redeem" => c.own = Drop(b.own, TempKey(b.mem.token))
  /\ b.step = "delete" /\ c.op = "Fetch" =>
       c.own = Drop(Drop(b.own, OtpnKey(b.mem.used)), OtpKey(b.mem.token))
  /\ b.step = "build" =>
       LET tok == b.mem.token
           row == IF OtpKey(tok) \in DOMAIN b.own THEN b.own[OtpKey(tok)] ELSE cache[OtpKey(tok)]
           until == now + Ttl.otp
       IN IF Live(row) THEN c.own = b.own
          ELSE c.own = With(With(b.own, OtpKey(tok), Entry(b.mem.code, until)),
                            OtpnKey(b.mem.code), Entry(tok, until))

\* The steps of TokenNext inside a transaction are these.
LEMMA Continues ==
  ASSUME NEW s \in Sessions, StepOK(tx[s]),
         FillSetting(s) \/ WriteSetting(s) \/ SetCode(s) \/ DeleteTemp(s) \/ BuildUrl(s) \/ DeleteOtp(s)
  PROVE  \E c : Moves(s, c) /\ Wrote(tx[s], c) /\ requests' = requests /\ UNCHANGED tokenVars
<1>0. PICK b : b = tx[s]
  OBVIOUS
<1>1. CASE FillSetting(s)
  <2>1. PICK row : row = Entry(b.mem, now + Ttl.setting)
    OBVIOUS
  <2>2. PICK own : own = With(b.own, SettingKey, row)
    OBVIOUS
  <2>3. Continue(s, "end", None, own) /\ UNCHANGED tokenVars /\ b.op = "ReadSetting" /\ b.step = "fill"
    BY <1>0, <1>1, <2>1, <2>2 DEF FillSetting, Put, At
  <2>4. row.value = b.mem
    BY <2>1 DEF Entry
  <2> QED BY <1>0, <2>2, <2>3, <2>4, ContinueAs DEF Wrote
<1>2. CASE WriteSetting(s)
  <2>1. b.op = "SaveSetting" /\ b.step = "write" /\ UNCHANGED tokenVars
    BY <1>0, <1>2 DEF WriteSetting, At
  <2>2. CASE b.mem.new = b.mem.old
    <3>1. PICK own : own = Cached(b.own, b.mem.new)
      OBVIOUS
    <3>2. PICK mem : mem = b.mem
      OBVIOUS
    <3>3. Continue(s, "end", mem, own)
      BY <1>0, <1>2, <2>2, <3>1, <3>2 DEF WriteSetting
    <3>4. own = b.own \/ \E row : own = With(b.own, SettingKey, row) /\ row.value = b.mem.old
      <4>1. PICK row : row = Entry(b.mem.new, now + Ttl.setting)
        OBVIOUS
      <4>2. own = With(b.own, SettingKey, row) /\ row.value = b.mem.old
        BY <2>2, <3>1, <4>1 DEF Cached, Put, Entry
      <4> QED BY <4>2
    <3> QED BY <1>0, <2>1, <3>2, <3>3, <3>4, ContinueAs DEF Wrote
  <2>3. CASE b.mem.new # b.mem.old
    <3>1. PICK own : own = b.own
      OBVIOUS
    <3>2. PICK mem : mem = b.mem
      OBVIOUS
    <3>3. Continue(s, "cache", mem, own)
      BY <1>0, <1>2, <2>3, <3>1, <3>2 DEF WriteSetting
    <3> QED BY <1>0, <2>1, <3>1, <3>2, <3>3, ContinueAs DEF Wrote
  <2> QED BY <2>2, <2>3
<1>3. CASE SetCode(s)
  <2>1. PICK e : e = b.mem.email
    OBVIOUS
  <2>2. PICK row : row = Entry(b.mem.code, now + Ttl.code)
    OBVIOUS
  <2>3. PICK last : last = Entry(now, now + Ttl.last)
    OBVIOUS
  <2>4. PICK own : own = With(With(b.own, CodeKey(e), row), LastKey(e), last)
    OBVIOUS
  <2>5. PICK mem : mem = b.mem
    OBVIOUS
  <2>6. Continue(s, "end", mem, own) /\ UNCHANGED tokenVars /\ b.op = "SendCode" /\ b.step = "set"
    BY <1>0, <1>3, <2>1, <2>2, <2>3, <2>4, <2>5 DEF SetCode, Put, At
  <2>7. row.value = b.mem.code
    BY <2>2 DEF Entry
  <2> QED BY <1>0, <2>1, <2>4, <2>5, <2>6, <2>7, ContinueAs DEF Wrote
<1>4. CASE DeleteTemp(s)
  <2>1. PICK own : own = Drop(b.own, TempKey(b.mem.token))
    OBVIOUS
  <2>2. PICK mem : mem = b.mem
    OBVIOUS
  <2>3. Continue(s, "login", mem, own) /\ UNCHANGED tokenVars /\ b.op = "Redeem" /\ b.step = "delete"
    BY <1>0, <1>4, <2>1, <2>2 DEF DeleteTemp, Redeemed, At
  <2> QED BY <1>0, <2>1, <2>2, <2>3, ContinueAs DEF Wrote
<1>5. CASE BuildUrl(s)
  <2>1. b.step = "build" /\ UNCHANGED tokenVars /\ b.op \in {"SubscribeUrl", "Fetch"}
    BY <1>0, <1>5 DEF BuildUrl, StepOK
  <2>2. PICK tok : tok = b.mem.token
    OBVIOUS
  <2>3. PICK own : own = Built(s, tok, b.mem.code)
    OBVIOUS
  <2>4. PICK mem : mem = b.mem
    OBVIOUS
  <2>5. Continue(s, "end", mem, own)
    BY <1>0, <1>5, <2>2, <2>3, <2>4 DEF BuildUrl
  <2>6. LET row == IF OtpKey(tok) \in DOMAIN b.own THEN b.own[OtpKey(tok)] ELSE cache[OtpKey(tok)]
            until == now + Ttl.otp
        IN IF Live(row) THEN own = b.own
           ELSE own = With(With(b.own, OtpKey(tok), Entry(b.mem.code, until)), OtpnKey(b.mem.code), Entry(tok, until))
    BY <1>0, <2>3 DEF Built, Inserts, Row, Put
  <2> QED BY <1>0, <2>1, <2>2, <2>4, <2>5, <2>6, ContinueAs DEF Wrote
<1>6. CASE DeleteOtp(s)
  <2>1. PICK tok : tok = b.mem.token
    OBVIOUS
  <2>2. PICK own : own = Drop(Drop(b.own, OtpnKey(b.mem.used)), OtpKey(tok))
    OBVIOUS
  <2>3. PICK mem : mem = b.mem
    OBVIOUS
  <2>4. Continue(s, "build", mem, own) /\ UNCHANGED tokenVars /\ b.op = "Fetch" /\ b.step = "delete"
    BY <1>0, <1>6, <2>1, <2>2, <2>3 DEF DeleteOtp, At
  <2> QED BY <1>0, <2>1, <2>2, <2>3, <2>4, ContinueAs DEF Wrote
<1> QED BY <1>1, <1>2, <1>3, <1>4, <1>5, <1>6

\* What a commit leaves in the table.
LEMMA CommitAt ==
  ASSUME NEW s \in Sessions, NEW own, CommitRows(s, own), NEW k \in Keys
  PROVE  /\ k \notin DOMAIN own => cache'[k] = cache[k]
         /\ k \in DOMAIN own /\ own[k] = None => cache'[k] = None
         /\ k \in DOMAIN own /\ own[k] # None =>
              cache'[k] = [value |-> own[k].value, until |-> own[k].until, began |-> tx[s].began, put |-> commits + 1]
         /\ k \in DOMAIN own /\ cache'[k] # None =>
              /\ cache'[k].value = own[k].value /\ cache'[k].until = own[k].until
              /\ cache'[k].began = tx[s].began /\ cache'[k].put = commits + 1
<1>1. cache' = [x \in Keys |->
       IF x \notin DOMAIN own THEN cache[x]
       ELSE IF own[x] = None THEN None
       ELSE [value |-> own[x].value, until |-> own[x].until, began |-> tx[s].began, put |-> commits + 1]]
  BY DEF CommitRows
<1>2. PICK new : new = cache'[k]
  OBVIOUS
<1>3. /\ k \notin DOMAIN own => new = cache[k]
      /\ k \in DOMAIN own /\ own[k] = None => new = None
      /\ k \in DOMAIN own /\ own[k] # None =>
           new = [value |-> own[k].value, until |-> own[k].until, began |-> tx[s].began, put |-> commits + 1]
  BY <1>1, <1>2
<1>4. k \in DOMAIN own /\ own[k] # None =>
        new.value = own[k].value /\ new.until = own[k].until /\ new.began = tx[s].began /\ new.put = commits + 1
  BY <1>3
<1> QED BY <1>2, <1>3, <1>4

\* ... and of the session.
LEMMA CommitAs ==
  ASSUME NEW s \in Sessions, NEW own, CommitRows(s, own)
  PROVE  /\ tx' = [tx EXCEPT ![s] = Idle] /\ commits' = commits + 1 /\ UNCHANGED <<now, requests, crashes>>
         /\ DOMAIN cache' = Keys
  BY DEF CommitRows

\* The requests that end, but for those that write the setting: what they
\* have written is committed, and register and forget_password delete the code.
LEMMA Ends ==
  ASSUME NEW s \in Sessions, CommitRegister(s) \/ CommitForget(s) \/ CommitRedeem(s) \/ End(s)
  PROVE  \E own : /\ CommitRows(s, own) /\ UNCHANGED <<version, setting, changed>>
                  /\ \/ /\ own = tx[s].own /\ tx[s].step \in {"end", "login"}
                        /\ tx[s].step = "login" => tx[s].op = "Redeem"
                     \/ /\ own = With(tx[s].own, CodeKey(tx[s].mem.email), None)
                        /\ tx[s].op \in {"Register", "Forget"}
<1>1. CASE CommitRegister(s) \/ CommitForget(s)
  <2>1. PICK e : e = tx[s].mem.email
    OBVIOUS
  <2>2. PICK own : own = With(tx[s].own, CodeKey(e), None)
    OBVIOUS
  <2>3. CommitRows(s, own) /\ UNCHANGED <<version, setting, changed>> /\ tx[s].op \in {"Register", "Forget"}
    BY <1>1, <2>1, <2>2 DEF CommitRegister, CommitForget, At, rows
  <2> QED BY <2>1, <2>2, <2>3
<1>2. CASE CommitRedeem(s) \/ End(s)
  <2>1. PICK own : own = tx[s].own
    OBVIOUS
  <2>2. /\ CommitRows(s, own) /\ UNCHANGED <<version, setting, changed>> /\ tx[s].step \in {"end", "login"}
        /\ tx[s].step = "login" => tx[s].op = "Redeem"
    BY <1>2, <2>1 DEF CommitRedeem, End, Commit, At, rows
  <2> QED BY <2>1, <2>2
<1> QED BY <1>1, <1>2

\* The keys of the entries.
LEMMA KeysOK ==
  /\ \A n \in Secrets : TempKey(n) \in Keys /\ OtpnKey(n) \in Keys
  /\ \A e \in People : CodeKey(e) \in Keys
  /\ \A t \in Toks : OtpKey(t) \in Keys
  /\ LimitKey \in Keys /\ SettingKey \in Keys
<1>1. ASSUME NEW t \in Toks PROVE OtpKey(t) \in TokenKeys
  <2>1. PICK u \in Users, v \in 0..MaxRequests : t = <<u, v>>
    BY DEF Toks
  <2> QED BY <2>1 DEF TokenKeys
<1>2. /\ \A n \in Secrets : TempKey(n) \in TokenKeys /\ OtpnKey(n) \in TokenKeys
      /\ \A e \in People : CodeKey(e) \in TokenKeys
      /\ LimitKey \in TokenKeys /\ SettingKey \in TokenKeys
  BY DEF TokenKeys
<1> QED BY <1>1, <1>2, KeyAssumption

(***************************************************************************)
(* The setting: who has read another value than the row has began before   *)
(* the row changed.                                                        *)
(***************************************************************************)
SettingOK(c) ==
  /\ c.began \in 0..commits
  /\ c.op = "ReadSetting" /\ c.step = "fill" /\ c.mem # setting => c.began < changed
  /\ c.op = "SaveSetting" /\ c.step = "write" /\ c.mem.old # setting => c.began < changed
  /\ SettingKey \in DOMAIN c.own /\ c.own[SettingKey].value # setting => c.began < changed

SettingInv ==
  /\ commits \in Nat /\ changed \in 0..commits /\ DOMAIN tx = Sessions
  /\ \A s \in Sessions : StepOK(tx[s]) /\ SettingOK(tx[s])
  /\ cache[SettingKey] # None /\ cache[SettingKey].value # setting =>
       cache[SettingKey].began < changed /\ changed < cache[SettingKey].put

\* A step inside a transaction.
LEMMA SettingMoves ==
  ASSUME SettingInv, NEW s \in Sessions, NEW c, Moves(s, c), UNCHANGED <<setting, changed>>, StepOK(c), SettingOK(c)
  PROVE  SettingInv'
<1>1. ASSUME NEW q \in Sessions PROVE StepOK(tx[q])' /\ SettingOK(tx[q])'
  <2>1. PICK d : d = tx'[q]
    OBVIOUS
  <2>2. StepOK(d) /\ SettingOK(d)
    BY <2>1 DEF Moves, SettingInv
  <2> QED BY <2>1, <2>2 DEF Moves, StepOK, SettingOK
<1> QED BY <1>1 DEF Moves, SettingInv

\* A session that has left its transaction.
LEMMA IdleOK == commits \in Nat => StepOK(Idle) /\ SettingOK(Idle)
  BY NothingAt DEF Idle, StepOK, SettingOK

\* A commit that leaves the row of the setting alone.
LEMMA SettingCommits ==
  ASSUME SettingInv, NEW s \in Sessions, NEW own, CommitRows(s, own), UNCHANGED <<setting, changed>>,
         SettingKey \in DOMAIN own => SettingKey \in DOMAIN tx[s].own /\ own[SettingKey] = tx[s].own[SettingKey]
  PROVE  SettingInv'
<1>1. commits \in Nat /\ commits' = commits + 1 /\ tx' = [tx EXCEPT ![s] = Idle]
  BY CommitAs DEF SettingInv
<1>2. ASSUME NEW q \in Sessions PROVE StepOK(tx[q])' /\ SettingOK(tx[q])'
  <2>1. PICK d : d = tx'[q]
    OBVIOUS
  <2>2. StepOK(d) /\ SettingOK(d)
    BY <1>1, <2>1, IdleOK DEF SettingInv
  <2>3. 0..commits \subseteq 0..(commits + 1)
    BY <1>1
  <2> QED BY <1>1, <2>1, <2>2, <2>3 DEF StepOK, SettingOK
<1>3. changed \in 0..(commits + 1) /\ changed < commits + 1
  BY <1>1 DEF SettingInv
<1>4. cache'[SettingKey] # None /\ cache'[SettingKey].value # setting =>
        cache'[SettingKey].began < changed /\ changed < cache'[SettingKey].put
  <2>0. SettingKey \in Keys
    BY KeysOK
  <2>1. CASE SettingKey \notin DOMAIN own
    <3>1. cache'[SettingKey] = cache[SettingKey]
      BY <2>0, <2>1, CommitAt
    <3> QED BY <3>1 DEF SettingInv
  <2>2. CASE SettingKey \in DOMAIN own
    <3>1. own[SettingKey].value # setting => tx[s].began < changed
      BY <2>2 DEF SettingInv, SettingOK
    <3>2. cache'[SettingKey] # None =>
            /\ cache'[SettingKey].value = own[SettingKey].value
            /\ cache'[SettingKey].began = tx[s].began /\ cache'[SettingKey].put = commits + 1
      BY <2>0, <2>2, CommitAt
    <3> QED BY <1>3, <3>1, <3>2
  <2> QED BY <2>1, <2>2
<1> QED BY <1>1, <1>2, <1>3, <1>4 DEF SettingInv

\* _cache_set in the transaction that writes the row.
LEMMA SettingWrites ==
  ASSUME SettingInv, NEW s \in Sessions, CommitSetting(s)
  PROVE  SettingInv'
<1>1. PICK new : new = tx[s].mem.new
  OBVIOUS
<1>2. PICK own : own = IF new = None THEN Drop(tx[s].own, SettingKey) ELSE Cached(tx[s].own, new)
  OBVIOUS
<1>3. CommitRows(s, own) /\ setting' = new /\ changed' = commits + 1
  BY <1>1, <1>2 DEF CommitSetting
<1>4. commits \in Nat /\ commits' = commits + 1 /\ tx' = [tx EXCEPT ![s] = Idle] /\ changed \in 0..commits
  BY <1>3, CommitAs DEF SettingInv
<1>5. ASSUME NEW q \in Sessions PROVE StepOK(tx[q])' /\ SettingOK(tx[q])'
  <2>1. PICK d : d = tx'[q]
    OBVIOUS
  <2>2. StepOK(d) /\ SettingOK(d)
    BY <1>4, <2>1, IdleOK DEF SettingInv
  <2>3. d.began \in 0..(commits + 1) /\ d.began < commits + 1
    BY <1>4, <2>2 DEF SettingOK
  <2> QED BY <1>3, <1>4, <2>1, <2>2, <2>3 DEF StepOK, SettingOK
<1>6. cache'[SettingKey] # None => cache'[SettingKey].value = new
  <2>1. CASE new # None
    <3>1. PICK row : row = Entry(new, now + Ttl.setting)
      OBVIOUS
    <3>2. own = With(tx[s].own, SettingKey, row) /\ row.value = new
      BY <1>2, <2>1, <3>1 DEF Cached, Put, Entry
    <3>3. SettingKey \in DOMAIN own /\ own[SettingKey] = row
      BY <3>2, WithAt
    <3> QED BY <1>3, <3>2, <3>3, CommitAt, KeysOK
  <2>2. CASE new = None
    <3>1. own = Drop(tx[s].own, SettingKey)
      BY <1>2, <2>2
    <3>2. CASE SettingKey \in DOMAIN tx[s].own \/ cache[SettingKey] # None
      <4>1. SettingKey \in DOMAIN own /\ own[SettingKey] = None
        BY <3>1, <3>2, WithAt DEF Drop
      <4> QED BY <1>3, <4>1, CommitAt, KeysOK
    <3>3. CASE SettingKey \notin DOMAIN tx[s].own /\ cache[SettingKey] = None
      BY <1>3, <3>1, <3>3, CommitAt, KeysOK DEF Drop
    <3> QED BY <3>2, <3>3
  <2> QED BY <2>1, <2>2
<1> QED BY <1>3, <1>4, <1>5, <1>6 DEF SettingInv

\* The first step of a request.
LEMMA SettingStarts ==
  ASSUME SettingInv, NEW s \in Sessions, AccountStart(s) \/ LoginStart(s)
  PROVE  SettingInv'
<1>1. PICK c : Moves(s, c) /\ Started(c) /\ UNCHANGED tokenVars
  BY Starts
<1>2. SettingKey \notin DOMAIN c.own
  <2>1. CASE c.op = "SendCode"
    <3>1. PICK row : c.own = With(Nothing, RateKey, row)
      BY <1>1, <2>1 DEF Started
    <3>2. SettingKey # RateKey
      BY DEF SettingKey, RateKey
    <3> QED BY <3>1, <3>2, WithAt, NothingAt
  <2>2. CASE c.op = "Register"
    <3>1. c.own = With(Nothing, LimitKey, Increased(cache[LimitKey], now, Ttl.limit))
      BY <1>1, <2>2 DEF Started
    <3>2. SettingKey # LimitKey
      BY DEF SettingKey, LimitKey
    <3> QED BY <3>1, <3>2, WithAt, NothingAt
  <2>3. CASE c.op = "QuickLogin"
    <3>1. PICK row : c.own = With(Nothing, TempKey(requests + 1), row)
      BY <1>1, <2>3 DEF Started
    <3>2. SettingKey # TempKey(requests + 1)
      BY DEF SettingKey, TempKey
    <3> QED BY <3>1, <3>2, WithAt, NothingAt
  <2>4. CASE c.op \notin {"SendCode", "Register", "QuickLogin"}
    BY <1>1, <2>4, NothingAt DEF Started
  <2> QED BY <2>1, <2>2, <2>3, <2>4
<1>3. commits \in Nat /\ c.began = commits
  BY <1>1 DEF SettingInv, Started
<1>4. SettingOK(c)
  <2>1. c.op = "ReadSetting" => c.mem = setting
    BY <1>1 DEF Started
  <2>2. c.op = "SaveSetting" => c.mem.old = setting
    BY <1>1 DEF Started
  <2> QED BY <1>2, <1>3, <2>1, <2>2 DEF SettingOK
<1>5. StepOK(c)
  BY <1>1 DEF Started, StepOK
<1> QED BY <1>1, <1>4, <1>5, SettingMoves DEF tokenVars, rows

\* A later step.
LEMMA SettingContinues ==
  ASSUME SettingInv, NEW s \in Sessions,
         FillSetting(s) \/ WriteSetting(s) \/ SetCode(s) \/ DeleteTemp(s) \/ BuildUrl(s) \/ DeleteOtp(s)
  PROVE  SettingInv'
<1>1. PICK b : b = tx[s]
  OBVIOUS
<1>2. PICK c : Moves(s, c) /\ Wrote(b, c) /\ UNCHANGED tokenVars
  BY <1>1, Continues DEF SettingInv
<1>3. StepOK(b) /\ SettingOK(b)
  BY <1>1 DEF SettingInv
<1>4. c.began = b.began /\ c.op = b.op
  BY <1>2 DEF Wrote
<1>5. SettingKey \in DOMAIN c.own =>
        \/ SettingKey \in DOMAIN b.own /\ c.own[SettingKey] = b.own[SettingKey]
        \/ c.op = "ReadSetting" /\ b.step = "fill" /\ c.own[SettingKey].value = b.mem
        \/ c.op = "SaveSetting" /\ b.step = "write" /\ c.own[SettingKey].value = b.mem.old
  <2>1. CASE c.op = "ReadSetting"
    <3>1. PICK row : c.own = With(b.own, SettingKey, row) /\ row.value = b.mem
      BY <1>2, <2>1 DEF Wrote
    <3>2. b.step = "fill"
      BY <1>2, <2>1 DEF Wrote
    <3> QED BY <2>1, <3>1, <3>2, WithAt
  <2>2. CASE c.op = "SaveSetting"
    <3>1. c.own = b.own \/ \E row : c.own = With(b.own, SettingKey, row) /\ row.value = b.mem.old
      BY <1>2, <2>2 DEF Wrote
    <3>2. b.step = "write"
      BY <1>2, <2>2 DEF Wrote
    <3> QED BY <2>2, <3>1, <3>2, WithAt
  <2>3. CASE c.op = "SendCode"
    <3>1. PICK row, last : c.own = With(With(b.own, CodeKey(b.mem.email), row), LastKey(b.mem.email), last)
      BY <1>2, <2>3 DEF Wrote
    <3>2. SettingKey # CodeKey(b.mem.email) /\ SettingKey # LastKey(b.mem.email)
      BY DEF SettingKey, CodeKey, LastKey
    <3> QED BY <3>1, <3>2, WithAt
  <2>4. CASE c.op = "Redeem"
    <3>1. c.own = Drop(b.own, TempKey(b.mem.token))
      BY <1>2, <2>4 DEF Wrote
    <3>2. SettingKey # TempKey(b.mem.token)
      BY DEF SettingKey, TempKey
    <3> QED BY <3>1, <3>2, WithAt DEF Drop
  <2>5. CASE b.step = "delete" /\ c.op = "Fetch"
    <3>1. c.own = Drop(Drop(b.own, OtpnKey(b.mem.used)), OtpKey(b.mem.token))
      BY <1>2, <2>5 DEF Wrote
    <3>2. SettingKey # OtpnKey(b.mem.used) /\ SettingKey # OtpKey(b.mem.token)
      BY DEF SettingKey, OtpnKey, OtpKey
    <3> QED BY <3>1, <3>2, WithAt DEF Drop
  <2>6. CASE b.step = "build"
    <3>1. \/ c.own = b.own
          \/ \E row, other : c.own = With(With(b.own, OtpKey(b.mem.token), row), OtpnKey(b.mem.code), other)
      BY <1>2, <2>6 DEF Wrote
    <3>2. SettingKey # OtpnKey(b.mem.code) /\ SettingKey # OtpKey(b.mem.token)
      BY DEF SettingKey, OtpnKey, OtpKey
    <3> QED BY <3>1, <3>2, WithAt
  <2> QED BY <1>2, <2>1, <2>2, <2>3, <2>4, <2>5, <2>6 DEF Wrote
<1>6. c.step # "fill" /\ c.step # "write" /\ StepOK(c)
  BY <1>2 DEF Wrote, StepOK
<1>7. SettingOK(c)
  BY <1>3, <1>4, <1>5, <1>6 DEF SettingOK
<1> QED BY <1>1, <1>2, <1>6, <1>7, SettingMoves DEF tokenVars, rows

\* Every step keeps that.
LEMMA SettingInvHolds == TokenSpec => []SettingInv
<1>1. CacheInit /\ TokenInit => SettingInv
  <2> SUFFICES ASSUME CacheInit, TokenInit PROVE SettingInv
    OBVIOUS
  <2>1. cache[SettingKey] = None
    BY KeysOK DEF CacheInit
  <2>2. commits \in Nat /\ changed \in 0..commits
    BY DEF CacheInit, TokenInit
  <2> QED BY <2>1, <2>2, IdleOK DEF CacheInit, SettingInv
<1>2. SettingInv /\ [TokenNext]_<<cacheVars, tokenVars>> => SettingInv'
  <2> SUFFICES ASSUME SettingInv, [TokenNext]_<<cacheVars, tokenVars>> PROVE SettingInv'
    OBVIOUS
  <2>1. CASE UNCHANGED <<cacheVars, tokenVars>>
    BY <2>1 DEF cacheVars, tokenVars, rows, SettingInv, StepOK, SettingOK
  <2>2. ASSUME NEW s \in Sessions, AccountStart(s) \/ LoginStart(s) PROVE SettingInv'
    BY <2>2, SettingStarts
  <2>3. ASSUME NEW s \in Sessions, TokenStep(s) PROVE SettingInv'
    <3>1. CASE CommitRegister(s) \/ CommitForget(s) \/ CommitRedeem(s) \/ End(s)
      <4>1. PICK own : /\ CommitRows(s, own) /\ UNCHANGED <<version, setting, changed>>
                       /\ \/ own = tx[s].own
                          \/ own = With(tx[s].own, CodeKey(tx[s].mem.email), None)
        BY <3>1, Ends
      <4>2. SettingKey # CodeKey(tx[s].mem.email)
        BY DEF SettingKey, CodeKey
      <4>3. SettingKey \in DOMAIN own => SettingKey \in DOMAIN tx[s].own /\ own[SettingKey] = tx[s].own[SettingKey]
        BY <4>1, <4>2, WithAt
      <4> QED BY <4>1, <4>3, SettingCommits
    <3> QED BY <2>3, <3>1, SettingContinues, SettingWrites DEF TokenStep
  <2>4. CASE TokenAdmin
    <3>1. UNCHANGED <<cache, tx, setting, changed>> /\ commits' = commits + 1
      BY <2>4 DEF TokenAdmin, ResetSecurity, SetBanned
    <3>2. commits \in Nat /\ 0..commits \subseteq 0..(commits + 1)
      BY DEF SettingInv
    <3> QED BY <3>1, <3>2 DEF SettingInv, StepOK, SettingOK
  <2>5. ASSUME NEW s \in Sessions, RollBack(s), UNCHANGED tokenVars PROVE SettingInv'
    <3>1. Moves(s, Idle)
      BY <2>5 DEF RollBack, Moves
    <3>2. UNCHANGED <<setting, changed>>
      BY <2>5 DEF tokenVars, rows
    <3> QED BY <3>1, <3>2, IdleOK, SettingMoves DEF SettingInv
  <2>6. CASE (Tick \/ Cleanup) /\ UNCHANGED tokenVars
    <3>1. UNCHANGED <<tx, commits, setting, changed>> /\ (cache'[SettingKey] = cache[SettingKey] \/ cache'[SettingKey] = None)
      BY <2>6, KeysOK DEF Tick, Cleanup, tokenVars, rows
    <3> QED BY <3>1 DEF SettingInv, StepOK, SettingOK
  <2>7. CASE Crash /\ window' = None /\ UNCHANGED <<rows, uses, changed>>
    <3>1. UNCHANGED <<commits, setting, changed>> /\ cache'[SettingKey] = None /\ tx' = [s \in Sessions |-> Idle]
      BY <2>7, KeysOK DEF Crash, rows
    <3>2. ASSUME NEW q \in Sessions PROVE StepOK(tx[q])' /\ SettingOK(tx[q])'
      <4>1. PICK d : d = tx'[q]
        OBVIOUS
      <4>2. StepOK(d) /\ SettingOK(d)
        BY <3>1, <4>1, IdleOK DEF SettingInv
      <4> QED BY <3>1, <4>1, <4>2 DEF StepOK, SettingOK
    <3> QED BY <3>1, <3>2 DEF SettingInv
  <2> QED BY <2>1, <2>2, <2>3, <2>4, <2>5, <2>6, <2>7 DEF TokenNext, TokenOther
<1> QED BY <1>1, <1>2, PTL DEF TokenSpec

\* _get_cached, update_setting: a value that is not the row's was read before
\* the row changed, and came to the cache after it.
THEOREM SettingStaysFresh == TokenSpec => []SettingFresh
<1>1. SettingInv => SettingFresh
  BY DEF SettingInv, SettingFresh, Live
<1> QED BY <1>1, SettingInvHolds, PTL

(***************************************************************************)
(* The random numbers: each is made by one request, and until that ends    *)
(* nobody else has it; afterwards it is old and is not written again.      *)
(***************************************************************************)
Old(n) == n \in 1..requests /\ \A q \in Sessions : tx[q].op \in Makers => tx[q].mem.code # n

\* What a transaction may have written, key by key.
OwnOK(c, own) ==
  /\ \A n \in Secrets : TempKey(n) \in DOMAIN own =>
       (c.op = "QuickLogin" /\ n = c.mem.code) \/ (c.op = "Redeem" /\ n = c.mem.token /\ own[TempKey(n)] = None)
  /\ \A e \in People : CodeKey(e) \in DOMAIN own =>
       \/ own[CodeKey(e)] = None
       \/ c.op = "SendCode" /\ e = c.mem.email /\ own[CodeKey(e)].value = c.mem.code
  /\ \A t \in Toks : OtpKey(t) \in DOMAIN own =>
       /\ c.op \in {"SubscribeUrl", "Fetch"} /\ t = c.mem.token
       /\ own[OtpKey(t)] = None \/ own[OtpKey(t)].value = c.mem.code
  /\ \A n \in Secrets : OtpnKey(n) \in DOMAIN own =>
       \/ c.op \in {"SubscribeUrl", "Fetch"} /\ n = c.mem.code /\ own[OtpnKey(n)].value = c.mem.token
       \/ c.op = "Fetch" /\ n = c.mem.used /\ own[OtpnKey(n)] = None

\* The numbers that a request has found are old.
FoundOK(c) ==
  /\ c.op = "Redeem" => Old(c.mem.token)
  /\ c.op \in {"SendCode", "Register", "Forget"} => c.mem.email \in People
  /\ c.op \in {"Register", "Forget"} /\ c.mem.code \in Secrets =>
       /\ Old(c.mem.code)
       /\ \A e \in People : cache[CodeKey(e)] # None /\ cache[CodeKey(e)].value = c.mem.code => e = c.mem.email
  /\ c.op \in {"SubscribeUrl", "Fetch"} => c.mem.token \in Toks
  /\ c.op = "Fetch" => Old(c.mem.used) /\ (cache[OtpnKey(c.mem.used)] # None => cache[OtpnKey(c.mem.used)].value = c.mem.token)

RowsOK ==
  /\ \A n \in Secrets : cache[TempKey(n)] # None => Old(n)
  /\ \A n \in Secrets : cache[OtpnKey(n)] # None => Old(n) /\ cache[OtpnKey(n)].value \in Toks
  /\ \A e \in People : cache[CodeKey(e)] # None => Old(cache[CodeKey(e)].value)
  /\ \A e, f \in People : cache[CodeKey(e)] # None /\ cache[CodeKey(f)] # None
                          /\ cache[CodeKey(e)].value = cache[CodeKey(f)].value => e = f
  /\ \A t \in Toks : cache[OtpKey(t)] # None => Old(cache[OtpKey(t)].value)

SecretInv ==
  /\ requests \in 0..MaxRequests /\ version \in [Users -> 0..requests] /\ DOMAIN tx = Sessions
  /\ \A s \in Sessions : StepOK(tx[s]) /\ OwnOK(tx[s], tx[s].own) /\ FoundOK(tx[s])
  /\ \A s \in Sessions : tx[s].op \in Makers => tx[s].mem.code \in 1..requests
  /\ \A s, q \in Sessions : s # q /\ tx[s].op \in Makers /\ tx[q].op \in Makers => tx[s].mem.code # tx[q].mem.code
  /\ RowsOK

\* An old number stays old.
LEMMA OldStays ==
  ASSUME SecretInv, NEW s \in Sessions, NEW c, tx' = [tx EXCEPT ![s] = c],
         requests' \in {requests, requests + 1},
         c.op \in Makers => (c.mem.code = requests + 1) \/ (tx[s].op \in Makers /\ c.mem.code = tx[s].mem.code),
         NEW n, Old(n)
  PROVE  Old(n)'
<1>1. requests \in Nat /\ n \in Nat /\ 1 <= n /\ n <= requests
  BY DEF SecretInv, Old
<1>2. n \in 1..requests'
  BY <1>1
<1>3. ASSUME NEW q \in Sessions, tx'[q].op \in Makers PROVE tx'[q].mem.code # n
  <2>1. CASE q = s
    <3>1. tx'[q] = c
      BY <2>1 DEF SecretInv
    <3> QED BY <1>1, <1>3, <2>1, <3>1 DEF Old
  <2>2. CASE q # s
    BY <1>3, <2>2 DEF SecretInv, Old
  <2> QED BY <2>1, <2>2
<1> QED BY <1>2, <1>3 DEF Old

\* A step inside a transaction.
LEMMA SecretMoves ==
  ASSUME SecretInv, NEW s \in Sessions, NEW c, Moves(s, c), UNCHANGED version,
         requests' \in {requests, requests + 1}, requests' <= MaxRequests,
         StepOK(c), OwnOK(c, c.own), FoundOK(c),
         c.op \in Makers =>
           \/ c.mem.code = requests + 1 /\ requests' = requests + 1
           \/ tx[s].op \in Makers /\ c.mem.code = tx[s].mem.code
  PROVE  SecretInv'
<1>1. tx' = [tx EXCEPT ![s] = c] /\ cache' = cache /\ requests \in Nat /\ DOMAIN tx = Sessions
  BY DEF Moves, SecretInv
<1>2. \A n : Old(n) => Old(n)'
  BY <1>1, OldStays
<1>3. \A q \in Sessions : tx'[q] = IF q = s THEN c ELSE tx[q]
  BY <1>1
<1>4. requests' \in 0..MaxRequests /\ version' \in [Users -> 0..requests'] /\ DOMAIN tx' = Sessions
  <2>1. requests' \in 0..MaxRequests /\ 0..requests \subseteq 0..requests'
    BY <1>1, CacheAssumption
  <2> QED BY <1>1, <2>1 DEF SecretInv
<1>5. ASSUME NEW q \in Sessions PROVE StepOK(tx[q])' /\ OwnOK(tx[q], tx[q].own)' /\ FoundOK(tx[q])'
  <2>1. PICK d : d = tx'[q]
    OBVIOUS
  <2>2. StepOK(d) /\ OwnOK(d, d.own) /\ FoundOK(d)
    BY <1>3, <2>1 DEF SecretInv
  <2>3. FoundOK(d)'
    BY <1>1, <1>2, <2>2 DEF FoundOK
  <2> QED BY <2>1, <2>2, <2>3 DEF StepOK, OwnOK, FoundOK
<1>6. ASSUME NEW q \in Sessions, tx'[q].op \in Makers PROVE tx'[q].mem.code \in 1..requests'
  <2>1. CASE tx'[q].mem.code = requests + 1 /\ requests' = requests + 1
    BY <1>1, <2>1
  <2>2. CASE ~(tx'[q].mem.code = requests + 1 /\ requests' = requests + 1)
    <3>1. \E p \in Sessions : tx[p].op \in Makers /\ tx[p].mem.code = tx'[q].mem.code
      BY <1>3, <1>6, <2>2
    <3>2. tx'[q].mem.code \in 1..requests
      BY <3>1 DEF SecretInv
    <3>3. 1..requests \subseteq 1..requests'
      BY <1>1
    <3> QED BY <3>2, <3>3
  <2> QED BY <2>1, <2>2
<1>7. ASSUME NEW p \in Sessions, NEW q \in Sessions, p # q, tx'[p].op \in Makers, tx'[q].op \in Makers
      PROVE  tx'[p].mem.code # tx'[q].mem.code
  <2>1. \A r \in Sessions : tx[r].op \in Makers => tx[r].mem.code \in Nat /\ tx[r].mem.code <= requests
    BY <1>1 DEF SecretInv
  <2>2. \A r, x \in Sessions : r # x /\ tx[r].op \in Makers /\ tx[x].op \in Makers => tx[r].mem.code # tx[x].mem.code
    BY DEF SecretInv
  <2> QED BY <1>1, <1>3, <1>7, <2>1, <2>2
<1>8. RowsOK'
  BY <1>1, <1>2 DEF SecretInv, RowsOK
<1> QED BY <1>4, <1>5, <1>6, <1>7, <1>8 DEF SecretInv

\* A commit of rows that OwnOK allows.
LEMMA SecretCommits ==
  ASSUME SecretInv, NEW s \in Sessions, NEW own, CommitRows(s, own), UNCHANGED version, OwnOK(tx[s], own)
  PROVE  SecretInv'
<1>1. /\ tx' = [tx EXCEPT ![s] = Idle] /\ requests' = requests /\ requests \in Nat /\ DOMAIN tx = Sessions
      /\ Idle.op = "idle" /\ Idle.step = "idle" /\ Idle.own = Nothing
  BY CommitAs DEF SecretInv, Idle
<1>2. \A n : Old(n) => Old(n)'
  BY <1>1, OldStays DEF Makers
<1>3. \A q \in Sessions : tx'[q] = IF q = s THEN Idle ELSE tx[q]
  BY <1>1
<1>0. PICK code : code = tx[s].mem.code
  OBVIOUS
<1>4. tx[s].op \in Makers => Old(code)'
  BY <1>0, <1>1, <1>3 DEF SecretInv, Old, Makers
<1>5. \A n : Old(n) /\ tx[s].op \in Makers => tx[s].mem.code # n
  BY DEF Old
<1>6. ASSUME NEW n \in Secrets
      PROVE  /\ cache'[TempKey(n)] # None => Old(n)'
             /\ cache'[OtpnKey(n)] # None => Old(n)' /\ cache'[OtpnKey(n)].value \in Toks
             /\ cache'[OtpnKey(n)] # None => cache'[OtpnKey(n)] = cache[OtpnKey(n)]
                                             \/ (tx[s].op \in Makers /\ n = tx[s].mem.code)
  <2>1. TempKey(n) \in Keys /\ OtpnKey(n) \in Keys
    BY KeysOK
  <2>2. cache'[TempKey(n)] # None => cache'[TempKey(n)] = cache[TempKey(n)] \/ (tx[s].op \in Makers /\ n = tx[s].mem.code)
    BY <2>1, CommitAt DEF OwnOK, Makers
  <2>3. cache'[OtpnKey(n)] # None =>
          \/ cache'[OtpnKey(n)] = cache[OtpnKey(n)]
          \/ tx[s].op \in {"SubscribeUrl", "Fetch"} /\ n = tx[s].mem.code /\ cache'[OtpnKey(n)].value = tx[s].mem.token
    BY <2>1, CommitAt DEF OwnOK
  <2>4. tx[s].op \in {"SubscribeUrl", "Fetch"} => tx[s].mem.token \in Toks
    BY DEF SecretInv, FoundOK
  <2>5. cache[TempKey(n)] # None => Old(n)
    BY DEF SecretInv, RowsOK
  <2>6. cache[OtpnKey(n)] # None => Old(n) /\ cache[OtpnKey(n)].value \in Toks
    BY DEF SecretInv, RowsOK
  <2> QED BY <1>0, <1>2, <1>4, <2>2, <2>3, <2>4, <2>5, <2>6 DEF Makers
<1>7. ASSUME NEW e \in People, cache'[CodeKey(e)] # None
      PROVE  \/ cache'[CodeKey(e)] = cache[CodeKey(e)]
             \/ tx[s].op \in Makers /\ e = tx[s].mem.email /\ cache'[CodeKey(e)].value = tx[s].mem.code
  BY <1>7, KeysOK, CommitAt DEF OwnOK, Makers
<1>8. ASSUME NEW t \in Toks, cache'[OtpKey(t)] # None
      PROVE  \/ cache'[OtpKey(t)] = cache[OtpKey(t)]
             \/ tx[s].op \in Makers /\ t = tx[s].mem.token /\ cache'[OtpKey(t)].value = tx[s].mem.code
  BY <1>8, KeysOK, CommitAt DEF OwnOK, Makers
<1>9. RowsOK'
  <2>1. ASSUME NEW e \in People, cache'[CodeKey(e)] # None PROVE Old(cache[CodeKey(e)].value)'
    <3>1. PICK v : v = cache'[CodeKey(e)].value
      OBVIOUS
    <3>2. cache'[CodeKey(e)] = cache[CodeKey(e)] => Old(v)
      BY <2>1, <3>1 DEF SecretInv, RowsOK
    <3>3. Old(v)'
      BY <1>0, <1>2, <1>4, <1>7, <2>1, <3>1, <3>2
    <3> QED BY <3>1, <3>3 DEF Old
  <2>2. ASSUME NEW t \in Toks, cache'[OtpKey(t)] # None PROVE Old(cache[OtpKey(t)].value)'
    <3>1. PICK v : v = cache'[OtpKey(t)].value
      OBVIOUS
    <3>2. cache'[OtpKey(t)] = cache[OtpKey(t)] => Old(v)
      BY <2>2, <3>1 DEF SecretInv, RowsOK
    <3>3. Old(v)'
      BY <1>0, <1>2, <1>4, <1>8, <2>2, <3>1, <3>2
    <3> QED BY <3>1, <3>3 DEF Old
  <2>3. ASSUME NEW e \in People, NEW f \in People, cache'[CodeKey(e)] # None, cache'[CodeKey(f)] # None,
               cache'[CodeKey(e)].value = cache'[CodeKey(f)].value
        PROVE  e = f
    <3>1. \A g \in People : cache[CodeKey(g)] # None => Old(cache[CodeKey(g)].value)
      BY DEF SecretInv, RowsOK
    <3>2. \A g, h \in People : cache[CodeKey(g)] # None /\ cache[CodeKey(h)] # None
            /\ cache[CodeKey(g)].value = cache[CodeKey(h)].value => g = h
      BY DEF SecretInv, RowsOK
    <3> QED BY <1>5, <1>7, <2>3, <3>1, <3>2
  <2> QED BY <1>6, <2>1, <2>2, <2>3 DEF RowsOK
<1>10. ASSUME NEW q \in Sessions PROVE StepOK(tx[q])' /\ OwnOK(tx[q], tx[q].own)' /\ FoundOK(tx[q])'
  <2>1. PICK d : d = tx'[q]
    OBVIOUS
  <2>2. CASE q = s
    <3>1. d = Idle
      BY <1>3, <2>1, <2>2
    <3>2. StepOK(d) /\ OwnOK(d, d.own) /\ FoundOK(d)'
      BY <1>1, <3>1, NothingAt DEF StepOK, OwnOK, FoundOK
    <3> QED BY <2>1, <3>2 DEF StepOK, OwnOK, FoundOK
  <2>3. CASE q # s
    <3>1. d = tx[q] /\ StepOK(d) /\ OwnOK(d, d.own) /\ FoundOK(d)
      BY <1>3, <2>1, <2>3 DEF SecretInv
    <3>2. d.op = "Redeem" => Old(d.mem.token)'
      BY <1>2, <3>1 DEF FoundOK
    <3>3. d.op \in {"Register", "Forget"} /\ d.mem.code \in Secrets =>
            /\ Old(d.mem.code)'
            /\ \A e \in People : cache'[CodeKey(e)] # None /\ cache'[CodeKey(e)].value = d.mem.code => e = d.mem.email
      BY <1>2, <1>5, <1>7, <3>1 DEF FoundOK
    <3>4. d.op = "Fetch" =>
            Old(d.mem.used)' /\ (cache'[OtpnKey(d.mem.used)] # None => cache'[OtpnKey(d.mem.used)].value = d.mem.token)
      <4>1. SUFFICES ASSUME d.op = "Fetch" PROVE Old(d.mem.used)' /\ (cache'[OtpnKey(d.mem.used)] # None => cache'[OtpnKey(d.mem.used)].value = d.mem.token)
        OBVIOUS
      <4>2. Old(d.mem.used) /\ (cache[OtpnKey(d.mem.used)] # None => cache[OtpnKey(d.mem.used)].value = d.mem.token)
        BY <3>1, <4>1 DEF FoundOK
      <4>3. d.mem.used \in Secrets
        BY <4>2, TokenAssumption, CacheAssumption DEF Old, SecretInv
      <4>4. cache'[OtpnKey(d.mem.used)] # None => cache'[OtpnKey(d.mem.used)] = cache[OtpnKey(d.mem.used)]
        BY <1>5, <1>6, <4>2, <4>3
      <4> QED BY <1>2, <4>2, <4>4
    <3>5. FoundOK(d)'
      BY <3>1, <3>2, <3>3, <3>4 DEF FoundOK
    <3> QED BY <2>1, <3>1, <3>5 DEF StepOK, OwnOK, FoundOK
  <2> QED BY <2>2, <2>3
<1>11. /\ \A q \in Sessions : tx'[q].op \in Makers => tx'[q].mem.code \in 1..requests
       /\ \A p, q \in Sessions : p # q /\ tx'[p].op \in Makers /\ tx'[q].op \in Makers => tx'[p].mem.code # tx'[q].mem.code
  BY <1>1, <1>3 DEF SecretInv, Makers
<1> QED BY <1>1, <1>9, <1>10, <1>11 DEF SecretInv

\* Entries of one kind have the keys of that kind.
LEMMA KeysDiffer ==
  ASSUME NEW x, NEW y
  PROVE  /\ TempKey(x) = TempKey(y) => x = y
         /\ OtpnKey(x) = OtpnKey(y) => x = y
         /\ CodeKey(x) = CodeKey(y) => x = y
         /\ OtpKey(x) = OtpKey(y) => x = y
         /\ TempKey(x) # OtpnKey(y) /\ TempKey(x) # CodeKey(y) /\ TempKey(x) # OtpKey(y)
         /\ OtpnKey(x) # CodeKey(y) /\ OtpnKey(x) # OtpKey(y) /\ CodeKey(x) # OtpKey(y)
         /\ LastKey(x) # TempKey(y) /\ LastKey(x) # OtpnKey(y) /\ LastKey(x) # CodeKey(y) /\ LastKey(x) # OtpKey(y)
         /\ RateKey \notin {TempKey(y), OtpnKey(y), CodeKey(y), OtpKey(y), LimitKey, LastKey(x)}
         /\ LimitKey \notin {TempKey(y), OtpnKey(y), CodeKey(y), OtpKey(y), LastKey(y)}
         /\ SettingKey \notin {TempKey(y), OtpnKey(y), CodeKey(y), OtpKey(y), LimitKey, LastKey(y)}
  BY DEF TempKey, OtpnKey, CodeKey, OtpKey, LastKey, RateKey, LimitKey, SettingKey

\* Nothing written is allowed.
LEMMA NothingOK == \A c : OwnOK(c, Nothing)
  BY NothingAt DEF OwnOK

\* The first step of a request: what it finds is old, what it makes is new.
LEMMA SecretStarts ==
  ASSUME SecretInv, NEW s \in Sessions, AccountStart(s) \/ LoginStart(s)
  PROVE  SecretInv'
<1>1. PICK c : Moves(s, c) /\ Started(c) /\ requests < MaxRequests /\ requests' = requests + 1 /\ UNCHANGED tokenVars
  BY Starts
<1>2. requests \in Nat /\ requests' <= MaxRequests
  BY <1>1, CacheAssumption DEF SecretInv
<1>3. OwnOK(c, c.own)
  <2>1. CASE c.op = "SendCode"
    <3>1. PICK row : c.own = With(Nothing, RateKey, row)
      BY <1>1, <2>1 DEF Started
    <3>2. \A x : x \in DOMAIN c.own => x = RateKey
      BY <3>1, WithAt, NothingAt
    <3> QED BY <3>2, KeysDiffer DEF OwnOK
  <2>2. CASE c.op = "Register"
    <3>1. c.own = With(Nothing, LimitKey, Increased(cache[LimitKey], now, Ttl.limit))
      BY <1>1, <2>2 DEF Started
    <3>2. \A x : x \in DOMAIN c.own => x = LimitKey
      BY <3>1, WithAt, NothingAt
    <3> QED BY <3>2, KeysDiffer DEF OwnOK
  <2>3. CASE c.op = "QuickLogin"
    <3>1. PICK row : c.own = With(Nothing, TempKey(requests + 1), row)
      BY <1>1, <2>3 DEF Started
    <3>2. \A x : x \in DOMAIN c.own => x = TempKey(requests + 1)
      BY <3>1, WithAt, NothingAt
    <3>3. c.mem.code = requests + 1
      BY <1>1, <2>3 DEF Started, Makers
    <3> QED BY <2>3, <3>2, <3>3, KeysDiffer DEF OwnOK
  <2>4. CASE c.op \notin {"SendCode", "Register", "QuickLogin"}
    BY <1>1, <2>4, NothingOK DEF Started
  <2> QED BY <2>1, <2>2, <2>3, <2>4
<1>4. FoundOK(c)
  <2>1. c.op = "Redeem" => Old(c.mem.token)
    BY <1>1 DEF Started, Live, SecretInv, RowsOK
  <2>2. c.op \in {"SendCode", "Register", "Forget"} => c.mem.email \in People
    BY <1>1 DEF Started
  <2>3. ASSUME c.op \in {"Register", "Forget"}, c.mem.code \in Secrets
        PROVE  /\ Old(c.mem.code)
               /\ \A e \in People : cache[CodeKey(e)] # None /\ cache[CodeKey(e)].value = c.mem.code => e = c.mem.email
    <3>1. Held(CodeKey(c.mem.email), c.mem.code)
      BY <1>1, <2>3 DEF Started
    <3> QED BY <2>2, <2>3, <3>1 DEF SecretInv, RowsOK, Held, Live
  <2>4. c.op = "SubscribeUrl" => c.mem.token \in Toks
    <3>1. SUFFICES ASSUME NEW u \in Users, c.mem.token = TokenOf(u) PROVE c.mem.token \in Toks
      BY <1>1 DEF Started
    <3>2. version[u] \in 0..MaxRequests
      BY <1>2, CacheAssumption DEF SecretInv
    <3> QED BY <3>1, <3>2 DEF TokenOf, Toks
  <2>5. c.op = "Fetch" => /\ c.mem.token \in Toks /\ Old(c.mem.used)
                          /\ cache[OtpnKey(c.mem.used)] # None => cache[OtpnKey(c.mem.used)].value = c.mem.token
    <3>1. SUFFICES ASSUME c.op = "Fetch"
                   PROVE  /\ c.mem.token \in Toks /\ Old(c.mem.used)
                          /\ cache[OtpnKey(c.mem.used)] # None => cache[OtpnKey(c.mem.used)].value = c.mem.token
      OBVIOUS
    <3>2. c.mem.used \in Secrets /\ Held(OtpnKey(c.mem.used), c.mem.token)
      BY <1>1, <3>1 DEF Started
    <3> QED BY <3>2 DEF Held, Live, SecretInv, RowsOK
  <2> QED BY <2>1, <2>2, <2>3, <2>4, <2>5 DEF FoundOK
<1>5. StepOK(c) /\ (c.op \in Makers => c.mem.code = requests + 1)
  BY <1>1 DEF Started, StepOK
<1>6. UNCHANGED version
  BY <1>1 DEF tokenVars, rows
<1> QED BY <1>1, <1>2, <1>3, <1>4, <1>5, <1>6, SecretMoves

\* One more row that is allowed.
LEMMA WithOK ==
  ASSUME NEW c, NEW own, OwnOK(c, own), NEW k, NEW row, NEW new, new = With(own, k, row),
         \A n \in Secrets : k = TempKey(n) =>
           (c.op = "QuickLogin" /\ n = c.mem.code) \/ (c.op = "Redeem" /\ n = c.mem.token /\ row = None),
         \A e \in People : k = CodeKey(e) =>
           row = None \/ (c.op = "SendCode" /\ e = c.mem.email /\ row.value = c.mem.code),
         \A t \in Toks : k = OtpKey(t) =>
           /\ c.op \in {"SubscribeUrl", "Fetch"} /\ t = c.mem.token
           /\ row = None \/ row.value = c.mem.code,
         \A n \in Secrets : k = OtpnKey(n) =>
           \/ c.op \in {"SubscribeUrl", "Fetch"} /\ n = c.mem.code /\ row.value = c.mem.token
           \/ c.op = "Fetch" /\ n = c.mem.used /\ row = None
  PROVE  OwnOK(c, new)
<1>1. \A x : (x \in DOMAIN new <=> x = k \/ x \in DOMAIN own) /\ new[k] = row /\ (x # k /\ x \in DOMAIN own => new[x] = own[x])
  BY WithAt
<1>2. \A n \in Secrets : TempKey(n) \in DOMAIN new =>
        (c.op = "QuickLogin" /\ n = c.mem.code) \/ (c.op = "Redeem" /\ n = c.mem.token /\ new[TempKey(n)] = None)
  BY <1>1 DEF OwnOK
<1>3. \A e \in People : CodeKey(e) \in DOMAIN new =>
        \/ new[CodeKey(e)] = None
        \/ c.op = "SendCode" /\ e = c.mem.email /\ new[CodeKey(e)].value = c.mem.code
  BY <1>1 DEF OwnOK
<1>4. \A t \in Toks : OtpKey(t) \in DOMAIN new =>
       /\ c.op \in {"SubscribeUrl", "Fetch"} /\ t = c.mem.token
       /\ new[OtpKey(t)] = None \/ new[OtpKey(t)].value = c.mem.code
  BY <1>1 DEF OwnOK
<1>5. \A n \in Secrets : OtpnKey(n) \in DOMAIN new =>
       \/ c.op \in {"SubscribeUrl", "Fetch"} /\ n = c.mem.code /\ new[OtpnKey(n)].value = c.mem.token
       \/ c.op = "Fetch" /\ n = c.mem.used /\ new[OtpnKey(n)] = None
  BY <1>1 DEF OwnOK
<1> QED BY <1>2, <1>3, <1>4, <1>5 DEF OwnOK

\* A later step.
LEMMA SecretContinues ==
  ASSUME SecretInv, NEW s \in Sessions,
         FillSetting(s) \/ WriteSetting(s) \/ SetCode(s) \/ DeleteTemp(s) \/ BuildUrl(s) \/ DeleteOtp(s)
  PROVE  SecretInv'
<1>1. PICK b : b = tx[s]
  OBVIOUS
<1>2. PICK c : Moves(s, c) /\ Wrote(b, c) /\ requests' = requests /\ UNCHANGED tokenVars
  BY <1>1, Continues DEF SecretInv
<1>3. StepOK(b) /\ OwnOK(b, b.own) /\ FoundOK(b)
  BY <1>1 DEF SecretInv
<1>4. c.op = b.op /\ (c.op # "ReadSetting" => c.mem = b.mem) /\ StepOK(c)
  BY <1>2 DEF Wrote, StepOK
<1>5. FoundOK(c)
  BY <1>3, <1>4 DEF FoundOK
<1>6. OwnOK(c, c.own)
  <2>0. c.op # "ReadSetting" => OwnOK(c, b.own)
    BY <1>3, <1>4 DEF OwnOK
  <2>1. CASE c.op \in {"ReadSetting", "SaveSetting"}
    <3>1. c.own = b.own \/ \E row : c.own = With(b.own, SettingKey, row)
      BY <1>2, <2>1 DEF Wrote
    <3>2. OwnOK(c, b.own)
      BY <1>3, <1>4, <2>1 DEF OwnOK
    <3>3. ASSUME NEW row, c.own = With(b.own, SettingKey, row) PROVE OwnOK(c, c.own)
      BY <3>2, <3>3, WithOK, KeysDiffer
    <3> QED BY <3>1, <3>2, <3>3
  <2>2. CASE c.op = "SendCode"
    <3>1. PICK row, last : /\ c.own = With(With(b.own, CodeKey(b.mem.email), row), LastKey(b.mem.email), last)
                           /\ row.value = b.mem.code
      BY <1>2, <2>2 DEF Wrote
    <3>2. PICK mid : mid = With(b.own, CodeKey(b.mem.email), row)
      OBVIOUS
    <3>3. c.mem = b.mem /\ OwnOK(c, b.own)
      BY <1>4, <2>0, <2>2
    <3>4. OwnOK(c, mid)
      BY <2>2, <3>1, <3>2, <3>3, WithOK, KeysDiffer
    <3> QED BY <3>1, <3>2, <3>4, WithOK, KeysDiffer
  <2>3. CASE c.op = "Redeem"
    <3>1. c.own = b.own \/ c.own = With(b.own, TempKey(b.mem.token), None)
      BY <1>2, <2>3 DEF Wrote, Drop
    <3>2. c.mem = b.mem /\ OwnOK(c, b.own)
      BY <1>4, <2>0, <2>3
    <3>3. CASE c.own = With(b.own, TempKey(b.mem.token), None)
      BY <2>3, <3>2, <3>3, WithOK, KeysDiffer
    <3> QED BY <3>1, <3>2, <3>3
  <2>4. CASE b.step = "delete" /\ c.op = "Fetch"
    <3>1. PICK mid : mid = Drop(b.own, OtpnKey(b.mem.used))
      OBVIOUS
    <3>2. c.own = mid \/ c.own = With(mid, OtpKey(b.mem.token), None)
      BY <1>2, <2>4, <3>1 DEF Wrote, Drop
    <3>3. mid = b.own \/ mid = With(b.own, OtpnKey(b.mem.used), None)
      BY <3>1 DEF Drop
    <3>4. c.mem = b.mem /\ OwnOK(c, b.own)
      BY <1>4, <2>0, <2>4
    <3>5. OwnOK(c, mid)
      BY <2>4, <3>3, <3>4, WithOK, KeysDiffer
    <3> QED BY <2>4, <3>2, <3>4, <3>5, WithOK, KeysDiffer
  <2>5. CASE b.step = "build"
    <3>1. PICK row, other : /\ row.value = b.mem.code /\ other.value = b.mem.token
                            /\ \/ c.own = b.own
                               \/ c.own = With(With(b.own, OtpKey(b.mem.token), row), OtpnKey(b.mem.code), other)
      <4>1. PICK row : row = Entry(b.mem.code, now + Ttl.otp)
        OBVIOUS
      <4>2. PICK other : other = Entry(b.mem.token, now + Ttl.otp)
        OBVIOUS
      <4>3. row.value = b.mem.code /\ other.value = b.mem.token
        BY <4>1, <4>2 DEF Entry
      <4>4. \/ c.own = b.own
            \/ c.own = With(With(b.own, OtpKey(b.mem.token), row), OtpnKey(b.mem.code), other)
        BY <1>2, <2>5, <4>1, <4>2 DEF Wrote
      <4> QED BY <4>3, <4>4
    <3>2. PICK mid : mid = With(b.own, OtpKey(b.mem.token), row)
      OBVIOUS
    <3>3. c.op \in {"SubscribeUrl", "Fetch"} /\ c.mem = b.mem /\ OwnOK(c, b.own)
      BY <1>3, <1>4, <2>0, <2>5 DEF StepOK
    <3>4. OwnOK(c, mid)
      BY <3>1, <3>2, <3>3, WithOK, KeysDiffer
    <3>5. CASE c.own = With(mid, OtpnKey(b.mem.code), other)
      BY <3>1, <3>3, <3>4, <3>5, WithOK, KeysDiffer
    <3> QED BY <3>1, <3>2, <3>3, <3>5
  <2> QED BY <1>2, <2>1, <2>2, <2>3, <2>4, <2>5 DEF Wrote
<1>7. c.op \in Makers => tx[s].op \in Makers /\ c.mem.code = tx[s].mem.code
  BY <1>1, <1>4 DEF Makers
<1>8. requests' \in {requests, requests + 1} /\ requests' <= MaxRequests /\ UNCHANGED version
  BY <1>2 DEF SecretInv, tokenVars, rows
<1> QED BY <1>2, <1>4, <1>5, <1>6, <1>7, <1>8, SecretMoves

\* Rows that go away.
LEMMA SecretShrinks ==
  ASSUME SecretInv, UNCHANGED <<tx, requests, version>>,
         \A k \in Keys : cache'[k] = cache[k] \/ cache'[k] = None
  PROVE  SecretInv'
<1>1. \A n : Old(n)' <=> Old(n)
  BY DEF Old
<1>2. /\ \A n \in Secrets : /\ cache'[TempKey(n)] = cache[TempKey(n)] \/ cache'[TempKey(n)] = None
                            /\ cache'[OtpnKey(n)] = cache[OtpnKey(n)] \/ cache'[OtpnKey(n)] = None
      /\ \A e \in People : cache'[CodeKey(e)] = cache[CodeKey(e)] \/ cache'[CodeKey(e)] = None
      /\ \A t \in Toks : cache'[OtpKey(t)] = cache[OtpKey(t)] \/ cache'[OtpKey(t)] = None
  BY KeysOK
<1>3. RowsOK'
  BY <1>1, <1>2 DEF SecretInv, RowsOK
<1>4. ASSUME NEW s \in Sessions PROVE FoundOK(tx[s])'
  <2>1. PICK d : d = tx[s]
    OBVIOUS
  <2>2. FoundOK(d)
    BY <2>1 DEF SecretInv
  <2>3. d.op = "Fetch" => d.mem.used \in Secrets
    BY <2>2, TokenAssumption, CacheAssumption DEF FoundOK, Old, SecretInv
  <2>4. FoundOK(d)'
    BY <1>1, <1>2, <2>2, <2>3 DEF FoundOK
  <2> QED BY <2>1, <2>4 DEF FoundOK
<1> QED BY <1>3, <1>4 DEF SecretInv, StepOK, OwnOK

\* Every session has what is its own.
LEMMA SecretInvHolds == TokenSpec => []SecretInv
<1>0. StepOK(Idle) /\ OwnOK(Idle, Idle.own) /\ FoundOK(Idle) /\ Idle.op \notin Makers
  BY NothingOK DEF Idle, StepOK, FoundOK, Makers
<1>1. CacheInit /\ TokenInit => SecretInv
  <2> SUFFICES ASSUME CacheInit, TokenInit PROVE SecretInv
    OBVIOUS
  <2>1. RowsOK
    BY KeysOK DEF CacheInit, RowsOK
  <2>2. requests \in 0..MaxRequests /\ version \in [Users -> 0..requests]
    BY CacheAssumption DEF CacheInit, TokenInit
  <2> QED BY <1>0, <2>1, <2>2 DEF CacheInit, SecretInv
<1>2. SecretInv /\ [TokenNext]_<<cacheVars, tokenVars>> => SecretInv'
  <2> SUFFICES ASSUME SecretInv, [TokenNext]_<<cacheVars, tokenVars>> PROVE SecretInv'
    OBVIOUS
  <2>0. requests \in Nat
    BY DEF SecretInv
  <2>1. CASE UNCHANGED <<cacheVars, tokenVars>>
    BY <2>1, SecretShrinks DEF cacheVars, tokenVars, rows
  <2>2. ASSUME NEW s \in Sessions, AccountStart(s) \/ LoginStart(s) PROVE SecretInv'
    BY <2>2, SecretStarts
  <2>3. ASSUME NEW s \in Sessions, TokenStep(s) PROVE SecretInv'
    <3>0. OwnOK(tx[s], tx[s].own)
      BY DEF SecretInv
    <3>1. CASE CommitRegister(s) \/ CommitForget(s) \/ CommitRedeem(s) \/ End(s)
      <4>1. PICK own : /\ CommitRows(s, own) /\ UNCHANGED version
                       /\ \/ own = tx[s].own
                          \/ own = With(tx[s].own, CodeKey(tx[s].mem.email), None)
        BY <3>1, Ends
      <4>2. CASE own = With(tx[s].own, CodeKey(tx[s].mem.email), None)
        <5>1. OwnOK(tx[s], own)
          BY <3>0, <4>2, WithOK, KeysDiffer
        <5> QED BY <4>1, <5>1, SecretCommits
      <4> QED BY <3>0, <4>1, <4>2, SecretCommits
    <3>2. CASE CommitSetting(s)
      <4>1. PICK own : own = IF tx[s].mem.new = None THEN Drop(tx[s].own, SettingKey) ELSE Cached(tx[s].own, tx[s].mem.new)
        OBVIOUS
      <4>2. CommitRows(s, own) /\ UNCHANGED version
        BY <3>2, <4>1 DEF CommitSetting
      <4>3. own = tx[s].own \/ \E row : own = With(tx[s].own, SettingKey, row)
        BY <4>1 DEF Drop, Cached, Put
      <4>4. OwnOK(tx[s], own)
        BY <3>0, <4>3, WithOK, KeysDiffer
      <4> QED BY <4>2, <4>4, SecretCommits
    <3> QED BY <2>3, <3>1, <3>2, SecretContinues DEF TokenStep
  <2>4. ASSUME NEW u \in Users, ResetSecurity(u) \/ SetBanned(u) PROVE SecretInv'
    <3>1. /\ UNCHANGED <<cache, tx>> /\ requests < MaxRequests /\ requests' = requests + 1
          /\ version' = version \/ version' = [version EXCEPT ![u] = @ + 1]
      BY <2>4 DEF ResetSecurity, SetBanned
    <3>2. requests' \in 0..MaxRequests /\ 1..requests \subseteq 1..requests'
      BY <2>0, <3>1, CacheAssumption
    <3>3. version' \in [Users -> 0..requests']
      <4>1. \A w \in Users : version[w] \in 0..requests
        BY DEF SecretInv
      <4>2. \A w \in Users : version[w] \in 0..requests' /\ version[w] + 1 \in 0..requests'
        BY <2>0, <3>1, <4>1
      <4> QED BY <3>1, <4>2 DEF SecretInv
    <3>4. \A n : Old(n) => Old(n)'
      BY <3>1, <3>2 DEF Old
    <3>5. RowsOK'
      BY <3>1, <3>4 DEF SecretInv, RowsOK
    <3>6. ASSUME NEW q \in Sessions PROVE FoundOK(tx[q])'
      <4>1. PICK d : d = tx[q]
        OBVIOUS
      <4>2. FoundOK(d)
        BY <4>1 DEF SecretInv
      <4>3. FoundOK(d)'
        BY <3>1, <3>4, <4>2 DEF FoundOK
      <4> QED BY <3>1, <4>1, <4>3 DEF FoundOK
    <3>7. \A q \in Sessions : tx[q].op \in Makers => tx[q].mem.code \in 1..requests'
      BY <3>2 DEF SecretInv
    <3> QED BY <3>1, <3>2, <3>3, <3>5, <3>6, <3>7 DEF SecretInv, StepOK, OwnOK
  <2>5. ASSUME NEW s \in Sessions, RollBack(s), UNCHANGED tokenVars PROVE SecretInv'
    <3>1. Moves(s, Idle) /\ requests' = requests /\ UNCHANGED version
      BY <2>5 DEF RollBack, Moves, tokenVars, rows
    <3>2. requests' \in {requests, requests + 1} /\ requests' <= MaxRequests
      BY <3>1 DEF SecretInv
    <3> QED BY <1>0, <3>1, <3>2, SecretMoves
  <2>6. CASE (Tick \/ Cleanup) /\ UNCHANGED tokenVars
    <3>1. UNCHANGED <<tx, requests, version>> /\ \A k \in Keys : cache'[k] = cache[k] \/ cache'[k] = None
      BY <2>6 DEF Tick, Cleanup, tokenVars, rows
    <3> QED BY <3>1, SecretShrinks
  <2>7. CASE Crash /\ window' = None /\ UNCHANGED <<rows, uses, changed>>
    <3>1. UNCHANGED <<requests, version>> /\ (\A k \in Keys : cache'[k] = None) /\ tx' = [s \in Sessions |-> Idle]
      BY <2>7 DEF Crash, rows
    <3>2. RowsOK'
      BY <3>1, KeysOK DEF RowsOK
    <3>3. ASSUME NEW q \in Sessions PROVE StepOK(tx[q])' /\ OwnOK(tx[q], tx[q].own)' /\ FoundOK(tx[q])'
      <4>1. PICK d : d = tx'[q]
        OBVIOUS
      <4>2. d = Idle
        BY <3>1, <4>1
      <4>3. StepOK(d) /\ OwnOK(d, d.own) /\ FoundOK(d)'
        BY <1>0, <4>2 DEF FoundOK, Idle
      <4> QED BY <4>1, <4>3 DEF StepOK, OwnOK, FoundOK
    <3>4. \A q \in Sessions : tx'[q].op \notin Makers
      BY <1>0, <3>1
    <3> QED BY <3>1, <3>2, <3>3, <3>4 DEF SecretInv
  <2> QED BY <2>1, <2>2, <2>3, <2>4, <2>5, <2>6, <2>7 DEF TokenNext, TokenOther, TokenAdmin
<1> QED BY <1>1, <1>2, PTL DEF TokenSpec

(***************************************************************************)
(* One-time subscription codes: the entry of a token names a code, and the *)
(* entry of the code, which expires with it, the token.                    *)
(***************************************************************************)
\* What a transaction has written of the two.
PairedIn(c, own) ==
  \A t \in Toks : OtpKey(t) \in DOMAIN own /\ own[OtpKey(t)] # None =>
    /\ OtpnKey(c.mem.code) \in DOMAIN own /\ own[OtpnKey(c.mem.code)] # None
    /\ own[OtpnKey(c.mem.code)].value = t /\ own[OtpnKey(c.mem.code)].until = own[OtpKey(t)].until
    /\ own[OtpKey(t)].until \in Nat

\* A request that has dropped a code has dropped the token's entry with it,
\* if that was still of this code.
PairOK(c) ==
  /\ PairedIn(c, c.own)
  /\ c.op = "Fetch" /\ c.step = "delete" => c.own = Nothing
  /\ c.op = "Fetch" /\ c.step # "delete" /\ OtpKey(c.mem.token) \notin DOMAIN c.own =>
       cache[OtpKey(c.mem.token)] = None \/ cache[OtpKey(c.mem.token)].value # c.mem.used

PairInv ==
  /\ now \in Nat
  /\ \A s \in Sessions : PairOK(tx[s])
  /\ \A t \in Toks : cache[OtpKey(t)] # None => cache[OtpKey(t)].until \in Nat
  /\ \A t \in Toks : Live(cache[OtpKey(t)]) =>
       LET n == cache[OtpKey(t)].value
       IN /\ Live(cache[OtpnKey(n)]) /\ cache[OtpnKey(n)].value = t
          /\ cache[OtpnKey(n)].until = cache[OtpKey(t)].until

\* A step inside a transaction.
LEMMA PairMoves ==
  ASSUME SecretInv, PairInv, NEW s \in Sessions, NEW c, Moves(s, c), PairOK(c)
  PROVE  PairInv'
<1>1. ASSUME NEW q \in Sessions PROVE PairOK(tx[q])'
  <2>1. PICK d : d = tx'[q]
    OBVIOUS
  <2>2. PairOK(d)
    BY <2>1 DEF Moves, PairInv, SecretInv
  <2> QED BY <2>1, <2>2 DEF Moves, PairOK, PairedIn
<1> QED BY <1>1 DEF Moves, PairInv, Live

\* A commit.
LEMMA PairCommits ==
  ASSUME SettingInv, SecretInv, PairInv, NEW s \in Sessions, NEW own, CommitRows(s, own), OwnOK(tx[s], own), PairedIn(tx[s], own),
         tx[s].op = "Fetch" => own = tx[s].own /\ tx[s].step # "delete"
  PROVE  PairInv'
<1>1. PICK c : c = tx[s]
  OBVIOUS
<1>2. tx' = [tx EXCEPT ![s] = Idle] /\ now' = now /\ DOMAIN tx = Sessions
  BY CommitAs DEF SecretInv
<1>3. OwnOK(c, own) /\ PairedIn(c, own) /\ FoundOK(c) /\ PairOK(c)
  BY <1>1 DEF SecretInv, PairInv
<1>4. \A t \in Toks : cache[OtpKey(t)] # None => Old(cache[OtpKey(t)].value)
  BY DEF SecretInv, RowsOK
<1>5. \A n : Old(n) => n \in Secrets /\ (c.op \in Makers => c.mem.code # n)
  BY <1>1, TokenAssumption, CacheAssumption DEF Old, SecretInv
<1>6. c.op \in Makers => c.mem.code \in Secrets
  BY <1>1, TokenAssumption, CacheAssumption DEF SecretInv
<1>7. ASSUME NEW t \in Toks, OtpKey(t) \in DOMAIN own, cache'[OtpKey(t)] # None
      PROVE  /\ c.op \in {"SubscribeUrl", "Fetch"} /\ t = c.mem.token /\ own[OtpKey(t)] # None
             /\ cache'[OtpKey(t)].value = c.mem.code /\ cache'[OtpKey(t)].until = own[OtpKey(t)].until
             /\ cache'[OtpKey(t)].until \in Nat
  <2>1. OtpKey(t) \in Keys
    BY KeysOK
  <2>2. own[OtpKey(t)] # None
    BY <1>7, <2>1, CommitAt
  <2>3. cache'[OtpKey(t)].value = own[OtpKey(t)].value /\ cache'[OtpKey(t)].until = own[OtpKey(t)].until
    BY <1>7, <2>1, CommitAt
  <2>4. c.op \in {"SubscribeUrl", "Fetch"} /\ t = c.mem.token /\ own[OtpKey(t)].value = c.mem.code
    BY <1>3, <1>7, <2>2 DEF OwnOK
  <2>5. own[OtpKey(t)].until \in Nat
    BY <1>3, <1>7, <2>2 DEF PairedIn
  <2> QED BY <2>2, <2>3, <2>4, <2>5
<1>8. ASSUME NEW t \in Toks, cache'[OtpKey(t)] # None PROVE cache'[OtpKey(t)].until \in Nat
  <2>1. CASE OtpKey(t) \in DOMAIN own
    BY <1>7, <1>8, <2>1
  <2>2. CASE OtpKey(t) \notin DOMAIN own
    <3>1. cache'[OtpKey(t)] = cache[OtpKey(t)]
      BY <2>2, CommitAt, KeysOK
    <3> QED BY <1>8, <3>1 DEF PairInv
  <2> QED BY <2>1, <2>2
<1>9. ASSUME NEW t \in Toks, cache'[OtpKey(t)] # None, cache'[OtpKey(t)].until > now
      PROVE  \E n : /\ n = cache'[OtpKey(t)].value /\ cache'[OtpnKey(n)] # None /\ cache'[OtpnKey(n)].value = t
                    /\ cache'[OtpnKey(n)].until = cache'[OtpKey(t)].until
  <2>1. CASE OtpKey(t) \in DOMAIN own
    <3>1. PICK n : n = c.mem.code
      OBVIOUS
    <3>2. /\ cache'[OtpKey(t)].value = n /\ cache'[OtpKey(t)].until = own[OtpKey(t)].until /\ own[OtpKey(t)] # None
          /\ c.op \in Makers
      BY <1>7, <1>9, <2>1, <3>1 DEF Makers
    <3>3. OtpnKey(n) \in DOMAIN own /\ own[OtpnKey(n)] # None /\ own[OtpnKey(n)].value = t
          /\ own[OtpnKey(n)].until = own[OtpKey(t)].until
      BY <1>3, <2>1, <3>1, <3>2 DEF PairedIn
    <3>4. OtpnKey(n) \in Keys
      BY <1>6, <3>1, <3>2, KeysOK
    <3>5. PICK row : row = cache'[OtpnKey(n)]
      OBVIOUS
    <3>6. row = [value |-> own[OtpnKey(n)].value, until |-> own[OtpnKey(n)].until, began |-> tx[s].began, put |-> commits + 1]
      BY <3>3, <3>4, <3>5, CommitAt
    <3>7. row.value = t /\ row.until = own[OtpKey(t)].until
      BY <3>3, <3>6
    <3>8. row # None
      <4>1. own[OtpnKey(n)].value \in Nat \cup (Users \X Nat)
        <5>1. t \in Users \X Nat
          BY DEF Toks
        <5> QED BY <3>3, <5>1
      <4>2. own[OtpnKey(n)].until \in Nat
        BY <1>3, <2>1, <3>2, <3>3 DEF PairedIn
      <4>3. tx[s].began \in Nat /\ commits + 1 \in Nat
        BY DEF SettingInv, SettingOK
      <4>4. row \in [value : Nat \cup (Users \X Nat), until : Nat, began : Nat, put : Nat]
        BY <3>6, <4>1, <4>2, <4>3
      <4> QED BY <4>4, KeyAssumption
    <3> QED BY <3>2, <3>5, <3>7, <3>8
  <2>2. CASE OtpKey(t) \notin DOMAIN own
    <3>1. cache'[OtpKey(t)] = cache[OtpKey(t)]
      BY <2>2, CommitAt, KeysOK
    <3>2. PICK n : n = cache[OtpKey(t)].value
      OBVIOUS
    <3>3. /\ cache[OtpnKey(n)] # None /\ cache[OtpnKey(n)].value = t /\ cache[OtpnKey(n)].until = cache[OtpKey(t)].until
      BY <1>9, <3>1, <3>2 DEF PairInv, Live
    <3>4. Old(n) /\ n \in Secrets /\ (c.op \in Makers => c.mem.code # n)
      BY <1>4, <1>5, <1>9, <3>1, <3>2
    <3>5. OtpnKey(n) \notin DOMAIN own
      <4>1. SUFFICES ASSUME OtpnKey(n) \in DOMAIN own PROVE FALSE
        OBVIOUS
      <4>2. c.op = "Fetch" /\ n = c.mem.used
        BY <1>3, <3>4, <4>1 DEF OwnOK, Makers
      <4>3. t = c.mem.token
        BY <1>3, <3>3, <4>2 DEF FoundOK
      <4>4. OtpKey(c.mem.token) \notin DOMAIN c.own /\ c.step # "delete"
        BY <1>1, <2>2, <4>2, <4>3
      <4> QED BY <1>3, <1>9, <3>1, <3>2, <4>2, <4>3, <4>4 DEF PairOK
    <3>6. cache'[OtpnKey(n)] = cache[OtpnKey(n)]
      BY <3>4, <3>5, CommitAt, KeysOK
    <3> QED BY <3>1, <3>2, <3>3, <3>6
  <2> QED BY <2>1, <2>2
<1>10. ASSUME NEW q \in Sessions PROVE PairOK(tx[q])'
  <2>1. PICK d : d = tx'[q]
    OBVIOUS
  <2>2. CASE q = s
    <3>1. d = Idle
      BY <1>2, <2>1, <2>2
    <3>2. PairOK(d)'
      BY <3>1, NothingAt DEF PairOK, PairedIn, Idle
    <3> QED BY <2>1, <3>2 DEF PairOK, PairedIn
  <2>3. CASE q # s
    <3>1. d = tx[q] /\ PairOK(d) /\ FoundOK(d)
      BY <1>2, <2>1, <2>3 DEF PairInv, SecretInv
    <3>2. ASSUME d.op = "Fetch", d.step # "delete", OtpKey(d.mem.token) \notin DOMAIN d.own
          PROVE  cache'[OtpKey(d.mem.token)] = None \/ cache'[OtpKey(d.mem.token)].value # d.mem.used
      <4>1. d.mem.token \in Toks /\ Old(d.mem.used)
        BY <3>1, <3>2 DEF FoundOK
      <4>2. cache[OtpKey(d.mem.token)] = None \/ cache[OtpKey(d.mem.token)].value # d.mem.used
        BY <3>1, <3>2 DEF PairOK
      <4>3. CASE OtpKey(d.mem.token) \in DOMAIN own
        BY <1>5, <1>7, <4>1, <4>3 DEF Makers
      <4>4. CASE OtpKey(d.mem.token) \notin DOMAIN own
        <5>1. cache'[OtpKey(d.mem.token)] = cache[OtpKey(d.mem.token)]
          BY <4>1, <4>4, CommitAt, KeysOK
        <5> QED BY <4>2, <5>1
      <4> QED BY <4>3, <4>4
    <3>3. PairOK(d)'
      BY <3>1, <3>2 DEF PairOK, PairedIn
    <3> QED BY <2>1, <3>3 DEF PairOK, PairedIn
  <2> QED BY <2>2, <2>3
<1> QED BY <1>2, <1>8, <1>9, <1>10 DEF PairInv, Live

\* The first step of a request.
LEMMA PairStarts ==
  ASSUME SecretInv, PairInv, NEW s \in Sessions, AccountStart(s) \/ LoginStart(s)
  PROVE  PairInv'
<1>1. PICK c : Moves(s, c) /\ Started(c)
  BY Starts
<1>2. \A t \in Toks : OtpKey(t) \notin DOMAIN c.own
  <2>1. CASE c.op = "SendCode"
    <3>1. PICK row : c.own = With(Nothing, RateKey, row)
      BY <1>1, <2>1 DEF Started
    <3> QED BY <3>1, WithAt, NothingAt, KeysDiffer
  <2>2. CASE c.op = "Register"
    <3>1. PICK row : c.own = With(Nothing, LimitKey, row)
      BY <1>1, <2>2 DEF Started
    <3> QED BY <3>1, WithAt, NothingAt, KeysDiffer
  <2>3. CASE c.op = "QuickLogin"
    <3>1. PICK row : c.own = With(Nothing, TempKey(requests + 1), row)
      BY <1>1, <2>3 DEF Started
    <3> QED BY <3>1, WithAt, NothingAt, KeysDiffer
  <2>4. CASE c.op \notin {"SendCode", "Register", "QuickLogin"}
    BY <1>1, <2>4, NothingAt DEF Started
  <2> QED BY <2>1, <2>2, <2>3, <2>4
<1>3. PairedIn(c, c.own)
  BY <1>2 DEF PairedIn
<1>4. c.op = "Fetch" => c.own = Nothing /\ c.step = "delete"
  BY <1>1 DEF Started
<1>5. PairOK(c)
  BY <1>3, <1>4 DEF PairOK
<1> QED BY <1>1, <1>5, PairMoves

\* A row that belongs to another kind of entry.
LEMMA PairedWith ==
  ASSUME NEW c, NEW own, PairedIn(c, own), NEW k, NEW row,
         \A t \in Toks : k # OtpKey(t), k # OtpnKey(c.mem.code)
  PROVE  PairedIn(c, With(own, k, row))
<1>1. PICK new : new = With(own, k, row)
  OBVIOUS
<1>2. \A x : x # k => (x \in DOMAIN new <=> x \in DOMAIN own) /\ (x \in DOMAIN own => new[x] = own[x])
  BY <1>1, WithAt
<1>3. PairedIn(c, new)
  BY <1>2 DEF PairedIn
<1> QED BY <1>1, <1>3

\* A later step.
LEMMA PairContinues ==
  ASSUME SecretInv, PairInv, NEW s \in Sessions,
         FillSetting(s) \/ WriteSetting(s) \/ SetCode(s) \/ DeleteTemp(s) \/ BuildUrl(s) \/ DeleteOtp(s)
  PROVE  PairInv'
<1>1. PICK b : b = tx[s]
  OBVIOUS
<1>2. PICK c : Moves(s, c) /\ Wrote(b, c)
  BY <1>1, Continues DEF SecretInv
<1>3. StepOK(b) /\ OwnOK(b, b.own) /\ FoundOK(b) /\ PairOK(b)
  BY <1>1 DEF SecretInv, PairInv
<1>4. c.op = b.op /\ (c.op # "ReadSetting" => c.mem = b.mem)
  BY <1>2 DEF Wrote
<1>5. \A t \in Toks : OtpKey(t) \in DOMAIN b.own => c.op \in {"SubscribeUrl", "Fetch"}
  BY <1>3, <1>4 DEF OwnOK
<1>6. PairedIn(c, b.own)
  <2>1. CASE c.op = "ReadSetting"
    BY <1>5, <2>1 DEF PairedIn
  <2>2. CASE c.op # "ReadSetting"
    BY <1>3, <1>4, <2>2 DEF PairOK, PairedIn
  <2> QED BY <2>1, <2>2
<1>7. CASE c.op \notin {"SubscribeUrl", "Fetch"}
  <2>1. \A t \in Toks : OtpKey(t) \notin DOMAIN c.own
    <3>0. \A t \in Toks : OtpKey(t) \notin DOMAIN b.own
      BY <1>5, <1>7
    <3>1. CASE c.op \in {"ReadSetting", "SaveSetting"}
      <4>1. c.own = b.own \/ \E row : c.own = With(b.own, SettingKey, row)
        BY <1>2, <3>1 DEF Wrote
      <4> QED BY <3>0, <4>1, WithAt, KeysDiffer
    <3>2. CASE c.op = "SendCode"
      <4>1. PICK row, last : c.own = With(With(b.own, CodeKey(b.mem.email), row), LastKey(b.mem.email), last)
        BY <1>2, <3>2 DEF Wrote
      <4>2. PICK mid : mid = With(b.own, CodeKey(b.mem.email), row)
        OBVIOUS
      <4>3. \A t \in Toks : OtpKey(t) # CodeKey(b.mem.email) /\ OtpKey(t) # LastKey(b.mem.email)
        BY KeysDiffer
      <4>4. \A t \in Toks : OtpKey(t) \notin DOMAIN mid
        BY <3>0, <4>2, <4>3, WithAt
      <4> QED BY <4>1, <4>2, <4>3, <4>4, WithAt
    <3>3. CASE c.op = "Redeem"
      <4>1. c.own = b.own \/ c.own = With(b.own, TempKey(b.mem.token), None)
        BY <1>2, <3>3 DEF Wrote, Drop
      <4>2. \A t \in Toks : OtpKey(t) # TempKey(b.mem.token)
        BY KeysDiffer
      <4> QED BY <3>0, <4>1, <4>2, WithAt
    <3> QED BY <1>2, <1>7, <3>1, <3>2, <3>3 DEF Wrote
  <2>2. PairOK(c)
    BY <1>7, <2>1 DEF PairOK, PairedIn
  <2> QED BY <1>2, <2>2, PairMoves
<1>8. CASE c.op = "Fetch" /\ b.step = "delete"
  <2>1. PICK mid : mid = Drop(b.own, OtpnKey(b.mem.used))
    OBVIOUS
  <2>2. c.own = Drop(mid, OtpKey(b.mem.token)) /\ c.mem = b.mem /\ c.step = "build"
    BY <1>2, <1>4, <1>8, <2>1 DEF Wrote
  <2>3. b.own = Nothing /\ b.mem.token \in Toks
    BY <1>3, <1>4, <1>8 DEF PairOK, FoundOK
  <2>4. \A t \in Toks : OtpKey(t) \notin DOMAIN mid
    BY <2>1, <2>3, WithAt, NothingAt, KeysDiffer DEF Drop
  <2>5. c.own = mid \/ c.own = With(mid, OtpKey(b.mem.token), None)
    BY <2>2 DEF Drop
  <2>6. \A t \in Toks : OtpKey(t) \in DOMAIN c.own => c.own[OtpKey(t)] = None
    BY <2>4, <2>5, WithAt
  <2>7. OtpKey(b.mem.token) \notin DOMAIN c.own => cache[OtpKey(b.mem.token)] = None
    BY <2>2, WithAt DEF Drop
  <2>8. PairOK(c)
    BY <2>2, <2>6, <2>7 DEF PairOK, PairedIn
  <2> QED BY <1>2, <2>8, PairMoves
<1>9. CASE b.step = "build"
  <2>1. PICK until : until = now + Ttl.otp
    OBVIOUS
  <2>2. PICK tok : tok = b.mem.token
    OBVIOUS
  <2>3. PICK code : code = b.mem.code
    OBVIOUS
  <2>4. c.mem = b.mem /\ c.step = "end" /\ c.op \in {"SubscribeUrl", "Fetch"} /\ tok \in Toks
    BY <1>2, <1>3, <1>4, <1>9, <2>2 DEF Wrote, StepOK, FoundOK
  <2>5. CASE c.own = b.own
    <3>1. PairOK(c)
      BY <1>3, <1>4, <1>6, <1>9, <2>4, <2>5 DEF PairOK
    <3> QED BY <1>2, <3>1, PairMoves
  <2>6. CASE c.own = With(With(b.own, OtpKey(tok), Entry(code, until)), OtpnKey(code), Entry(tok, until))
    <3>1. until \in Nat
      BY <2>1, TokenAssumption DEF PairInv
    <3>2. PICK row : row = Entry(code, until)
      OBVIOUS
    <3>3. PICK other : other = Entry(tok, until)
      OBVIOUS
    <3>4. row.until = until /\ other.until = until /\ other.value = tok
      BY <3>2, <3>3 DEF Entry
    <3>5. other # None
      <4>1. tok \in Nat \cup (Users \X Nat)
        BY <2>4 DEF Toks
      <4>2. other \in [value : Nat \cup (Users \X Nat), until : Nat, began : Nat, put : Nat]
        BY <3>1, <3>3, <4>1 DEF Entry
      <4> QED BY <4>2, KeyAssumption
    <3>6. PICK mid : mid = With(b.own, OtpKey(tok), row)
      OBVIOUS
    <3>7. c.own = With(mid, OtpnKey(code), other)
      BY <2>6, <3>2, <3>3, <3>6
    <3>8. OtpKey(tok) \in DOMAIN c.own /\ c.own[OtpKey(tok)] = row /\ OtpnKey(code) \in DOMAIN c.own /\ c.own[OtpnKey(code)] = other
      BY <3>6, <3>7, WithAt, KeysDiffer
    <3>9. \A t \in Toks : OtpKey(t) \in DOMAIN c.own => t = tok
      <4>1. \A t \in Toks : OtpKey(t) \in DOMAIN b.own => t = tok
        BY <1>3, <2>2 DEF OwnOK
      <4>2. \A t \in Toks : (OtpKey(t) = OtpKey(tok) => t = tok) /\ OtpKey(t) # OtpnKey(code)
        BY KeysDiffer
      <4>3. \A t \in Toks : OtpKey(t) \in DOMAIN mid => t = tok
        BY <3>6, <4>1, <4>2, WithAt
      <4> QED BY <3>7, <4>2, <4>3, WithAt
    <3>10. c.mem.code = code /\ c.mem.token = tok
      BY <2>2, <2>3, <2>4
    <3>11. PairedIn(c, c.own)
      BY <3>1, <3>4, <3>5, <3>8, <3>9, <3>10 DEF PairedIn
    <3>12. PairOK(c)
      BY <2>4, <3>8, <3>10, <3>11 DEF PairOK
    <3> QED BY <1>2, <3>12, PairMoves
  <2> QED BY <1>2, <1>9, <2>1, <2>2, <2>3, <2>5, <2>6 DEF Wrote
<1> QED BY <1>2, <1>7, <1>8, <1>9 DEF Wrote

\* The requests that end.
LEMMA PairEnds ==
  ASSUME SettingInv, SecretInv, PairInv, NEW s \in Sessions,
         CommitSetting(s) \/ CommitRegister(s) \/ CommitForget(s) \/ CommitRedeem(s) \/ End(s)
  PROVE  PairInv'
<1>0. StepOK(tx[s]) /\ OwnOK(tx[s], tx[s].own) /\ PairedIn(tx[s], tx[s].own)
  BY DEF SecretInv, PairInv, PairOK
<1>1. CASE CommitSetting(s)
  <2>1. PICK own : own = IF tx[s].mem.new = None THEN Drop(tx[s].own, SettingKey) ELSE Cached(tx[s].own, tx[s].mem.new)
    OBVIOUS
  <2>2. CommitRows(s, own) /\ tx[s].op = "SaveSetting"
    BY <1>1, <2>1 DEF CommitSetting, At
  <2>3. own = tx[s].own \/ \E row : own = With(tx[s].own, SettingKey, row)
    BY <2>1 DEF Drop, Cached, Put
  <2>4. OwnOK(tx[s], own)
    BY <1>0, <2>3, WithOK, KeysDiffer
  <2>5. PairedIn(tx[s], own)
    BY <1>0, <2>3, PairedWith, KeysDiffer
  <2> QED BY <2>2, <2>4, <2>5, PairCommits
<1>2. CASE ~CommitSetting(s)
  <2>1. PICK own : /\ CommitRows(s, own)
                   /\ \/ own = tx[s].own /\ tx[s].step \in {"end", "login"}
                      \/ /\ own = With(tx[s].own, CodeKey(tx[s].mem.email), None)
                         /\ tx[s].op \in {"Register", "Forget"}
    BY <1>2, Ends
  <2>2. CASE own = tx[s].own /\ tx[s].step \in {"end", "login"}
    BY <1>0, <2>1, <2>2, PairCommits
  <2>3. CASE own = With(tx[s].own, CodeKey(tx[s].mem.email), None) /\ tx[s].op \in {"Register", "Forget"}
    <3>1. OwnOK(tx[s], own)
      BY <1>0, <2>3, WithOK, KeysDiffer
    <3>2. PairedIn(tx[s], own)
      BY <1>0, <2>3, PairedWith, KeysDiffer
    <3> QED BY <2>1, <2>3, <3>1, <3>2, PairCommits
  <2> QED BY <2>1, <2>2, <2>3
<1> QED BY <1>1, <1>2

\* Rows that have expired go away.
LEMMA PairExpires ==
  ASSUME SecretInv, PairInv, UNCHANGED tx, now' \in {now, now + 1},
         \A k \in Keys : cache'[k] = cache[k] \/ (cache'[k] = None /\ cache[k].until <= now)
  PROVE  PairInv'
<1>1. now \in Nat /\ now' \in Nat
  BY DEF PairInv
<1>2. ASSUME NEW q \in Sessions PROVE PairOK(tx[q])'
  <2>1. PICK d : d = tx[q]
    OBVIOUS
  <2>2. PairOK(d) /\ FoundOK(d)
    BY <2>1 DEF PairInv, SecretInv
  <2>3. d.op = "Fetch" => OtpKey(d.mem.token) \in Keys
    BY <2>2, KeysOK DEF FoundOK
  <2>4. PairOK(d)'
    BY <2>2, <2>3 DEF PairOK, PairedIn
  <2> QED BY <2>1, <2>4 DEF PairOK, PairedIn
<1>3. ASSUME NEW t \in Toks, cache'[OtpKey(t)] # None
      PROVE  cache'[OtpKey(t)] = cache[OtpKey(t)] /\ cache'[OtpKey(t)].until \in Nat
  BY <1>3, KeysOK DEF PairInv
<1>4. ASSUME NEW t \in Toks, Live(cache[OtpKey(t)])'
      PROVE  \E n : /\ n = cache'[OtpKey(t)].value /\ cache'[OtpnKey(n)] # None /\ cache'[OtpnKey(n)].value = t
                    /\ cache'[OtpnKey(n)].until = cache'[OtpKey(t)].until
  <2>1. PICK n : n = cache[OtpKey(t)].value
    OBVIOUS
  <2>2. cache'[OtpKey(t)] = cache[OtpKey(t)] /\ cache[OtpKey(t)].until \in Nat
    BY <1>3, <1>4 DEF Live
  <2>3. Live(cache[OtpKey(t)])
    BY <1>1, <1>4, <2>2 DEF Live
  <2>4. Live(cache[OtpnKey(n)]) /\ cache[OtpnKey(n)].value = t /\ cache[OtpnKey(n)].until = cache[OtpKey(t)].until
    BY <2>1, <2>3 DEF PairInv
  <2>5. n \in Secrets
    BY <2>1, <2>3, TokenAssumption, CacheAssumption DEF Live, SecretInv, RowsOK, Old
  <2>6. ~(cache[OtpnKey(n)].until <= now)
    BY <1>1, <2>2, <2>3, <2>4 DEF Live
  <2>7. cache'[OtpnKey(n)] = cache[OtpnKey(n)]
    BY <2>5, <2>6, KeysOK
  <2> QED BY <2>1, <2>2, <2>4, <2>7 DEF Live
<1> QED BY <1>1, <1>2, <1>3, <1>4 DEF PairInv, Live

\* Every step keeps the pairs.
LEMMA PairInvHolds == TokenSpec => []PairInv
<1>0. PairOK(Idle)
  BY NothingAt DEF Idle, PairOK, PairedIn
<1>1. CacheInit /\ TokenInit => PairInv
  BY <1>0, KeysOK DEF CacheInit, TokenInit, PairInv, Live
<1>2. SettingInv /\ SecretInv /\ PairInv /\ [TokenNext]_<<cacheVars, tokenVars>> => PairInv'
  <2> SUFFICES ASSUME SettingInv, SecretInv, PairInv, [TokenNext]_<<cacheVars, tokenVars>> PROVE PairInv'
    OBVIOUS
  <2>1. CASE UNCHANGED <<cacheVars, tokenVars>>
    BY <2>1, PairExpires DEF cacheVars
  <2>2. ASSUME NEW s \in Sessions, AccountStart(s) \/ LoginStart(s) PROVE PairInv'
    BY <2>2, PairStarts
  <2>3. ASSUME NEW s \in Sessions, TokenStep(s) PROVE PairInv'
    BY <2>3, PairContinues, PairEnds DEF TokenStep
  <2>4. CASE TokenAdmin
    <3>1. UNCHANGED <<cache, tx, now>>
      BY <2>4 DEF TokenAdmin, ResetSecurity, SetBanned
    <3> QED BY <3>1, PairExpires
  <2>5. ASSUME NEW s \in Sessions, RollBack(s) PROVE PairInv'
    <3>1. Moves(s, Idle)
      BY <2>5 DEF RollBack, Moves
    <3> QED BY <1>0, <3>1, PairMoves
  <2>6. CASE Tick \/ Cleanup
    <3>1. UNCHANGED tx /\ now' \in {now, now + 1}
      BY <2>6 DEF Tick, Cleanup
    <3>2. ASSUME NEW k \in Keys PROVE cache'[k] = cache[k] \/ (cache'[k] = None /\ cache[k].until <= now)
      <4>1. CASE Tick
        BY <4>1 DEF Tick
      <4>2. CASE Cleanup
        BY <4>2 DEF Cleanup
      <4> QED BY <2>6, <4>1, <4>2
    <3> QED BY <3>1, <3>2, PairExpires
  <2>7. CASE Crash
    <3>1. now' = now /\ (\A k \in Keys : cache'[k] = None) /\ tx' = [s \in Sessions |-> Idle]
      BY <2>7 DEF Crash
    <3>2. ASSUME NEW q \in Sessions PROVE PairOK(tx[q])'
      <4>1. PICK d : d = tx'[q]
        OBVIOUS
      <4>2. d = Idle
        BY <3>1, <4>1
      <4>3. PairOK(d)'
        BY <4>2, NothingAt DEF Idle, PairOK, PairedIn
      <4> QED BY <4>1, <4>3 DEF PairOK, PairedIn
    <3> QED BY <3>1, <3>2, KeysOK DEF PairInv, Live
  <2> QED BY <2>1, <2>2, <2>3, <2>4, <2>5, <2>6, <2>7 DEF TokenNext, TokenOther
<1> QED BY <1>1, <1>2, SettingInvHolds, SecretInvHolds, PTL DEF TokenSpec

\* build_subscribe_url, resolve_subscribe_user: a live entry of a token has a
\* live entry of its code, for the same token.
THEOREM OtpStaysPaired == TokenSpec => []OtpPaired
<1>1. PairInv => OtpPaired
  BY DEF PairInv, OtpPaired, Toks
<1> QED BY <1>1, PairInvHolds, PTL
(***************************************************************************)
(* The limit: the row counts the registrations of the window, and who is   *)
(* counting it holds it.                                                   *)
(***************************************************************************)
LimitOK(c) ==
  /\ LimitKey \in DOMAIN c.own => c.op = "Register"
  /\ c.op = "Register" =>
       /\ c.mem.at \in 0..now
       /\ LimitKey \in DOMAIN c.own /\ c.own[LimitKey] = Increased(cache[LimitKey], c.mem.at, Ttl.limit)
       /\ Increased(cache[LimitKey], c.mem.at, Ttl.limit).value <= Limit
       /\ window # None /\ cache[LimitKey] = None => window.start + Ttl.limit <= c.mem.at

WindowOK ==
  /\ window = None => cache[LimitKey] = None
  /\ window # None =>
       /\ window \in [start : 0..now, made : 0..Limit]
       /\ cache[LimitKey] # None => /\ cache[LimitKey].value = window.made
                                    /\ cache[LimitKey].until = window.start + Ttl.limit
       /\ cache[LimitKey] = None => window.start + Ttl.limit <= now

LimitInv ==
  /\ now \in Nat
  /\ \A s \in Sessions : LimitOK(tx[s])
  /\ \A s, q \in Sessions : s # q /\ tx[s].op = "Register" => tx[q].op # "Register"
  /\ WindowOK

\* A count that starts again, and one that goes on.
LEMMA IncreasedAt ==
  ASSUME NEW row, NEW at, NEW ex, NEW new, new = Increased(row, at, ex)
  PROVE  /\ row = None \/ row.until <= at => new = Entry(1, at + ex) /\ new.value = 1 /\ new.until = at + ex
         /\ ~(row = None \/ row.until <= at) =>
              new = Entry(row.value + 1, row.until) /\ new.value = row.value + 1 /\ new.until = row.until
  BY DEF Increased, Entry

\* A step inside a transaction.
LEMMA LimitMoves ==
  ASSUME SecretInv, LimitInv, NEW s \in Sessions, NEW c, Moves(s, c), UNCHANGED window, LimitOK(c),
         c.op = "Register" => \A q \in Sessions : tx[q].op # "Register"
  PROVE  LimitInv'
<1>0. \A q \in Sessions : tx'[q] = IF q = s THEN c ELSE tx[q]
  BY DEF Moves, SecretInv
<1>1. ASSUME NEW q \in Sessions PROVE LimitOK(tx[q])'
  <2>1. PICK d : d = tx'[q]
    OBVIOUS
  <2>2. LimitOK(d)
    BY <1>0, <2>1 DEF LimitInv
  <2>3. UNCHANGED <<cache, now, window>>
    BY DEF Moves
  <2> QED BY <2>1, <2>2, <2>3 DEF LimitOK
<1>2. WindowOK'
  BY DEF Moves, LimitInv, WindowOK
<1>3. \A p, q \in Sessions : p # q /\ tx'[p].op = "Register" => tx'[q].op # "Register"
  BY <1>0 DEF LimitInv
<1> QED BY <1>1, <1>2, <1>3 DEF Moves, LimitInv

\* A commit that does not count.
LEMMA LimitCommits ==
  ASSUME SecretInv, LimitInv, NEW s \in Sessions, NEW own, CommitRows(s, own), UNCHANGED window, LimitKey \notin DOMAIN own
  PROVE  LimitInv'
<1>0. tx' = [tx EXCEPT ![s] = Idle] /\ now' = now /\ cache'[LimitKey] = cache[LimitKey]
  BY CommitAs, CommitAt, KeysOK
<1>1. \A q \in Sessions : tx'[q] = IF q = s THEN Idle ELSE tx[q]
  BY <1>0 DEF SecretInv
<1>2. Idle.op = "idle" /\ LimitKey \notin DOMAIN Idle.own
  BY NothingAt DEF Idle
<1>3. ASSUME NEW q \in Sessions PROVE LimitOK(tx[q])'
  <2>1. PICK d : d = tx'[q]
    OBVIOUS
  <2>2. PICK row : row = cache[LimitKey]
    OBVIOUS
  <2>3. d = Idle \/ LimitOK(d)
    BY <1>1, <2>1 DEF LimitInv
  <2>4. CASE d = Idle
    BY <1>2, <2>1, <2>4 DEF LimitOK
  <2>5. CASE LimitOK(d)
    BY <1>0, <2>1, <2>5 DEF LimitOK, Increased, Entry
  <2> QED BY <2>3, <2>4, <2>5
<1>4. WindowOK'
  BY <1>0 DEF LimitInv, WindowOK
<1>5. \A p, q \in Sessions : p # q /\ tx'[p].op = "Register" => tx'[q].op # "Register"
  BY <1>1, <1>2 DEF LimitInv
<1> QED BY <1>0, <1>3, <1>4, <1>5 DEF LimitInv

\* register: the count is what the window has seen.
LEMMA LimitCounts ==
  ASSUME SettingInv, SecretInv, LimitInv, NEW s \in Sessions, CommitRegister(s)
  PROVE  LimitInv'
<1>1. PICK c : c = tx[s]
  OBVIOUS
<1>2. PICK own : own = With(c.own, CodeKey(c.mem.email), None)
  OBVIOUS
<1>3. PICK at : at = c.mem.at
  OBVIOUS
<1>4. PICK old : old = cache[LimitKey]
  OBVIOUS
<1>5. PICK new : new = Increased(old, at, Ttl.limit)
  OBVIOUS
<1>6. CommitRows(s, own) /\ c.op = "Register"
  BY <1>1, <1>2 DEF CommitRegister, At
<1>7. window' = IF window = None \/ at >= window.start + Ttl.limit
                THEN [start |-> at, made |-> 1] ELSE [window EXCEPT !.made = @ + 1]
  BY <1>1, <1>3 DEF CommitRegister
<1>8. LimitOK(c) /\ now \in Nat /\ Ttl.limit \in Nat \ {0} /\ Limit \in Nat
  BY <1>1, TokenAssumption DEF LimitInv
<1>9. /\ at \in 0..now /\ LimitKey \in DOMAIN c.own /\ c.own[LimitKey] = new /\ new.value <= Limit
      /\ window # None /\ old = None => window.start + Ttl.limit <= at
  BY <1>3, <1>4, <1>5, <1>6, <1>8 DEF LimitOK
<1>10. LimitKey \in DOMAIN own /\ own[LimitKey] = new
  BY <1>2, <1>9, WithAt, KeysDiffer
<1>11. /\ window = None => old = None
       /\ window # None => /\ window \in [start : 0..now, made : 0..Limit]
                           /\ old # None => old.value = window.made /\ old.until = window.start + Ttl.limit
  BY <1>4 DEF LimitInv, WindowOK
<1>12. /\ window' \in [start : 0..now, made : 0..Limit]
       /\ new.value = window'.made /\ new.until = window'.start + Ttl.limit
       /\ new.value \in Nat /\ new.until \in Nat
  <2>1. CASE window = None \/ at >= window.start + Ttl.limit
    <3>1. window' = [start |-> at, made |-> 1]
      BY <1>7, <2>1
    <3>2. old = None \/ old.until <= at
      <4>1. CASE window = None
        BY <1>11, <4>1
      <4>2. CASE window # None
        <5>1. window.start \in Nat
          BY <1>11, <4>2
        <5>2. window.start + Ttl.limit <= at
          BY <1>8, <1>9, <2>1, <4>2, <5>1
        <5> QED BY <1>11, <4>2, <5>2
      <4> QED BY <4>1, <4>2
    <3>3. new.value = 1 /\ new.until = at + Ttl.limit
      BY <1>5, <3>2, IncreasedAt
    <3>4. 1 \in 0..Limit
      BY <1>8, <1>9, <3>3
    <3>5. at \in Nat /\ at + Ttl.limit \in Nat
      BY <1>8, <1>9
    <3> QED BY <1>9, <3>1, <3>3, <3>4, <3>5
  <2>2. CASE ~(window = None \/ at >= window.start + Ttl.limit)
    <3>1. window' = [window EXCEPT !.made = @ + 1] /\ window # None
      BY <1>7, <2>2
    <3>2. window.start \in 0..now /\ window.made \in 0..Limit /\ window = [start |-> window.start, made |-> window.made]
      BY <1>11, <3>1
    <3>3. ~(window.start + Ttl.limit <= at)
      BY <1>8, <1>9, <2>2, <3>2
    <3>4. old # None /\ old.value = window.made /\ old.until = window.start + Ttl.limit
      BY <1>9, <1>11, <3>1, <3>3
    <3>5. new.value = window.made + 1 /\ new.until = window.start + Ttl.limit
      BY <1>5, <3>3, <3>4, IncreasedAt
    <3>6. window' = [start |-> window.start, made |-> window.made + 1]
      BY <3>1, <3>2
    <3>7. window.made + 1 \in 0..Limit
      BY <1>8, <1>9, <3>2, <3>5
    <3>8. window.start + Ttl.limit \in Nat /\ window.made + 1 \in Nat
      BY <1>8, <3>2
    <3> QED BY <3>2, <3>5, <3>6, <3>7, <3>8
  <2> QED BY <2>1, <2>2
<1>13. window' # None
  <2>1. window' \in [start : Nat, made : Nat]
    BY <1>8, <1>12
  <2> QED BY <2>1, KeyAssumption
<1>14. new # None
  <2>1. new = Entry(new.value, new.until)
    BY <1>5, IncreasedAt
  <2>2. new \in [value : Nat \cup (Users \X Nat), until : Nat, began : Nat, put : Nat]
    BY <1>12, <2>1 DEF Entry
  <2> QED BY <2>2, KeyAssumption
<1>15. PICK row : row = cache'[LimitKey]
  OBVIOUS
<1>16. row = [value |-> new.value, until |-> new.until, began |-> tx[s].began, put |-> commits + 1]
  BY <1>6, <1>10, <1>14, <1>15, CommitAt, KeysOK
<1>17. row # None /\ row.value = new.value /\ row.until = new.until
  <2>1. tx[s].began \in Nat /\ commits + 1 \in Nat
    BY DEF SettingInv, SettingOK
  <2>2. row \in [value : Nat \cup (Users \X Nat), until : Nat, began : Nat, put : Nat]
    BY <1>12, <1>16, <2>1
  <2> QED BY <1>16, <2>2, KeyAssumption
<1>18. tx' = [tx EXCEPT ![s] = Idle] /\ now' = now
  BY <1>6, CommitAs
<1>19. \A q \in Sessions : tx'[q] = IF q = s THEN Idle ELSE tx[q]
  BY <1>18 DEF SecretInv
<1>20. Idle.op = "idle" /\ LimitKey \notin DOMAIN Idle.own
  BY NothingAt DEF Idle
<1>21. \A q \in Sessions : tx'[q].op # "Register"
  BY <1>1, <1>6, <1>19, <1>20 DEF LimitInv
<1>22. ASSUME NEW q \in Sessions PROVE LimitOK(tx[q])'
  <2>1. LimitKey \notin DOMAIN tx'[q].own
    <3>1. q # s => LimitOK(tx[q]) /\ tx[q].op # "Register"
      BY <1>1, <1>6 DEF LimitInv
    <3> QED BY <1>19, <1>20, <3>1 DEF LimitOK
  <2> QED BY <1>21, <2>1 DEF LimitOK
<1>23. WindowOK'
  BY <1>12, <1>13, <1>15, <1>17, <1>18 DEF WindowOK
<1> QED BY <1>18, <1>21, <1>22, <1>23, <1>8 DEF LimitInv

\* The first step of a request.
LEMMA LimitStarts ==
  ASSUME SecretInv, LimitInv, NEW s \in Sessions, AccountStart(s) \/ LoginStart(s)
  PROVE  LimitInv'
<1>1. PICK c : Moves(s, c) /\ Started(c) /\ UNCHANGED tokenVars
  BY Starts
<1>2. CASE c.op = "Register"
  <2>1. /\ c.mem.at = now /\ c.own = With(Nothing, LimitKey, Increased(cache[LimitKey], now, Ttl.limit))
        /\ Counted(cache[LimitKey]) /\ \A q \in Sessions : LimitKey \notin DOMAIN tx[q].own
    BY <1>1, <1>2 DEF Started
  <2>2. LimitKey \in DOMAIN c.own /\ c.own[LimitKey] = Increased(cache[LimitKey], now, Ttl.limit)
    BY <2>1, WithAt
  <2>3. Increased(cache[LimitKey], now, Ttl.limit).value <= Limit
    BY <2>1 DEF Counted
  <2>4. now \in 0..now /\ (window # None /\ cache[LimitKey] = None => window.start + Ttl.limit <= now)
    BY DEF LimitInv, WindowOK
  <2>5. LimitOK(c)
    BY <1>2, <2>1, <2>2, <2>3, <2>4 DEF LimitOK
  <2>6. \A q \in Sessions : tx[q].op # "Register"
    BY <2>1 DEF LimitInv, LimitOK
  <2> QED BY <1>1, <2>5, <2>6, LimitMoves DEF tokenVars
<1>3. CASE c.op # "Register"
  <2>1. LimitKey \notin DOMAIN c.own
    <3>1. CASE c.op = "SendCode"
      <4>1. PICK row : c.own = With(Nothing, RateKey, row)
        BY <1>1, <3>1 DEF Started
      <4>2. LimitKey # RateKey
        BY DEF LimitKey, RateKey
      <4> QED BY <4>1, <4>2, WithAt, NothingAt
    <3>2. CASE c.op = "QuickLogin"
      <4>1. PICK row : c.own = With(Nothing, TempKey(requests + 1), row)
        BY <1>1, <3>2 DEF Started
      <4>2. LimitKey # TempKey(requests + 1)
        BY KeysDiffer
      <4> QED BY <4>1, <4>2, WithAt, NothingAt
    <3>3. CASE c.op \notin {"SendCode", "Register", "QuickLogin"}
      BY <1>1, <3>3, NothingAt DEF Started
    <3> QED BY <1>3, <3>1, <3>2, <3>3
  <2>2. LimitOK(c)
    BY <1>3, <2>1 DEF LimitOK
  <2> QED BY <1>1, <1>3, <2>2, LimitMoves DEF tokenVars
<1> QED BY <1>2, <1>3

\* A later step.
LEMMA LimitContinues ==
  ASSUME SecretInv, LimitInv, NEW s \in Sessions,
         FillSetting(s) \/ WriteSetting(s) \/ SetCode(s) \/ DeleteTemp(s) \/ BuildUrl(s) \/ DeleteOtp(s)
  PROVE  LimitInv'
<1>1. PICK b : b = tx[s]
  OBVIOUS
<1>2. PICK c : Moves(s, c) /\ Wrote(b, c) /\ UNCHANGED tokenVars
  BY <1>1, Continues DEF SecretInv
<1>3. c.op = b.op /\ c.op # "Register"
  BY <1>2 DEF Wrote
<1>4. LimitKey \notin DOMAIN b.own
  BY <1>1, <1>3 DEF LimitInv, LimitOK
<1>5. LimitKey \notin DOMAIN c.own
  <2>1. CASE c.op \in {"ReadSetting", "SaveSetting"}
    <3>1. c.own = b.own \/ \E row : c.own = With(b.own, SettingKey, row)
      BY <1>2, <2>1 DEF Wrote
    <3> QED BY <1>4, <3>1, WithAt, KeysDiffer
  <2>2. CASE c.op = "SendCode"
    <3>1. PICK row, last : c.own = With(With(b.own, CodeKey(b.mem.email), row), LastKey(b.mem.email), last)
      BY <1>2, <2>2 DEF Wrote
    <3>2. LimitKey # CodeKey(b.mem.email) /\ LimitKey # LastKey(b.mem.email)
      BY KeysDiffer
    <3> QED BY <1>4, <3>1, <3>2, WithAt
  <2>3. CASE c.op = "Redeem"
    <3>1. c.own = b.own \/ c.own = With(b.own, TempKey(b.mem.token), None)
      BY <1>2, <2>3 DEF Wrote, Drop
    <3>2. LimitKey # TempKey(b.mem.token)
      BY KeysDiffer
    <3> QED BY <1>4, <3>1, <3>2, WithAt
  <2>4. CASE b.step = "delete" /\ c.op = "Fetch"
    <3>1. c.own = Drop(Drop(b.own, OtpnKey(b.mem.used)), OtpKey(b.mem.token))
      BY <1>2, <2>4 DEF Wrote
    <3>2. LimitKey # OtpnKey(b.mem.used) /\ LimitKey # OtpKey(b.mem.token)
      BY KeysDiffer
    <3> QED BY <1>4, <3>1, <3>2, WithAt DEF Drop
  <2>5. CASE b.step = "build"
    <3>1. \/ c.own = b.own
          \/ \E row, other : c.own = With(With(b.own, OtpKey(b.mem.token), row), OtpnKey(b.mem.code), other)
      BY <1>2, <2>5 DEF Wrote
    <3>2. LimitKey # OtpnKey(b.mem.code) /\ LimitKey # OtpKey(b.mem.token)
      BY KeysDiffer
    <3> QED BY <1>4, <3>1, <3>2, WithAt
  <2> QED BY <1>2, <2>1, <2>2, <2>3, <2>4, <2>5 DEF Wrote
<1>6. LimitOK(c)
  BY <1>3, <1>5 DEF LimitOK
<1> QED BY <1>2, <1>3, <1>6, LimitMoves DEF tokenVars

\* The requests that end without counting.
LEMMA LimitEnds ==
  ASSUME SecretInv, LimitInv, NEW s \in Sessions,
         CommitSetting(s) \/ CommitForget(s) \/ CommitRedeem(s) \/ End(s)
  PROVE  LimitInv'
<1>0. StepOK(tx[s]) /\ LimitOK(tx[s])
  BY DEF SecretInv, LimitInv
<1>1. CASE CommitSetting(s)
  <2>1. PICK own : own = IF tx[s].mem.new = None THEN Drop(tx[s].own, SettingKey) ELSE Cached(tx[s].own, tx[s].mem.new)
    OBVIOUS
  <2>2. CommitRows(s, own) /\ tx[s].op = "SaveSetting" /\ UNCHANGED window
    BY <1>1, <2>1 DEF CommitSetting, At
  <2>3. own = tx[s].own \/ \E row : own = With(tx[s].own, SettingKey, row)
    BY <2>1 DEF Drop, Cached, Put
  <2>4. LimitKey \notin DOMAIN own
    BY <1>0, <2>2, <2>3, WithAt, KeysDiffer DEF LimitOK
  <2> QED BY <2>2, <2>4, LimitCommits
<1>2. CASE CommitForget(s)
  <2>1. PICK own : own = With(tx[s].own, CodeKey(tx[s].mem.email), None)
    OBVIOUS
  <2>2. CommitRows(s, own) /\ tx[s].op = "Forget" /\ UNCHANGED window
    BY <1>2, <2>1 DEF CommitForget, At
  <2>3. LimitKey # CodeKey(tx[s].mem.email)
    BY KeysDiffer
  <2>4. LimitKey \notin DOMAIN own
    BY <1>0, <2>1, <2>2, <2>3, WithAt DEF LimitOK
  <2> QED BY <2>2, <2>4, LimitCommits
<1>3. CASE CommitRedeem(s) \/ End(s)
  <2>1. CommitRows(s, tx[s].own) /\ UNCHANGED window /\ tx[s].op # "Register"
    BY <1>0, <1>3 DEF CommitRedeem, End, Commit, At, StepOK
  <2> QED BY <1>0, <2>1, LimitCommits DEF LimitOK
<1> QED BY <1>1, <1>2, <1>3

\* The row expires, and goes away while nobody holds it.
LEMMA LimitExpires ==
  ASSUME LimitInv, UNCHANGED <<tx, window>>, now' \in {now, now + 1},
         \/ cache'[LimitKey] = cache[LimitKey]
         \/ /\ cache'[LimitKey] = None /\ cache[LimitKey] # None /\ cache[LimitKey].until <= now
            /\ \A s \in Sessions : LimitKey \notin DOMAIN tx[s].own
  PROVE  LimitInv'
<1>1. now \in Nat /\ now' \in Nat /\ now <= now' /\ 0..now \subseteq 0..now'
  BY DEF LimitInv
<1>2. ASSUME NEW q \in Sessions PROVE LimitOK(tx[q])'
  <2>1. PICK d : d = tx[q]
    OBVIOUS
  <2>2. LimitOK(d)
    BY <2>1 DEF LimitInv
  <2>3. d.op = "Register" => cache'[LimitKey] = cache[LimitKey]
    BY <2>1, <2>2 DEF LimitOK
  <2>4. LimitOK(d)'
    <3>1. CASE d.op # "Register"
      BY <2>2, <3>1 DEF LimitOK
    <3>2. CASE d.op = "Register"
      <4>1. /\ d.mem.at \in 0..now
            /\ LimitKey \in DOMAIN d.own /\ d.own[LimitKey] = Increased(cache[LimitKey], d.mem.at, Ttl.limit)
            /\ Increased(cache[LimitKey], d.mem.at, Ttl.limit).value <= Limit
            /\ window # None /\ cache[LimitKey] = None => window.start + Ttl.limit <= d.mem.at
        BY <2>2, <3>2 DEF LimitOK
      <4>2. PICK row : row = cache[LimitKey] /\ row = cache'[LimitKey]
        BY <2>3, <3>2
      <4>3. d.mem.at \in 0..now'
        BY <1>1, <4>1
      <4>4. PICK at, own, new : at = d.mem.at /\ own = d.own /\ new = Increased(row, at, Ttl.limit)
        OBVIOUS
      <4>5. new = Increased(cache'[LimitKey], at, Ttl.limit)
        BY <4>2, <4>4
      <4>6. LimitKey \in DOMAIN own /\ own[LimitKey] = new /\ new.value <= Limit
            /\ (window # None /\ row = None => window.start + Ttl.limit <= at)
        BY <4>1, <4>2, <4>4
      <4> QED BY <3>2, <4>2, <4>3, <4>4, <4>5, <4>6 DEF LimitOK, Increased, Entry
    <3> QED BY <3>1, <3>2
  <2> QED BY <2>1, <2>4 DEF LimitOK
<1>3. WindowOK'
  <2>1. window # None => window.start \in 0..now /\ window \in [start : 0..now', made : 0..Limit]
    BY <1>1 DEF LimitInv, WindowOK
  <2>2. window # None /\ cache'[LimitKey] = None => window.start + Ttl.limit <= now
    BY DEF LimitInv, WindowOK
  <2>3. window # None => window.start + Ttl.limit \in Nat
    BY <1>1, <2>1, TokenAssumption
  <2> QED BY <1>1, <2>1, <2>2, <2>3 DEF LimitInv, WindowOK
<1> QED BY <1>1, <1>2, <1>3 DEF LimitInv

\* Every step keeps the count.
LEMMA LimitInvHolds == TokenSpec => []LimitInv
<1>0. Idle.op = "idle" /\ LimitKey \notin DOMAIN Idle.own
  BY NothingAt DEF Idle
<1>1. CacheInit /\ TokenInit => LimitInv
  <2> SUFFICES ASSUME CacheInit, TokenInit PROVE LimitInv
    OBVIOUS
  <2>1. cache[LimitKey] = None /\ window = None /\ now \in Nat
    BY KeysOK DEF CacheInit, TokenInit
  <2>2. \A s \in Sessions : tx[s] = Idle
    BY DEF CacheInit
  <2> QED BY <1>0, <2>1, <2>2 DEF LimitInv, LimitOK, WindowOK
<1>2. SettingInv /\ SecretInv /\ LimitInv /\ [TokenNext]_<<cacheVars, tokenVars>> => LimitInv'
  <2> SUFFICES ASSUME SettingInv, SecretInv, LimitInv, [TokenNext]_<<cacheVars, tokenVars>> PROVE LimitInv'
    OBVIOUS
  <2>1. CASE UNCHANGED <<cacheVars, tokenVars>>
    BY <2>1, LimitExpires DEF cacheVars, tokenVars
  <2>2. ASSUME NEW s \in Sessions, AccountStart(s) \/ LoginStart(s) PROVE LimitInv'
    BY <2>2, LimitStarts
  <2>3. ASSUME NEW s \in Sessions, TokenStep(s) PROVE LimitInv'
    BY <2>3, LimitContinues, LimitEnds, LimitCounts DEF TokenStep
  <2>4. CASE TokenAdmin
    <3>1. UNCHANGED <<cache, tx, now, window>>
      BY <2>4 DEF TokenAdmin, ResetSecurity, SetBanned
    <3> QED BY <3>1, LimitExpires
  <2>5. ASSUME NEW s \in Sessions, RollBack(s), UNCHANGED tokenVars PROVE LimitInv'
    <3>1. Moves(s, Idle) /\ UNCHANGED window
      BY <2>5 DEF RollBack, Moves, tokenVars
    <3>2. LimitOK(Idle)
      BY <1>0 DEF LimitOK
    <3> QED BY <1>0, <3>1, <3>2, LimitMoves
  <2>6. CASE (Tick \/ Cleanup) /\ UNCHANGED tokenVars
    <3>1. UNCHANGED <<tx, window>> /\ now' \in {now, now + 1}
      BY <2>6 DEF Tick, Cleanup, tokenVars
    <3>2. \/ cache'[LimitKey] = cache[LimitKey]
          \/ /\ cache'[LimitKey] = None /\ cache[LimitKey] # None /\ cache[LimitKey].until <= now
             /\ \A s \in Sessions : LimitKey \notin DOMAIN tx[s].own
      BY <2>6, KeysOK DEF Tick, Cleanup
    <3> QED BY <3>1, <3>2, LimitExpires
  <2>7. CASE Crash /\ window' = None
    <3>1. now' = now /\ cache'[LimitKey] = None /\ (\A s \in Sessions : tx'[s] = Idle) /\ window' = None
      BY <2>7, KeysOK DEF Crash
    <3> QED BY <1>0, <3>1 DEF LimitInv, LimitOK, WindowOK
  <2> QED BY <2>1, <2>2, <2>3, <2>4, <2>5, <2>6, <2>7 DEF TokenNext, TokenOther
<1> QED BY <1>1, <1>2, SettingInvHolds, SecretInvHolds, PTL DEF TokenSpec

\* _check_register_limit: no more accounts than the limit while it counts.
THEOREM LimitIsKept == TokenSpec => []LimitKept
<1>1. LimitInv => LimitKept
  <2>1. LimitInv /\ window # None => window.made \in 0..Limit
    BY DEF LimitInv, WindowOK
  <2> QED BY <2>1, TokenAssumption DEF LimitKept
<1> QED BY <1>1, LimitInvHolds, PTL

(***************************************************************************)
(* One-time things: once used they are gone, and who is about to use one   *)
(* has begun before any use of it ended.                                   *)
(***************************************************************************)
Gone(w) ==
  \/ \E n : w = <<"temp", n>> /\ Old(n) /\ cache[TempKey(n)] = None
  \/ \E n : w = <<"otp", n>> /\ Old(n) /\ cache[OtpnKey(n)] = None
  \/ \E n : w = <<"code", n>> /\ Old(n) /\ \A e \in People : cache[CodeKey(e)] # None => cache[CodeKey(e)].value # n
  \/ \E i : w = <<"invite", i>> /\ i \in spent

\* What a request will have used when it commits.
Takes(c, w) ==
  \/ c.op = "Redeem" /\ w = <<"temp", c.mem.token>>
  \/ c.op = "Fetch" /\ w = <<"otp", c.mem.used>>
  \/ c.op \in {"Register", "Forget"} /\ c.mem.code \in Secrets /\ w = <<"code", c.mem.code>>
  \/ c.op = "Register" /\ c.mem.invite \in Invites /\ w = <<"invite", c.mem.invite>>

UseOK(c) ==
  /\ c.began \in 0..commits
  /\ c.op = "Forget" => c.mem.code \in Secrets
  /\ \A b \in uses : Takes(c, b.what) => c.began < b.ended
  /\ c.op = "Redeem" /\ c.step # "delete" =>
       TempKey(c.mem.token) \in DOMAIN c.own \/ cache[TempKey(c.mem.token)] = None
  /\ c.op = "Fetch" /\ c.step # "delete" =>
       OtpnKey(c.mem.used) \in DOMAIN c.own \/ cache[OtpnKey(c.mem.used)] = None

UseInv ==
  /\ commits \in Nat
  /\ \A s \in Sessions : UseOK(tx[s])
  /\ \A b \in uses : /\ b.began \in Nat /\ b.ended \in Nat /\ b.began < b.ended /\ b.ended <= commits
                     /\ Gone(b.what)
  /\ SingleUse

\* A step inside a transaction.
LEMMA UseMoves ==
  ASSUME SecretInv, UseInv, NEW s \in Sessions, NEW c, Moves(s, c), UNCHANGED <<uses, spent>>, UseOK(c),
         \A n : Old(n) => Old(n)'
  PROVE  UseInv'
<1>0. UNCHANGED <<cache, commits, uses, spent>> /\ \A q \in Sessions : tx'[q] = IF q = s THEN c ELSE tx[q]
  BY DEF Moves, SecretInv
<1>1. ASSUME NEW q \in Sessions PROVE UseOK(tx[q])'
  <2>1. PICK d : d = tx'[q]
    OBVIOUS
  <2>2. UseOK(d)
    BY <1>0, <2>1 DEF UseInv
  <2> QED BY <1>0, <2>1, <2>2 DEF UseOK, Takes
<1>2. ASSUME NEW b \in uses' PROVE Gone(b.what)'
  <2>1. PICK w : w = b.what
    OBVIOUS
  <2>2. Gone(w)
    BY <1>0, <2>1 DEF UseInv
  <2>3. Gone(w)'
    BY <1>0, <2>2 DEF Gone
  <2> QED BY <1>0, <2>1, <2>3 DEF Gone
<1>3. SingleUse'
  BY <1>0 DEF UseInv, SingleUse
<1> QED BY <1>0, <1>1, <1>2, <1>3 DEF UseInv

\* A commit writes no old number again.
LEMMA OldIsGone ==
  ASSUME SecretInv, NEW s \in Sessions, NEW own, CommitRows(s, own), OwnOK(tx[s], own), NEW n, Old(n)
  PROVE  /\ Old(n)'
         /\ cache[TempKey(n)] = None => cache'[TempKey(n)] = None
         /\ cache[OtpnKey(n)] = None => cache'[OtpnKey(n)] = None
         /\ \A e \in People : cache'[CodeKey(e)] # None /\ cache'[CodeKey(e)].value = n =>
              cache'[CodeKey(e)] = cache[CodeKey(e)]
<1>1. n \in Secrets /\ (tx[s].op \in Makers => tx[s].mem.code # n)
  BY TokenAssumption, CacheAssumption DEF Old, SecretInv
<1>2. tx' = [tx EXCEPT ![s] = Idle] /\ requests' = requests
  BY CommitAs
<1>3. Old(n)'
  BY <1>2, OldStays DEF Makers, Idle
<1>4. cache[TempKey(n)] = None => cache'[TempKey(n)] = None
  <2>1. TempKey(n) \in Keys
    BY <1>1, KeysOK
  <2>2. TempKey(n) \in DOMAIN own => own[TempKey(n)] = None
    BY <1>1 DEF OwnOK, Makers
  <2> QED BY <2>1, <2>2, CommitAt
<1>5. cache[OtpnKey(n)] = None => cache'[OtpnKey(n)] = None
  <2>1. OtpnKey(n) \in Keys
    BY <1>1, KeysOK
  <2>2. OtpnKey(n) \in DOMAIN own => own[OtpnKey(n)] = None
    BY <1>1 DEF OwnOK, Makers
  <2> QED BY <2>1, <2>2, CommitAt
<1>6. ASSUME NEW e \in People, cache'[CodeKey(e)] # None, cache'[CodeKey(e)].value = n
      PROVE  cache'[CodeKey(e)] = cache[CodeKey(e)]
  <2>1. CodeKey(e) \in Keys
    BY KeysOK
  <2>2. CodeKey(e) \in DOMAIN own => own[CodeKey(e)] = None \/ own[CodeKey(e)].value # n
    BY <1>1 DEF OwnOK, Makers
  <2> QED BY <1>6, <2>1, <2>2, CommitAt
<1> QED BY <1>3, <1>4, <1>5, <1>6

\* What is gone stays so.
LEMMA GoneStays ==
  ASSUME SecretInv, NEW s \in Sessions, NEW own, CommitRows(s, own), OwnOK(tx[s], own), spent \subseteq spent',
         NEW w, Gone(w)
  PROVE  Gone(w)'
<1>1. CASE \E n : w = <<"temp", n>> /\ Old(n) /\ cache[TempKey(n)] = None
  BY <1>1, OldIsGone DEF Gone
<1>2. CASE \E n : w = <<"otp", n>> /\ Old(n) /\ cache[OtpnKey(n)] = None
  BY <1>2, OldIsGone DEF Gone
<1>3. CASE \E n : w = <<"code", n>> /\ Old(n) /\ \A e \in People : cache[CodeKey(e)] # None => cache[CodeKey(e)].value # n
  BY <1>3, OldIsGone DEF Gone
<1>4. CASE \E i : w = <<"invite", i>> /\ i \in spent
  BY <1>4 DEF Gone
<1> QED BY <1>1, <1>2, <1>3, <1>4 DEF Gone

\* A commit that has used what it takes.
LEMMA UseCommits ==
  ASSUME SecretInv, UseInv, NEW s \in Sessions, NEW own, CommitRows(s, own), OwnOK(tx[s], own), spent \subseteq spent',
         NEW W, Used(s, W), \A w \in W : Takes(tx[s], w), \A w \in W : Gone(w)'
  PROVE  UseInv'
<1>1. PICK c : c = tx[s]
  OBVIOUS
<1>2. UseOK(c) /\ commits \in Nat
  BY <1>1 DEF UseInv
<1>3. tx' = [tx EXCEPT ![s] = Idle] /\ commits' = commits + 1
  BY CommitAs
<1>4. \A q \in Sessions : tx'[q] = IF q = s THEN Idle ELSE tx[q]
  BY <1>3 DEF SecretInv
<1>5. uses' = uses \cup {[what |-> w, began |-> c.began, ended |-> commits + 1] : w \in W}
  BY <1>1 DEF Used
<1>6. ASSUME NEW b \in uses' \ uses
      PROVE  b.what \in W /\ b.began = c.began /\ b.ended = commits + 1
  <2>1. PICK w \in W : b = [what |-> w, began |-> c.began, ended |-> commits + 1]
    BY <1>5
  <2> QED BY <2>1
<1>7. ASSUME NEW b \in uses'
      PROVE  b.began \in Nat /\ b.ended \in Nat /\ b.began < b.ended /\ b.ended <= commits' /\ Gone(b.what)'
  <2>1. CASE b \in uses
    <3>1. PICK w : w = b.what
      OBVIOUS
    <3>2. Gone(w) /\ b.began \in Nat /\ b.ended \in Nat /\ b.began < b.ended /\ b.ended <= commits
      BY <2>1, <3>1 DEF UseInv
    <3>3. Gone(w)'
      BY <3>2, GoneStays
    <3> QED BY <1>2, <1>3, <3>1, <3>2, <3>3 DEF Gone
  <2>2. CASE b \notin uses
    <3>1. PICK w : w = b.what
      OBVIOUS
    <3>2. w \in W /\ b.began = c.began /\ b.ended = commits + 1
      BY <1>6, <2>2, <3>1
    <3>3. Gone(w)'
      BY <3>2
    <3>4. c.began \in Nat /\ c.began <= commits
      BY <1>2 DEF UseOK
    <3> QED BY <1>2, <1>3, <3>1, <3>2, <3>3, <3>4 DEF Gone
  <2> QED BY <2>1, <2>2
<1>8. SingleUse'
  <2>1. SUFFICES ASSUME NEW a \in uses', NEW b \in uses', a # b, a.what = b.what
                 PROVE  a.began < b.ended
    BY DEF SingleUse
  <2>2. CASE b \notin uses
    <3>1. b.ended = commits + 1
      BY <1>6, <2>2
    <3>2. CASE a \in uses
      <4>1. a.began \in Nat /\ a.ended \in Nat /\ a.began < a.ended /\ a.ended <= commits
        BY <3>2 DEF UseInv
      <4> QED BY <1>2, <3>1, <4>1
    <3>3. CASE a \notin uses
      <4>1. a.began = c.began
        BY <1>6, <3>3
      <4>2. c.began \in Nat /\ c.began <= commits
        BY <1>2 DEF UseOK
      <4> QED BY <1>2, <3>1, <4>1, <4>2
    <3> QED BY <3>2, <3>3
  <2>3. CASE b \in uses /\ a \in uses
    BY <2>1, <2>3 DEF UseInv, SingleUse
  <2>4. CASE b \in uses /\ a \notin uses
    <3>1. a.began = c.began /\ Takes(c, b.what)
      BY <1>1, <1>6, <2>1, <2>4
    <3> QED BY <1>2, <2>4, <3>1 DEF UseOK
  <2> QED BY <2>2, <2>3, <2>4
<1>9. ASSUME NEW q \in Sessions PROVE UseOK(tx[q])'
  <2>1. PICK d : d = tx'[q]
    OBVIOUS
  <2>2. CASE q = s
    <3>1. d = Idle
      BY <1>4, <2>1, <2>2
    <3>2. d.op = "idle" /\ d.began = 0
      BY <3>1 DEF Idle
    <3>3. d.began \in 0..commits'
      BY <1>2, <1>3, <3>2
    <3> QED BY <2>1, <3>2, <3>3 DEF UseOK, Takes
  <2>3. CASE q # s
    <3>1. d = tx[q]
      BY <1>4, <2>1, <2>3
    <3>2. UseOK(d) /\ FoundOK(d)
      BY <3>1 DEF UseInv, SecretInv
    <3>3. d.began \in 0..commits' /\ d.began < commits + 1
      BY <1>2, <1>3, <3>2 DEF UseOK
    <3>4. ASSUME NEW b \in uses', Takes(d, b.what) PROVE d.began < b.ended
      BY <1>6, <3>2, <3>3, <3>4 DEF UseOK
    <3>5. d.op = "Redeem" /\ cache[TempKey(d.mem.token)] = None => cache'[TempKey(d.mem.token)] = None
      BY <3>2, OldIsGone DEF FoundOK
    <3>6. d.op = "Fetch" /\ cache[OtpnKey(d.mem.used)] = None => cache'[OtpnKey(d.mem.used)] = None
      BY <3>2, OldIsGone DEF FoundOK
    <3> QED BY <2>1, <3>2, <3>3, <3>4, <3>5, <3>6 DEF UseOK, Takes
  <2> QED BY <2>2, <2>3
<1> QED BY <1>2, <1>3, <1>7, <1>8, <1>9 DEF UseInv

\* Steps that touch no transaction.
LEMMA UseShrinks ==
  ASSUME SecretInv, UseInv, UNCHANGED <<tx, uses, spent>>, commits' \in {commits, commits + 1},
         \A k \in Keys : cache'[k] = cache[k] \/ cache'[k] = None,
         \A n : Old(n) => Old(n)'
  PROVE  UseInv'
<1>1. commits \in Nat /\ commits' \in Nat /\ 0..commits \subseteq 0..commits' /\ commits <= commits'
  BY DEF UseInv
<1>2. \A n : Old(n) => n \in Secrets
  BY TokenAssumption, CacheAssumption DEF Old, SecretInv
<1>3. \A n \in Secrets : /\ cache[TempKey(n)] = None => cache'[TempKey(n)] = None
                         /\ cache[OtpnKey(n)] = None => cache'[OtpnKey(n)] = None
  BY KeysOK
<1>4. \A e \in People : cache'[CodeKey(e)] # None => cache'[CodeKey(e)] = cache[CodeKey(e)]
  BY KeysOK
<1>5. ASSUME NEW q \in Sessions PROVE UseOK(tx[q])'
  <2>1. PICK d : d = tx[q]
    OBVIOUS
  <2>2. UseOK(d) /\ FoundOK(d)
    BY <2>1 DEF UseInv, SecretInv
  <2>3. d.op = "Redeem" => d.mem.token \in Secrets
    BY <1>2, <2>2 DEF FoundOK
  <2>4. d.op = "Fetch" => d.mem.used \in Secrets
    BY <1>2, <2>2 DEF FoundOK
  <2> QED BY <1>1, <1>3, <2>1, <2>2, <2>3, <2>4 DEF UseOK, Takes
<1>6. ASSUME NEW b \in uses' PROVE Gone(b.what)'
  <2>1. PICK w : w = b.what
    OBVIOUS
  <2>2. Gone(w)
    BY <2>1 DEF UseInv
  <2>3. Gone(w)'
    BY <1>2, <1>3, <1>4, <2>2 DEF Gone
  <2> QED BY <2>1, <2>3 DEF Gone
<1>7. \A b \in uses' : b.began \in Nat /\ b.ended \in Nat /\ b.began < b.ended /\ b.ended <= commits'
  BY <1>1 DEF UseInv
<1>8. SingleUse'
  BY DEF UseInv, SingleUse
<1> QED BY <1>1, <1>5, <1>6, <1>7, <1>8 DEF UseInv

\* The first step of a request: what it finds has not been used.
LEMMA UseStarts ==
  ASSUME SecretInv, UseInv, NEW s \in Sessions, AccountStart(s) \/ LoginStart(s)
  PROVE  UseInv'
<1>1. PICK c : Moves(s, c) /\ Started(c) /\ requests' = requests + 1 /\ UNCHANGED tokenVars
  BY Starts
<1>2. \A n : Old(n) => Old(n)'
  <2>1. c.op \in Makers => c.mem.code = requests + 1
    BY <1>1 DEF Started
  <2> QED BY <1>1, <2>1, OldStays DEF Moves
<1>3. ASSUME NEW b \in uses, Takes(c, b.what) PROVE FALSE
  <2>1. PICK w : w = b.what
    OBVIOUS
  <2>2. Gone(w) /\ Takes(c, w)
    BY <1>3, <2>1 DEF UseInv
  <2>3. CASE c.op = "Redeem" /\ w = <<"temp", c.mem.token>>
    <3>1. cache[TempKey(c.mem.token)] # None
      BY <1>1, <2>3 DEF Started, Live
    <3> QED BY <2>2, <2>3, <3>1 DEF Gone
  <2>4. CASE c.op = "Fetch" /\ w = <<"otp", c.mem.used>>
    <3>1. cache[OtpnKey(c.mem.used)] # None
      BY <1>1, <2>4 DEF Started, Held, Live
    <3> QED BY <2>2, <2>4, <3>1 DEF Gone
  <2>5. CASE c.op \in {"Register", "Forget"} /\ c.mem.code \in Secrets /\ w = <<"code", c.mem.code>>
    <3>1. c.mem.email \in People /\ Held(CodeKey(c.mem.email), c.mem.code)
      BY <1>1, <2>5 DEF Started
    <3>2. \E e \in People : cache[CodeKey(e)] # None /\ cache[CodeKey(e)].value = c.mem.code
      BY <3>1 DEF Held, Live
    <3> QED BY <2>2, <2>5, <3>2 DEF Gone
  <2>6. CASE c.op = "Register" /\ c.mem.invite \in Invites /\ w = <<"invite", c.mem.invite>>
    <3>1. c.mem.invite \notin spent
      BY <1>1, <2>6 DEF Started
    <3> QED BY <2>2, <2>6, <3>1 DEF Gone
  <2> QED BY <2>2, <2>3, <2>4, <2>5, <2>6 DEF Takes
<1>4. c.began \in 0..commits /\ (c.op = "Forget" => c.mem.code \in Secrets) /\ (c.op \in {"Redeem", "Fetch"} => c.step = "delete")
  BY <1>1 DEF Started, UseInv
<1>5. UseOK(c)
  BY <1>3, <1>4 DEF UseOK
<1> QED BY <1>1, <1>2, <1>5, UseMoves DEF tokenVars, rows

\* A later step.
LEMMA UseContinues ==
  ASSUME SecretInv, UseInv, NEW s \in Sessions,
         FillSetting(s) \/ WriteSetting(s) \/ SetCode(s) \/ DeleteTemp(s) \/ BuildUrl(s) \/ DeleteOtp(s)
  PROVE  UseInv'
<1>1. PICK b : b = tx[s]
  OBVIOUS
<1>2. PICK c : Moves(s, c) /\ Wrote(b, c) /\ requests' = requests /\ UNCHANGED tokenVars
  BY <1>1, Continues DEF SecretInv
<1>3. UseOK(b)
  BY <1>1 DEF UseInv
<1>4. c.op = b.op /\ c.began = b.began /\ (c.op # "ReadSetting" => c.mem = b.mem)
  BY <1>2 DEF Wrote
<1>5. \A n : Old(n) => Old(n)'
  <2>1. c.op \in Makers => tx[s].op \in Makers /\ c.mem.code = tx[s].mem.code
    BY <1>1, <1>4 DEF Makers
  <2> QED BY <1>2, <2>1, OldStays DEF Moves
<1>6. c.op = "Redeem" => TempKey(c.mem.token) \in DOMAIN c.own \/ cache[TempKey(c.mem.token)] = None
  <2>1. c.op = "Redeem" => c.own = Drop(b.own, TempKey(c.mem.token))
    BY <1>2, <1>4 DEF Wrote
  <2> QED BY <2>1, WithAt DEF Drop
<1>7. c.op = "Fetch" => OtpnKey(c.mem.used) \in DOMAIN c.own \/ cache[OtpnKey(c.mem.used)] = None
  <2>1. CASE b.step = "delete" /\ c.op = "Fetch"
    <3>1. PICK mid : mid = Drop(b.own, OtpnKey(c.mem.used))
      OBVIOUS
    <3>2. c.own = Drop(mid, OtpKey(c.mem.token))
      BY <1>2, <1>4, <2>1, <3>1 DEF Wrote
    <3>3. OtpnKey(c.mem.used) \in DOMAIN mid \/ cache[OtpnKey(c.mem.used)] = None
      BY <3>1, WithAt DEF Drop
    <3>4. c.own = mid \/ c.own = With(mid, OtpKey(c.mem.token), None)
      BY <3>2 DEF Drop
    <3> QED BY <3>3, <3>4, WithAt
  <2>2. CASE b.step = "build" /\ c.op = "Fetch"
    <3>1. OtpnKey(c.mem.used) \in DOMAIN b.own \/ cache[OtpnKey(c.mem.used)] = None
      BY <1>3, <1>4, <2>2 DEF UseOK
    <3>2. \/ c.own = b.own
          \/ \E row, other : c.own = With(With(b.own, OtpKey(b.mem.token), row), OtpnKey(b.mem.code), other)
      BY <1>2, <2>2 DEF Wrote
    <3>3. ASSUME NEW row, NEW other, c.own = With(With(b.own, OtpKey(b.mem.token), row), OtpnKey(b.mem.code), other)
          PROVE  \A x : x \in DOMAIN b.own => x \in DOMAIN c.own
      BY <3>3, WithAt
    <3> QED BY <3>1, <3>2, <3>3
  <2> QED BY <1>2, <2>1, <2>2 DEF Wrote
<1>8. \A a \in uses : Takes(c, a.what) => c.began < a.ended
  <2>1. c.op # "ReadSetting" => \A w : Takes(c, w) => Takes(b, w)
    BY <1>4 DEF Takes
  <2>2. c.op = "ReadSetting" => \A w : ~Takes(c, w)
    BY DEF Takes
  <2> QED BY <1>3, <1>4, <2>1, <2>2 DEF UseOK
<1>9. UseOK(c)
  BY <1>3, <1>4, <1>6, <1>7, <1>8 DEF UseOK
<1> QED BY <1>2, <1>5, <1>9, UseMoves DEF tokenVars, rows

\* register and forget_password delete the code they have found.
LEMMA CodeIsGone ==
  ASSUME SecretInv, NEW s \in Sessions, NEW own, CommitRows(s, own), tx[s].op \in {"Register", "Forget"},
         tx[s].mem.code \in Secrets, own = With(tx[s].own, CodeKey(tx[s].mem.email), None),
         NEW w, w = <<"code", tx[s].mem.code>>
  PROVE  OwnOK(tx[s], own) /\ Gone(w)'
<1>1. PICK c, n, e : c = tx[s] /\ n = c.mem.code /\ e = c.mem.email
  OBVIOUS
<1>2. OwnOK(c, c.own) /\ FoundOK(c)
  BY <1>1 DEF SecretInv
<1>3. OwnOK(tx[s], own)
  <2>1. OwnOK(tx[s], tx[s].own)
    BY <1>1, <1>2
  <2> QED BY <2>1, WithOK, KeysDiffer
<1>4. /\ Old(n) /\ e \in People
      /\ \A f \in People : cache[CodeKey(f)] # None /\ cache[CodeKey(f)].value = n => f = e
  BY <1>1, <1>2 DEF FoundOK
<1>5. cache'[CodeKey(e)] = None
  <2>1. CodeKey(e) \in DOMAIN own /\ own[CodeKey(e)] = None
    BY <1>1, WithAt
  <2> QED BY <1>4, <2>1, CommitAt, KeysOK
<1>6. Old(n)' /\ \A f \in People : cache'[CodeKey(f)] # None => cache'[CodeKey(f)].value # n
  BY <1>3, <1>4, <1>5, OldIsGone
<1>7. w = <<"code", n>>
  BY <1>1
<1>8. Gone(w)'
  BY <1>6, <1>7 DEF Gone
<1> QED BY <1>3, <1>8

\* The requests that end.
LEMMA UseEnds ==
  ASSUME SecretInv, UseInv, NEW s \in Sessions,
         CommitSetting(s) \/ CommitRegister(s) \/ CommitForget(s) \/ CommitRedeem(s) \/ End(s)
  PROVE  UseInv'
<1>0. PICK c : c = tx[s]
  OBVIOUS
<1>1. StepOK(c) /\ OwnOK(c, c.own) /\ FoundOK(c) /\ UseOK(c)
  BY <1>0 DEF SecretInv, UseInv
<1>2. CASE CommitSetting(s)
  <2>1. PICK own : own = IF c.mem.new = None THEN Drop(c.own, SettingKey) ELSE Cached(c.own, c.mem.new)
    OBVIOUS
  <2>2. CommitRows(s, own) /\ UNCHANGED <<uses, spent>>
    BY <1>0, <1>2, <2>1 DEF CommitSetting
  <2>3. own = c.own \/ \E row : own = With(c.own, SettingKey, row)
    BY <2>1 DEF Drop, Cached, Put
  <2>4. OwnOK(c, own)
    BY <1>1, <2>3, WithOK, KeysDiffer
  <2>5. PICK W : W = {}
    OBVIOUS
  <2>6. Used(s, W)
    BY <2>2, <2>5 DEF Used
  <2> QED BY <1>0, <2>2, <2>4, <2>5, <2>6, UseCommits
<1>3. CASE CommitRegister(s)
  <2>1. PICK own : own = With(c.own, CodeKey(c.mem.email), None)
    OBVIOUS
  <2>2. PICK W : W = {<<"code", n>> : n \in {c.mem.code} \cap Secrets} \cup {<<"invite", i>> : i \in {c.mem.invite} \cap Invites}
    OBVIOUS
  <2>3. /\ CommitRows(s, own) /\ Used(s, W) /\ c.op = "Register"
        /\ spent' = spent \cup ({c.mem.invite} \cap Invites)
    BY <1>0, <1>3, <2>1, <2>2 DEF CommitRegister, At, Spent
  <2>4. OwnOK(c, own)
    BY <1>1, <2>1, WithOK, KeysDiffer
  <2>5. ASSUME NEW w \in W PROVE Takes(c, w) /\ Gone(w)'
    <3>1. CASE c.mem.code \in Secrets /\ w = <<"code", c.mem.code>>
      <4>1. Takes(c, w)
        BY <2>3, <3>1 DEF Takes
      <4>2. w = <<"code", tx[s].mem.code>>
        BY <1>0, <3>1
      <4>3. Gone(w)'
        BY <1>0, <2>1, <2>3, <3>1, <4>2, CodeIsGone
      <4> QED BY <4>1, <4>3
    <3>2. CASE c.mem.invite \in Invites /\ w = <<"invite", c.mem.invite>>
      BY <2>3, <3>2 DEF Takes, Gone
    <3> QED BY <2>2, <2>5, <3>1, <3>2
  <2>6. \A w \in W : Takes(tx[s], w)
    BY <1>0, <2>5
  <2>7. \A w \in W : Gone(w)'
    BY <2>5
  <2> QED BY <1>0, <2>3, <2>4, <2>6, <2>7, UseCommits
<1>4. CASE CommitForget(s)
  <2>1. PICK own : own = With(c.own, CodeKey(c.mem.email), None)
    OBVIOUS
  <2>2. PICK W : W = {<<"code", c.mem.code>>}
    OBVIOUS
  <2>3. CommitRows(s, own) /\ Used(s, W) /\ c.op = "Forget" /\ spent' = spent
    BY <1>0, <1>4, <2>1, <2>2 DEF CommitForget, At, rows
  <2>4. OwnOK(c, own) /\ c.mem.code \in Secrets
    BY <1>1, <2>1, <2>3, WithOK, KeysDiffer DEF UseOK
  <2>5. ASSUME NEW w \in W PROVE Takes(c, w) /\ Gone(w)'
    <3>1. w = <<"code", c.mem.code>> /\ w = <<"code", tx[s].mem.code>>
      BY <1>0, <2>2
    <3>2. Gone(w)'
      BY <1>0, <2>1, <2>3, <2>4, <3>1, CodeIsGone
    <3> QED BY <2>3, <2>4, <3>1, <3>2 DEF Takes
  <2>6. \A w \in W : Takes(tx[s], w)
    BY <1>0, <2>5
  <2>7. \A w \in W : Gone(w)'
    BY <2>5
  <2> QED BY <1>0, <2>3, <2>4, <2>6, <2>7, UseCommits
<1>5. CASE CommitRedeem(s)
  <2>1. PICK own, n : own = c.own /\ n = c.mem.token
    OBVIOUS
  <2>2. PICK W : W = {<<"temp", n>>}
    OBVIOUS
  <2>3. CommitRows(s, own) /\ Used(s, W) /\ c.op = "Redeem" /\ c.step = "login" /\ spent' = spent
    BY <1>0, <1>5, <2>1, <2>2 DEF CommitRedeem, Commit, At, rows
  <2>4. OwnOK(tx[s], own)
    BY <1>0, <1>1, <2>1
  <2>5. Old(n) /\ n \in Secrets
    BY <1>1, <2>1, <2>3, TokenAssumption, CacheAssumption DEF FoundOK, Old, SecretInv
  <2>6. TempKey(n) \in DOMAIN own \/ cache[TempKey(n)] = None
    BY <1>1, <2>1, <2>3 DEF UseOK
  <2>7. TempKey(n) \in DOMAIN own => own[TempKey(n)] = None
    BY <1>1, <2>1, <2>3, <2>5 DEF OwnOK
  <2>8. Old(n)' /\ cache'[TempKey(n)] = None
    BY <2>3, <2>4, <2>5, <2>6, <2>7, OldIsGone, CommitAt, KeysOK
  <2>9. \A w \in W : Gone(w)'
    BY <2>2, <2>8 DEF Gone
  <2>10. \A w \in W : Takes(tx[s], w)
    BY <1>0, <2>1, <2>2, <2>3 DEF Takes
  <2> QED BY <2>3, <2>4, <2>9, <2>10, UseCommits
<1>6. CASE End(s)
  <2>1. PICK own, n : own = c.own /\ n = c.mem.used
    OBVIOUS
  <2>2. PICK W : W = IF c.op = "Fetch" THEN {<<"otp", n>>} ELSE {}
    OBVIOUS
  <2>3. CommitRows(s, own) /\ Used(s, W) /\ c.step = "end" /\ spent' = spent
    BY <1>0, <1>6, <2>1, <2>2 DEF End, Commit, rows
  <2>4. OwnOK(tx[s], own)
    BY <1>0, <1>1, <2>1
  <2>5. CASE c.op # "Fetch"
    <3>1. W = {}
      BY <2>2, <2>5
    <3> QED BY <2>3, <2>4, <3>1, UseCommits
  <2>6. CASE c.op = "Fetch"
    <3>1. Old(n) /\ n \in Secrets
      BY <1>1, <2>1, <2>6, TokenAssumption, CacheAssumption DEF FoundOK, Old, SecretInv
    <3>2. OtpnKey(n) \in DOMAIN own \/ cache[OtpnKey(n)] = None
      BY <1>1, <2>1, <2>3, <2>6 DEF UseOK
    <3>3. c.mem.code # n
      BY <1>0, <2>6, <3>1 DEF Old, Makers
    <3>4. OtpnKey(n) \in DOMAIN own => own[OtpnKey(n)] = None
      BY <1>1, <2>1, <2>6, <3>1, <3>3 DEF OwnOK
    <3>5. Old(n)' /\ cache'[OtpnKey(n)] = None
      BY <2>3, <2>4, <3>1, <3>2, <3>4, OldIsGone, CommitAt, KeysOK
    <3>6. \A w \in W : Gone(w)'
      BY <2>2, <2>6, <3>5 DEF Gone
    <3>7. \A w \in W : Takes(tx[s], w)
      BY <1>0, <2>1, <2>2, <2>6 DEF Takes
    <3> QED BY <2>3, <2>4, <3>6, <3>7, UseCommits
  <2> QED BY <2>5, <2>6
<1> QED BY <1>2, <1>3, <1>4, <1>5, <1>6

\* Every step keeps what is gone.
LEMMA UseInvHolds == TokenSpec => []UseInv
<1>0. Idle.op = "idle" /\ Idle.began = 0 /\ Idle.op \notin Makers
  BY DEF Idle, Makers
<1>1. CacheInit /\ TokenInit => UseInv
  <2> SUFFICES ASSUME CacheInit, TokenInit PROVE UseInv
    OBVIOUS
  <2>1. uses = {} /\ commits = 0 /\ \A s \in Sessions : tx[s] = Idle
    BY DEF CacheInit, TokenInit
  <2> QED BY <1>0, <2>1 DEF UseInv, UseOK, Takes, SingleUse
<1>2. SecretInv /\ UseInv /\ [TokenNext]_<<cacheVars, tokenVars>> => UseInv'
  <2> SUFFICES ASSUME SecretInv, UseInv, [TokenNext]_<<cacheVars, tokenVars>> PROVE UseInv'
    OBVIOUS
  <2>0. requests \in Nat
    BY DEF SecretInv
  <2>1. CASE UNCHANGED <<cacheVars, tokenVars>>
    <3>1. \A n : Old(n) => Old(n)'
      BY <2>1 DEF Old, cacheVars
    <3>2. UNCHANGED <<tx, uses, spent, commits, cache>>
      BY <2>1 DEF cacheVars, tokenVars, rows
    <3> QED BY <3>1, <3>2, UseShrinks
  <2>2. ASSUME NEW s \in Sessions, AccountStart(s) \/ LoginStart(s) PROVE UseInv'
    BY <2>2, UseStarts
  <2>3. ASSUME NEW s \in Sessions, TokenStep(s) PROVE UseInv'
    BY <2>3, UseContinues, UseEnds DEF TokenStep
  <2>4. CASE TokenAdmin
    <3>1. /\ UNCHANGED <<cache, tx, uses, spent>> /\ commits' = commits + 1 /\ requests' = requests + 1
      BY <2>4 DEF TokenAdmin, ResetSecurity, SetBanned
    <3>2. 1..requests \subseteq 1..requests'
      BY <2>0, <3>1
    <3>3. \A n : Old(n) => Old(n)'
      BY <3>1, <3>2 DEF Old
    <3> QED BY <3>1, <3>3, UseShrinks
  <2>5. ASSUME NEW s \in Sessions, RollBack(s), UNCHANGED tokenVars PROVE UseInv'
    <3>1. Moves(s, Idle) /\ requests' = requests /\ UNCHANGED <<uses, spent>>
      BY <2>5 DEF RollBack, Moves, tokenVars, rows
    <3>2. \A n : Old(n) => Old(n)'
      BY <1>0, <3>1, OldStays DEF Moves
    <3>3. UseOK(Idle)
      BY <1>0 DEF UseOK, Takes, UseInv
    <3> QED BY <3>1, <3>2, <3>3, UseMoves
  <2>6. CASE (Tick \/ Cleanup) /\ UNCHANGED tokenVars
    <3>1. /\ UNCHANGED <<tx, requests, commits, uses, spent>>
          /\ \A k \in Keys : cache'[k] = cache[k] \/ cache'[k] = None
      BY <2>6 DEF Tick, Cleanup, tokenVars, rows
    <3>2. \A n : Old(n) => Old(n)'
      BY <3>1 DEF Old
    <3> QED BY <3>1, <3>2, UseShrinks
  <2>7. CASE Crash /\ UNCHANGED <<rows, uses>>
    <3>1. /\ UNCHANGED <<requests, commits, uses, spent>> /\ \A k \in Keys : cache'[k] = None
          /\ \A s \in Sessions : tx'[s] = Idle
      BY <2>7 DEF Crash, rows
    <3>2. \A n : Old(n) => Old(n)' /\ n \in Secrets
      BY <1>0, <3>1, TokenAssumption, CacheAssumption DEF Old, SecretInv
    <3>3. ASSUME NEW b \in uses' PROVE Gone(b.what)'
      <4>1. PICK w : w = b.what
        OBVIOUS
      <4>2. Gone(w)
        BY <3>1, <4>1 DEF UseInv
      <4>3. /\ \A n \in Secrets : cache'[TempKey(n)] = None /\ cache'[OtpnKey(n)] = None
            /\ \A e \in People : cache'[CodeKey(e)] = None
        BY <3>1, KeysOK
      <4>4. Gone(w)'
        BY <3>1, <3>2, <4>2, <4>3 DEF Gone
      <4> QED BY <4>1, <4>4 DEF Gone
    <3>4. ASSUME NEW q \in Sessions PROVE UseOK(tx[q])'
      <4>1. commits \in Nat /\ 0 \in 0..commits
        BY DEF UseInv
      <4> QED BY <1>0, <3>1, <4>1 DEF UseOK, Takes
    <3>5. SingleUse'
      BY <3>1 DEF UseInv, SingleUse
    <3> QED BY <3>1, <3>3, <3>4, <3>5 DEF UseInv
  <2> QED BY <2>1, <2>2, <2>3, <2>4, <2>5, <2>6, <2>7 DEF TokenNext, TokenOther
<1> QED BY <1>1, <1>2, SecretInvHolds, PTL DEF TokenSpec

\* token2_login, register, forget_password, resolve_subscribe_user: a one-time
\* thing serves two requests only if they overlapped.
THEOREM OnceUnlessOverlapping == TokenSpec => []SingleUse
<1>1. UseInv => SingleUse
  BY DEF UseInv
<1> QED BY <1>1, UseInvHolds, PTL

(***************************************************************************)
(* Devices.  An entry holds what was heard as long as it counts; a report  *)
(* under way has seen what had been heard when it began, and a list what   *)
(* the entries said when it was made.                                      *)
(***************************************************************************)
\* What was heard of the user before the commit, in what was seen at that time.
Noted(u, seen, at, began) ==
  \A n \in Nodes : heard[u][n] # None /\ heard[u][n].put <= began /\ at - heard[u][n].at <= StaleAfter =>
    n \in DOMAIN seen /\ seen[n].ips = heard[u][n].ips /\ seen[n].at = heard[u][n].at

\* A list made when began commits had been seen.
Counts(list, began) ==
  \A u \in Limited : Live(cache[AliveKey(u)]) /\ cache[AliveKey(u)].put <= began =>
    u \in DOMAIN list /\ list[u] = AliveIps(cache[AliveKey(u)].value)

\* The entry that a report has written.
Written(c, u, row) ==
  /\ row # None /\ row.value = Merged(c.mem.seen[u], c.mem.node, c.mem.data[u], c.mem.at)
  /\ row.until \in Nat /\ c.mem.at + AliveTtl <= row.until /\ row.until <= now + AliveTtl
  /\ \A n \in Nodes : heard[u][n] # None => heard[u][n].at + AliveTtl <= row.until

AliveOK(c) ==
  /\ c.mem = [node |-> c.mem.node, at |-> c.mem.at, data |-> c.mem.data, todo |-> c.mem.todo, seen |-> c.mem.seen]
  /\ c.mem.node \in Nodes /\ c.mem.at \in 0..now
  /\ DOMAIN c.mem.data \subseteq Limited /\ c.mem.todo \subseteq DOMAIN c.mem.data
  /\ \A u \in DOMAIN c.mem.data :
       /\ c.mem.data[u] \subseteq Addresses
       /\ c.mem.seen[u] \in Sights /\ \A m \in DOMAIN c.mem.seen[u] : c.mem.seen[u][m].at <= c.mem.at
       /\ Noted(u, c.mem.seen[u], c.mem.at, c.began)
  /\ \A u \in Limited : AliveKey(u) \in DOMAIN c.own <=> u \in DOMAIN c.mem.data /\ u \notin c.mem.todo
  /\ \A u \in Limited : AliveKey(u) \in DOMAIN c.own => Written(c, u, c.own[AliveKey(u)])
  /\ ListKey \in DOMAIN c.own => c.own[ListKey] = None
  /\ c.step # "set" =>
       /\ c.mem.todo = {}
       /\ ListKey \notin DOMAIN c.own /\ cache[ListKey] # None => c.began < cache[ListKey].put

ListOK(c) ==
  /\ \A u \in Limited : AliveKey(u) \notin DOMAIN c.own
  /\ c.step = "set" => c.own = Nothing /\ Counts(c.mem, c.began)
  /\ c.step # "set" => ListKey \in DOMAIN c.own /\ Counts(c.own[ListKey].value, c.began)

SessionOK(c) ==
  /\ c.began \in 0..commits
  /\ c.op \in {"idle", "Alive", "AliveList"}
  /\ c.op = "idle" => c.own = Nothing
  /\ c.op = "Alive" => AliveOK(c)
  /\ c.op = "AliveList" => ListOK(c)

\* What was heard has a time, and counts no longer than the entry.
HeardOK(u) ==
  \A n \in Nodes : heard[u][n] # None =>
    /\ heard[u][n].at \in 0..now /\ heard[u][n].put \in 0..commits
    /\ cache[AliveKey(u)] = None => heard[u][n].at + AliveTtl <= now

EntryOK(u, row) ==
  /\ row.value \in Sights /\ row.until \in Nat /\ row.until <= now + AliveTtl
  /\ row.began \in 0..commits /\ row.put \in 0..commits
  /\ \A m \in DOMAIN row.value : row.value[m].at + AliveTtl <= row.until
  /\ \A m, n \in DOMAIN row.value : row.value[m].at - row.value[n].at <= StaleAfter
  /\ \A n \in Nodes : heard[u][n] # None => heard[u][n].at + AliveTtl <= row.until
  /\ Noted(u, row.value, row.until - AliveTtl, commits)

TableOK ==
  /\ \A u \in Limited : cache[AliveKey(u)] # None => EntryOK(u, cache[AliveKey(u)])
  /\ cache[ListKey] # None =>
       /\ cache[ListKey].began \in 0..commits /\ cache[ListKey].put \in 0..commits
       /\ \A u \in Limited : cache[AliveKey(u)] # None => cache[AliveKey(u)].began < cache[ListKey].put
       /\ Counts(cache[ListKey].value, cache[ListKey].began)

DeviceInv ==
  /\ now \in 0..MaxTime /\ commits \in Nat /\ DOMAIN tx = Sessions
  /\ \A s \in Sessions : SessionOK(tx[s])
  /\ \A s, q \in Sessions, u \in Limited :
       AliveKey(u) \in DOMAIN tx[s].own /\ AliveKey(u) \in DOMAIN tx[q].own => s = q
  /\ \A u \in Limited : HeardOK(u)
  /\ TableOK

\* The keys of the entries.
LEMMA AliveKeys ==
  /\ \A u, v : AliveKey(u) = AliveKey(v) => u = v
  /\ \A u : AliveKey(u) # ListKey
  /\ \A u \in Limited : AliveKey(u) \in Keys
  /\ ListKey \in Keys
  BY AliveAssumption DEF AliveKey, ListKey, DeviceKeys

\* What may be in an entry.
LEMMA SightsAt ==
  ASSUME NEW v
  PROVE  v \in Sights <=> /\ v = [m \in DOMAIN v |-> v[m]] /\ DOMAIN v \subseteq Nodes
                          /\ \A m \in DOMAIN v : v[m] \in [ips : SUBSET Addresses, at : 0..MaxTime]
  BY DEF Sights

\* The entry of the node, and of those whose report still counts.
LEMMA MergedAt ==
  ASSUME NEW seen \in Sights, NEW n \in Nodes, NEW ips \in SUBSET Addresses, NEW at \in 0..MaxTime,
         \A m \in DOMAIN seen : seen[m].at <= at, NEW v, v = Merged(seen, n, ips, at)
  PROVE  /\ v \in Sights /\ n \in DOMAIN v /\ v[n].ips = ips /\ v[n].at = at
         /\ \A m \in DOMAIN v : v[m].at \in 0..MaxTime /\ v[m].at <= at /\ at - v[m].at <= StaleAfter
         /\ \A m \in DOMAIN seen : m # n /\ at - seen[m].at <= StaleAfter => m \in DOMAIN v /\ v[m] = seen[m]
<1>1. PICK row : row = [ips |-> ips, at |-> at]
  OBVIOUS
<1>2. row \in [ips : SUBSET Addresses, at : 0..MaxTime] /\ row.ips = ips /\ row.at = at
  BY <1>1
<1>3. PICK all : all = With(seen, n, row)
  OBVIOUS
<1>4. /\ n \in DOMAIN all /\ all[n] = row
      /\ \A m : m # n => (m \in DOMAIN all <=> m \in DOMAIN seen) /\ (m \in DOMAIN seen => all[m] = seen[m])
  BY <1>3, WithAt
<1>5. v = [m \in {x \in DOMAIN all : at - all[x].at <= StaleAfter} |-> all[m]]
  BY <1>1, <1>3 DEF Merged
<1>6. /\ \A m : m \in DOMAIN v <=> m \in DOMAIN all /\ at - all[m].at <= StaleAfter
      /\ \A m \in DOMAIN v : v[m] = all[m]
  BY <1>5
<1>7. at - at = 0 /\ 0 <= StaleAfter
  BY DeviceAssumption
<1>8. n \in DOMAIN v /\ v[n] = row
  BY <1>2, <1>4, <1>6, <1>7
<1>9. DOMAIN seen \subseteq Nodes /\ \A m \in DOMAIN seen : seen[m] \in [ips : SUBSET Addresses, at : 0..MaxTime]
  BY SightsAt
<1>10. ASSUME NEW m \in DOMAIN v
       PROVE  /\ m \in Nodes /\ v[m] \in [ips : SUBSET Addresses, at : 0..MaxTime]
              /\ v[m].at <= at /\ at - v[m].at <= StaleAfter
  <2>1. CASE m = n
    BY <1>2, <1>7, <1>8, <2>1
  <2>2. CASE m # n
    BY <1>4, <1>6, <1>9, <2>2
  <2> QED BY <2>1, <2>2
<1>11. v \in Sights
  <2>1. v = [m \in DOMAIN v |-> v[m]]
    BY <1>5
  <2>2. DOMAIN v \subseteq Nodes
    BY <1>10
  <2>3. \A m \in DOMAIN v : v[m] \in [ips : SUBSET Addresses, at : 0..MaxTime]
    BY <1>10
  <2> QED BY <2>1, <2>2, <2>3, SightsAt
<1>12. \A m \in DOMAIN v : v[m].at \in 0..MaxTime
  BY <1>10
<1>13. \A m \in DOMAIN seen : m # n /\ at - seen[m].at <= StaleAfter => m \in DOMAIN v /\ v[m] = seen[m]
  BY <1>4, <1>6
<1> QED BY <1>2, <1>8, <1>10, <1>11, <1>12, <1>13

\* A step inside a transaction.
LEMMA DeviceMoves ==
  ASSUME DeviceInv, NEW s \in Sessions, NEW c, Moves(s, c), UNCHANGED heard, SessionOK(c),
         \A u \in Limited : AliveKey(u) \in DOMAIN c.own => \A q \in Sessions \ {s} : AliveKey(u) \notin DOMAIN tx[q].own
  PROVE  DeviceInv'
<1>1. \A q \in Sessions : tx'[q] = IF q = s THEN c ELSE tx[q]
  BY DEF Moves, DeviceInv
<1>2. UNCHANGED <<cache, now, commits, heard>> /\ DOMAIN tx' = Sessions
  BY DEF Moves, DeviceInv
<1>3. ASSUME NEW q \in Sessions PROVE SessionOK(tx[q])'
  <2>1. PICK d : d = tx'[q]
    OBVIOUS
  <2>2. SessionOK(d)
    BY <1>1, <2>1 DEF DeviceInv
  <2>3. SessionOK(d)'
    BY <1>2, <2>2 DEF SessionOK, AliveOK, ListOK, Noted, Counts, Written, Live
  <2> QED BY <2>1, <2>3 DEF SessionOK, AliveOK, ListOK, Noted, Counts, Written, Live
<1>4. \A p, q \in Sessions, u \in Limited :
        AliveKey(u) \in DOMAIN tx'[p].own /\ AliveKey(u) \in DOMAIN tx'[q].own => p = q
  BY <1>1 DEF DeviceInv
<1>5. (\A u \in Limited : HeardOK(u)') /\ TableOK'
  BY <1>2 DEF DeviceInv, HeardOK, TableOK, EntryOK, Noted, Counts, Live
<1> QED BY <1>2, <1>3, <1>4, <1>5 DEF DeviceInv

\* What an idle session sees of a user.
LEMMA SeenAt ==
  ASSUME DeviceInv, NEW s \in Sessions, tx[s] = Idle, NEW u \in Limited
  PROVE  /\ Seen(s, u) = IF Live(cache[AliveKey(u)]) THEN cache[AliveKey(u)].value ELSE Nothing
         /\ Get(s, AliveKey(u)) # None <=> Live(cache[AliveKey(u)])
<1>1. AliveKey(u) \notin DOMAIN tx[s].own
  BY NothingAt DEF Idle
<1>2. cache[AliveKey(u)] # None => cache[AliveKey(u)].value # None
  BY AliveAssumption DEF DeviceInv, TableOK, EntryOK
<1>3. Get(s, AliveKey(u)) = IF Live(cache[AliveKey(u)]) THEN cache[AliveKey(u)].value ELSE None
  BY <1>1 DEF Get, Row
<1> QED BY <1>2, <1>3 DEF Seen, Live

\* handle_alive, its read: what was heard and counts is in the entry.
LEMMA SeenIsNoted ==
  ASSUME DeviceInv, NEW u \in Limited, NEW seen,
         seen = IF Live(cache[AliveKey(u)]) THEN cache[AliveKey(u)].value ELSE Nothing
  PROVE  /\ seen \in Sights /\ \A m \in DOMAIN seen : seen[m].at <= now
         /\ Noted(u, seen, now, commits)
<1>0. now \in Nat /\ now \in 0..MaxTime /\ commits \in Nat /\ HeardOK(u)
  BY CacheAssumption DEF DeviceInv
<1>1. PICK row : row = cache[AliveKey(u)]
  OBVIOUS
<1>2. row # None => EntryOK(u, row)
  BY <1>1 DEF DeviceInv, TableOK
<1>3. AliveTtl \in Nat /\ StaleAfter \in Nat /\ StaleAfter < AliveTtl
  BY DeviceAssumption
<1>4. CASE Live(row)
  <2>1. seen = row.value /\ EntryOK(u, row) /\ row.until \in Nat /\ row.until <= now + AliveTtl
    BY <1>1, <1>2, <1>4 DEF Live, EntryOK
  <2>2. seen \in Sights
    BY <2>1 DEF EntryOK
  <2>3. ASSUME NEW m \in DOMAIN seen PROVE seen[m].at <= now
    <3>1. seen[m].at \in 0..MaxTime
      BY <2>2, SightsAt
    <3>2. seen[m].at + AliveTtl <= row.until
      BY <2>1 DEF EntryOK
    <3> QED BY <1>0, <1>3, <2>1, <3>1, <3>2, CacheAssumption
  <2>4. ASSUME NEW n \in Nodes, heard[u][n] # None, heard[u][n].put <= commits, now - heard[u][n].at <= StaleAfter
        PROVE  n \in DOMAIN seen /\ seen[n].ips = heard[u][n].ips /\ seen[n].at = heard[u][n].at
    <3>1. heard[u][n].at \in 0..now
      BY <1>0, <2>4 DEF HeardOK
    <3>2. (row.until - AliveTtl) - heard[u][n].at <= StaleAfter
      BY <1>0, <1>3, <2>1, <2>4, <3>1
    <3>3. Noted(u, row.value, row.until - AliveTtl, commits)
      BY <2>1 DEF EntryOK
    <3> QED BY <2>1, <2>4, <3>2, <3>3 DEF Noted
  <2> QED BY <2>2, <2>3, <2>4 DEF Noted
<1>5. CASE ~Live(row)
  <2>1. seen = Nothing
    BY <1>1, <1>5
  <2>2. seen \in Sights
    <3>1. seen = [m \in DOMAIN seen |-> seen[m]] /\ DOMAIN seen \subseteq Nodes
      BY <2>1 DEF Nothing
    <3>2. \A m \in DOMAIN seen : seen[m] \in [ips : SUBSET Addresses, at : 0..MaxTime]
      BY <2>1, NothingAt
    <3> QED BY <3>1, <3>2, SightsAt
  <2>3. ASSUME NEW n \in Nodes, heard[u][n] # None, now - heard[u][n].at <= StaleAfter PROVE FALSE
    <3>1. heard[u][n].at \in 0..now
      BY <1>0, <2>3 DEF HeardOK
    <3>2. heard[u][n].at + AliveTtl <= now
      <4>1. CASE row = None
        BY <1>0, <1>1, <2>3, <4>1 DEF HeardOK
      <4>2. CASE row # None
        <5>1. row.until \in Nat /\ heard[u][n].at + AliveTtl <= row.until
          BY <1>2, <2>3, <4>2 DEF EntryOK
        <5>2. row.until <= now
          BY <1>0, <1>5, <4>2, <5>1 DEF Live
        <5> QED BY <1>0, <1>3, <3>1, <5>1, <5>2
      <4> QED BY <4>1, <4>2
    <3> QED BY <1>0, <1>3, <2>3, <3>1, <3>2
  <2> QED BY <2>1, <2>2, <2>3, NothingAt DEF Noted
<1> QED BY <1>4, <1>5

\* A report begins.
LEMMA AliveBegins ==
  ASSUME DeviceInv, NEW s \in Sessions, NEW n \in Nodes, NEW users \in SUBSET Limited,
         NEW data \in [users -> (SUBSET Addresses) \ {{}}], Alive(s, n, data)
  PROVE  DeviceInv'
<1>1. PICK seen : seen = [u \in DOMAIN data |-> Seen(s, u)]
  OBVIOUS
<1>2. PICK mem : mem = [node |-> n, at |-> now, data |-> data, todo |-> DOMAIN data, seen |-> seen]
  OBVIOUS
<1>3. mem.node = n /\ mem.at = now /\ mem.data = data /\ mem.todo = DOMAIN data /\ mem.seen = seen
  BY <1>2
<1>4. Begin(s, "Alive", "set", mem, Nothing) /\ UNCHANGED heard
  BY <1>1, <1>2 DEF Alive
<1>5. PICK c : /\ Moves(s, c) /\ c.op = "Alive" /\ c.step = "set" /\ c.mem = mem /\ c.own = Nothing /\ c.began = commits
               /\ tx[s] = Idle
  BY <1>4, BeginAs
<1>6. now \in 0..MaxTime /\ now \in 0..now /\ commits \in Nat /\ commits \in 0..commits
  BY CacheAssumption DEF DeviceInv
<1>7. ASSUME NEW u \in DOMAIN data
      PROVE  /\ data[u] \subseteq Addresses
             /\ seen[u] \in Sights /\ \A m \in DOMAIN seen[u] : seen[u][m].at <= now
             /\ Noted(u, seen[u], now, commits)
  <2>1. u \in Limited /\ data[u] \subseteq Addresses
    OBVIOUS
  <2>2. seen[u] = IF Live(cache[AliveKey(u)]) THEN cache[AliveKey(u)].value ELSE Nothing
    BY <1>1, <1>5, <2>1, SeenAt
  <2> QED BY <2>1, <2>2, SeenIsNoted
<1>8. AliveOK(c)
  <2>1. DOMAIN data \subseteq Limited
    OBVIOUS
  <2>2. \A x : x \notin DOMAIN c.own
    BY <1>5, NothingAt
  <2>3. mem = [node |-> mem.node, at |-> mem.at, data |-> mem.data, todo |-> mem.todo, seen |-> mem.seen]
    BY <1>2
  <2> QED BY <1>3, <1>5, <1>6, <1>7, <2>1, <2>2, <2>3 DEF AliveOK
<1>9. SessionOK(c)
  BY <1>5, <1>6, <1>8 DEF SessionOK
<1> QED BY <1>4, <1>5, <1>9, NothingAt, DeviceMoves

\* get_alive_list reads all entries.
LEMMA ListBegins ==
  ASSUME DeviceInv, NEW s \in Sessions, AliveList(s)
  PROVE  DeviceInv'
<1>1. PICK mem : mem = [u \in {x \in Limited : Get(s, AliveKey(x)) # None} |-> AliveIps(Seen(s, u))]
  OBVIOUS
<1>2. Begin(s, "AliveList", "set", mem, Nothing) /\ UNCHANGED heard
  BY <1>1 DEF AliveList
<1>3. PICK c : /\ Moves(s, c) /\ c.op = "AliveList" /\ c.step = "set" /\ c.mem = mem /\ c.own = Nothing
               /\ c.began = commits /\ tx[s] = Idle
  BY <1>2, BeginAs
<1>4. ASSUME NEW u \in Limited, Live(cache[AliveKey(u)])
      PROVE  u \in DOMAIN mem /\ mem[u] = AliveIps(cache[AliveKey(u)].value)
  <2>1. Seen(s, u) = cache[AliveKey(u)].value /\ Get(s, AliveKey(u)) # None
    BY <1>3, <1>4, SeenAt
  <2> QED BY <1>1, <2>1
<1>5. Counts(c.mem, c.began)
  BY <1>3, <1>4 DEF Counts
<1>6. commits \in 0..commits
  BY DEF DeviceInv
<1>7. SessionOK(c)
  BY <1>3, <1>5, <1>6, NothingAt DEF SessionOK, ListOK
<1> QED BY <1>2, <1>3, <1>7, NothingAt, DeviceMoves

\* A report writes the entry of one user.
LEMMA AliveSets ==
  ASSUME DeviceInv, NEW s \in Sessions, NEW u \in Limited, SetAlive(s, u)
  PROVE  DeviceInv'
<1>1. PICK b : b = tx[s]
  OBVIOUS
<1>2. PICK mem : mem = [b.mem EXCEPT !.todo = b.mem.todo \ {u}]
  OBVIOUS
<1>3. PICK v : v = Merged(b.mem.seen[u], b.mem.node, b.mem.data[u], b.mem.at)
  OBVIOUS
<1>4. PICK row : row = Entry(v, now + AliveTtl)
  OBVIOUS
<1>5. PICK own : own = With(b.own, AliveKey(u), row)
  OBVIOUS
<1>6. /\ Continue(s, "set", mem, own) /\ UNCHANGED heard
      /\ b.op = "Alive" /\ b.step = "set" /\ u \in b.mem.todo /\ Unlocked(s, AliveKey(u))
  BY <1>1, <1>2, <1>3, <1>4, <1>5 DEF SetAlive, Put
<1>7. PICK c : Moves(s, c) /\ c.op = "Alive" /\ c.step = "set" /\ c.mem = mem /\ c.own = own /\ c.began = b.began
  BY <1>1, <1>6, ContinueAs
<1>8. SessionOK(b) /\ AliveOK(b)
  BY <1>1, <1>6 DEF DeviceInv, SessionOK
<1>9. now \in 0..MaxTime /\ now \in Nat /\ AliveTtl \in Nat /\ HeardOK(u)
  BY CacheAssumption, DeviceAssumption DEF DeviceInv
<1>10. mem.node = b.mem.node /\ mem.at = b.mem.at /\ mem.data = b.mem.data /\ mem.seen = b.mem.seen
       /\ mem.todo = b.mem.todo \ {u}
       /\ mem = [node |-> mem.node, at |-> mem.at, data |-> mem.data, todo |-> mem.todo, seen |-> mem.seen]
  <2>1. b.mem = [node |-> b.mem.node, at |-> b.mem.at, data |-> b.mem.data, todo |-> b.mem.todo, seen |-> b.mem.seen]
    BY <1>8 DEF AliveOK
  <2>2. mem = [node |-> b.mem.node, at |-> b.mem.at, data |-> b.mem.data, todo |-> b.mem.todo \ {u}, seen |-> b.mem.seen]
    BY <1>2, <2>1
  <2> QED BY <2>2
<1>11. row.value = v /\ row.until = now + AliveTtl
  BY <1>4 DEF Entry
<1>12. b.mem.at \in 0..now
  BY <1>8 DEF AliveOK
<1>13. row # None
  <2>1. v \in Sights
    <3>1. /\ b.mem.seen[u] \in Sights /\ b.mem.node \in Nodes /\ b.mem.data[u] \in SUBSET Addresses
          /\ \A m \in DOMAIN b.mem.seen[u] : b.mem.seen[u][m].at <= b.mem.at
      BY <1>6, <1>8 DEF AliveOK
    <3>2. b.mem.at \in 0..MaxTime
      BY <1>9, <1>12, CacheAssumption
    <3>3. PICK seen, n, ips, at : seen = b.mem.seen[u] /\ n = b.mem.node /\ ips = b.mem.data[u] /\ at = b.mem.at
      OBVIOUS
    <3>4. seen \in Sights /\ n \in Nodes /\ ips \in SUBSET Addresses /\ at \in 0..MaxTime
          /\ (\A m \in DOMAIN seen : seen[m].at <= at) /\ v = Merged(seen, n, ips, at)
      BY <1>3, <3>1, <3>2, <3>3
    <3> QED BY <3>4, MergedAt
  <2>2. row \in [value : Sights, until : Nat, began : Nat, put : Nat]
    BY <1>4, <1>9, <2>1 DEF Entry
  <2> QED BY <2>2, AliveAssumption
<1>14. Written(c, u, row)
  <2>1. row.value = Merged(c.mem.seen[u], c.mem.node, c.mem.data[u], c.mem.at)
    BY <1>3, <1>7, <1>10, <1>11
  <2>2. row.until \in Nat /\ c.mem.at + AliveTtl <= row.until /\ row.until <= now + AliveTtl
    BY <1>7, <1>9, <1>10, <1>11, <1>12
  <2>3. ASSUME NEW n \in Nodes, heard[u][n] # None PROVE heard[u][n].at + AliveTtl <= row.until
    <3>1. heard[u][n].at \in 0..now
      BY <1>9, <2>3 DEF HeardOK
    <3> QED BY <1>9, <1>11, <3>1
  <2> QED BY <1>13, <2>1, <2>2, <2>3 DEF Written
<1>15. \A x : (x \in DOMAIN own <=> x = AliveKey(u) \/ x \in DOMAIN b.own)
              /\ own[AliveKey(u)] = row /\ (x # AliveKey(u) /\ x \in DOMAIN b.own => own[x] = b.own[x])
  BY <1>5, WithAt
<1>16. ASSUME NEW w \in Limited, AliveKey(w) \in DOMAIN c.own PROVE Written(c, w, c.own[AliveKey(w)])
  <2>1. CASE w = u
    BY <1>7, <1>14, <1>15, <2>1
  <2>2. CASE w # u
    <3>1. AliveKey(w) \in DOMAIN b.own /\ c.own[AliveKey(w)] = b.own[AliveKey(w)]
      BY <1>7, <1>15, <1>16, <2>2, AliveKeys
    <3>2. Written(b, w, b.own[AliveKey(w)])
      BY <1>8, <3>1 DEF AliveOK
    <3> QED BY <1>7, <1>10, <3>1, <3>2 DEF Written
  <2> QED BY <2>1, <2>2
<1>17. AliveOK(c)
  <2>1. \A w \in DOMAIN c.mem.data :
       /\ c.mem.data[w] \subseteq Addresses
       /\ c.mem.seen[w] \in Sights /\ \A m \in DOMAIN c.mem.seen[w] : c.mem.seen[w][m].at <= c.mem.at
       /\ Noted(w, c.mem.seen[w], c.mem.at, c.began)
    BY <1>7, <1>8, <1>10 DEF AliveOK
  <2>2. \A w \in Limited : AliveKey(w) \in DOMAIN c.own <=> w \in DOMAIN c.mem.data /\ w \notin c.mem.todo
    <3>1. \A w \in Limited : AliveKey(w) \in DOMAIN b.own <=> w \in DOMAIN b.mem.data /\ w \notin b.mem.todo
      BY <1>8 DEF AliveOK
    <3>2. u \in DOMAIN b.mem.data
      BY <1>6, <1>8 DEF AliveOK
    <3> QED BY <1>7, <1>10, <1>15, <3>1, <3>2, AliveKeys
  <2>3. ListKey \in DOMAIN c.own => c.own[ListKey] = None
    <3>1. ListKey \in DOMAIN b.own => b.own[ListKey] = None
      BY <1>8 DEF AliveOK
    <3> QED BY <1>7, <1>15, <3>1, AliveKeys
  <2>4. c.mem.node \in Nodes /\ c.mem.at \in 0..now /\ DOMAIN c.mem.data \subseteq Limited /\ c.mem.todo \subseteq DOMAIN c.mem.data
    BY <1>7, <1>8, <1>10 DEF AliveOK
  <2> QED BY <1>7, <1>10, <1>16, <2>1, <2>2, <2>3, <2>4 DEF AliveOK
<1>18. SessionOK(c)
  BY <1>7, <1>8, <1>17 DEF SessionOK
<1>19. \A w \in Limited : AliveKey(w) \in DOMAIN c.own => \A q \in Sessions \ {s} : AliveKey(w) \notin DOMAIN tx[q].own
  BY <1>1, <1>6, <1>7, <1>15, AliveKeys DEF DeviceInv, Unlocked
<1> QED BY <1>6, <1>7, <1>18, <1>19, DeviceMoves

\* ... and drops the list.
LEMMA AliveDrops ==
  ASSUME DeviceInv, NEW s \in Sessions, DropList(s)
  PROVE  DeviceInv'
<1>1. PICK b : b = tx[s]
  OBVIOUS
<1>2. PICK mem : mem = b.mem
  OBVIOUS
<1>3. PICK own : own = Drop(b.own, ListKey)
  OBVIOUS
<1>4. /\ Continue(s, "reported", mem, own) /\ UNCHANGED heard
      /\ b.op = "Alive" /\ b.step = "set" /\ b.mem.todo = {}
  BY <1>1, <1>2, <1>3 DEF DropList, WithoutList
<1>5. PICK c : Moves(s, c) /\ c.op = "Alive" /\ c.step = "reported" /\ c.mem = b.mem /\ c.own = own /\ c.began = b.began
  BY <1>1, <1>2, <1>4, ContinueAs
<1>6. SessionOK(b) /\ AliveOK(b)
  BY <1>1, <1>4 DEF DeviceInv, SessionOK
<1>7. \/ own = b.own /\ ListKey \notin DOMAIN own /\ cache[ListKey] = None
      \/ own = With(b.own, ListKey, None)
  BY <1>3 DEF Drop
<1>8. \A u \in Limited : AliveKey(u) # ListKey
  BY AliveKeys
<1>9. /\ \A u \in Limited : /\ AliveKey(u) \in DOMAIN own <=> AliveKey(u) \in DOMAIN b.own
                            /\ AliveKey(u) \in DOMAIN own => own[AliveKey(u)] = b.own[AliveKey(u)]
      /\ ListKey \in DOMAIN own => own[ListKey] = None
      /\ ListKey \notin DOMAIN own => cache[ListKey] = None
  BY <1>7, <1>8, WithAt
<1>10. AliveOK(c)
  BY <1>4, <1>5, <1>6, <1>9 DEF AliveOK, Written
<1>11. SessionOK(c)
  BY <1>5, <1>6, <1>10 DEF SessionOK
<1>12. \A u \in Limited : AliveKey(u) \in DOMAIN c.own => \A q \in Sessions \ {s} : AliveKey(u) \notin DOMAIN tx[q].own
  BY <1>1, <1>5, <1>9 DEF DeviceInv
<1> QED BY <1>4, <1>5, <1>11, <1>12, DeviceMoves

\* get_alive_list fills the cache.
LEMMA ListSets ==
  ASSUME DeviceInv, NEW s \in Sessions, SetList(s)
  PROVE  DeviceInv'
<1>1. PICK b : b = tx[s]
  OBVIOUS
<1>2. PICK row : row = Entry(b.mem, now + ListTtl)
  OBVIOUS
<1>3. PICK own : own = With(b.own, ListKey, row)
  OBVIOUS
<1>4. Continue(s, "listed", None, own) /\ UNCHANGED heard /\ b.op = "AliveList" /\ b.step = "set"
  BY <1>1, <1>2, <1>3 DEF SetList, Put
<1>5. PICK c : Moves(s, c) /\ c.op = "AliveList" /\ c.step = "listed" /\ c.own = own /\ c.began = b.began
  BY <1>1, <1>4, ContinueAs
<1>6. SessionOK(b) /\ ListOK(b)
  BY <1>1, <1>4 DEF DeviceInv, SessionOK
<1>7. row.value = b.mem /\ Counts(b.mem, b.began) /\ \A u \in Limited : AliveKey(u) \notin DOMAIN b.own
  BY <1>2, <1>4, <1>6 DEF ListOK, Entry
<1>8. \A u \in Limited : AliveKey(u) # ListKey
  BY AliveKeys
<1>9. ListKey \in DOMAIN own /\ own[ListKey] = row /\ \A u \in Limited : AliveKey(u) \notin DOMAIN own
  BY <1>3, <1>7, <1>8, WithAt
<1>10. ListOK(c)
  BY <1>5, <1>7, <1>9 DEF ListOK
<1>11. SessionOK(c)
  BY <1>5, <1>6, <1>10 DEF SessionOK
<1> QED BY <1>4, <1>5, <1>9, <1>11, DeviceMoves
\* What a commit means for the others.
LEMMA DeviceOthers ==
  ASSUME DeviceInv, NEW s \in Sessions, tx' = [tx EXCEPT ![s] = Idle], commits' = commits + 1, now' = now,
         \A u \in Limited, n \in Nodes : heard'[u][n] # None =>
           heard'[u][n] = heard[u][n] \/ heard'[u][n].put = commits + 1,
         \A u \in Limited : cache'[AliveKey(u)] # None =>
           cache'[AliveKey(u)] = cache[AliveKey(u)] \/ cache'[AliveKey(u)].put = commits + 1,
         \A u \in Limited, q \in Sessions \ {s} : AliveKey(u) \in DOMAIN tx[q].own => heard'[u] = heard[u],
         cache'[ListKey] # None => cache'[ListKey] = cache[ListKey] \/ cache'[ListKey].put = commits + 1
  PROVE  /\ \A q \in Sessions : SessionOK(tx[q])'
         /\ \A p, q \in Sessions, u \in Limited :
              AliveKey(u) \in DOMAIN tx'[p].own /\ AliveKey(u) \in DOMAIN tx'[q].own => p = q
         /\ \A list, began : began \in 0..commits /\ Counts(list, began) => Counts(list, began)'
         /\ \A u \in Limited : \A seen, at, began : began \in 0..commits /\ Noted(u, seen, at, began) => Noted(u, seen, at, began)'
<1>1. \A q \in Sessions : tx'[q] = IF q = s THEN Idle ELSE tx[q]
  BY DEF DeviceInv
<1>2. commits \in Nat /\ 0..commits \subseteq 0..commits' /\ \A n \in 0..commits : n < commits + 1 /\ ~(commits + 1 <= n)
  BY DEF DeviceInv
<1>3. ASSUME NEW list, NEW began \in 0..commits, Counts(list, began) PROVE Counts(list, began)'
  <2>1. SUFFICES ASSUME NEW u \in Limited, cache'[AliveKey(u)] # None, cache'[AliveKey(u)].until > now,
                        cache'[AliveKey(u)].put <= began
                 PROVE  u \in DOMAIN list /\ list[u] = AliveIps(cache'[AliveKey(u)].value)
    BY DEF Counts, Live
  <2>2. cache'[AliveKey(u)] = cache[AliveKey(u)]
    BY <1>2, <2>1
  <2> QED BY <1>3, <2>1, <2>2 DEF Counts, Live
<1>4. ASSUME NEW u \in Limited, NEW seen, NEW at, NEW began \in 0..commits, Noted(u, seen, at, began)
      PROVE  Noted(u, seen, at, began)'
  BY <1>2, <1>4 DEF Noted
<1>5. ASSUME NEW q \in Sessions PROVE SessionOK(tx[q])'
  <2>1. PICK d : d = tx'[q]
    OBVIOUS
  <2>2. CASE q = s
    <3>1. d = Idle
      BY <1>1, <2>1, <2>2
    <3>2. d.op = "idle" /\ d.own = Nothing /\ d.began = 0 /\ 0 \in 0..commits'
      BY <1>2, <3>1 DEF Idle
    <3> QED BY <2>1, <3>2 DEF SessionOK
  <2>3. CASE q # s
    <3>1. d = tx[q] /\ SessionOK(d)
      BY <1>1, <2>1, <2>3 DEF DeviceInv
    <3>2. d.began \in 0..commits /\ d.began \in 0..commits' /\ d.began < commits + 1
      BY <1>2, <3>1 DEF SessionOK
    <3>3. d.op = "AliveList" => ListOK(d)'
      BY <1>3, <3>1, <3>2 DEF SessionOK, ListOK
    <3>4. ASSUME d.op = "Alive" PROVE AliveOK(d)'
      <4>1. AliveOK(d)
        BY <3>1, <3>4 DEF SessionOK
      <4>2. \A u \in DOMAIN d.mem.data : Noted(u, d.mem.seen[u], d.mem.at, d.began)'
        BY <1>4, <3>2, <4>1 DEF AliveOK
      <4>3. \A u \in Limited : AliveKey(u) \in DOMAIN d.own => Written(d, u, d.own[AliveKey(u)])'
        <5>1. SUFFICES ASSUME NEW u \in Limited, AliveKey(u) \in DOMAIN d.own
                       PROVE  Written(d, u, d.own[AliveKey(u)])'
          OBVIOUS
        <5>2. heard'[u] = heard[u]
          BY <2>3, <3>1, <5>1
        <5>3. Written(d, u, d.own[AliveKey(u)])
          BY <4>1, <5>1 DEF AliveOK
        <5> QED BY <5>2, <5>3 DEF Written
      <4>4. d.step # "set" =>
              /\ d.mem.todo = {}
              /\ ListKey \notin DOMAIN d.own /\ cache'[ListKey] # None => d.began < cache'[ListKey].put
        BY <3>2, <4>1 DEF AliveOK
      <4> QED BY <4>1, <4>2, <4>3, <4>4 DEF AliveOK
    <3> QED BY <2>1, <3>1, <3>2, <3>3, <3>4 DEF SessionOK, ListOK, AliveOK, Counts, Noted, Written, Live
  <2> QED BY <2>2, <2>3
<1>6. ASSUME NEW p \in Sessions, NEW q \in Sessions, NEW u \in Limited,
             AliveKey(u) \in DOMAIN tx'[p].own, AliveKey(u) \in DOMAIN tx'[q].own
      PROVE  p = q
  <2>1. AliveKey(u) \notin DOMAIN Idle.own
    BY NothingAt DEF Idle
  <2> QED BY <1>1, <1>6, <2>1 DEF DeviceInv
<1> QED BY <1>3, <1>4, <1>5, <1>6

\* What a report has written of a user, as the entry it will be.
LEMMA WrittenEntry ==
  ASSUME DeviceInv, NEW c, AliveOK(c), c.began \in 0..commits, NEW u \in DOMAIN c.mem.data, NEW row, Written(c, u, row),
         NEW new, new = [value |-> row.value, until |-> row.until, began |-> c.began, put |-> commits + 1],
         NEW h, \A n \in Nodes : h[n] # None =>
           \/ n = c.mem.node /\ h[n] = [ips |-> c.mem.data[u], at |-> c.mem.at, put |-> commits + 1]
           \/ n # c.mem.node /\ h[n] = heard[u][n] /\ ~(heard[u][n].put > c.began)
  PROVE  /\ new # None /\ new.value \in Sights /\ new.until \in Nat /\ new.until <= now + AliveTtl
         /\ new.began = c.began /\ new.put = commits + 1
         /\ \A m \in DOMAIN new.value : new.value[m].at + AliveTtl <= new.until
         /\ \A m, n \in DOMAIN new.value : new.value[m].at - new.value[n].at <= StaleAfter
         /\ \A n \in Nodes : h[n] # None =>
              /\ h[n].at \in 0..now /\ h[n].put \in 0..(commits + 1) /\ h[n].at + AliveTtl <= new.until
              /\ (new.until - AliveTtl) - h[n].at <= StaleAfter =>
                   n \in DOMAIN new.value /\ new.value[n].ips = h[n].ips /\ new.value[n].at = h[n].at
              /\ h[n] = heard[u][n] \/ h[n].put = commits + 1
<1>1. PICK seen, node, ips, at, v : /\ seen = c.mem.seen[u] /\ node = c.mem.node /\ ips = c.mem.data[u] /\ at = c.mem.at
                                    /\ v = row.value
  OBVIOUS
<1>2. /\ now \in 0..MaxTime /\ now \in Nat /\ commits \in Nat /\ AliveTtl \in Nat /\ StaleAfter \in Nat /\ HeardOK(u)
      /\ u \in Limited
  BY CacheAssumption, DeviceAssumption DEF DeviceInv, AliveOK
<1>3. /\ seen \in Sights /\ node \in Nodes /\ ips \in SUBSET Addresses /\ at \in 0..now
      /\ (\A m \in DOMAIN seen : seen[m].at <= at) /\ Noted(u, seen, at, c.began)
  BY <1>1 DEF AliveOK
<1>4. at \in 0..MaxTime /\ at \in Nat
  BY <1>2, <1>3, CacheAssumption
<1>5. v = Merged(seen, node, ips, at)
  BY <1>1 DEF Written
<1>6. /\ v \in Sights /\ node \in DOMAIN v /\ v[node].ips = ips /\ v[node].at = at
      /\ \A m \in DOMAIN v : v[m].at \in 0..MaxTime /\ v[m].at <= at /\ at - v[m].at <= StaleAfter
      /\ \A m \in DOMAIN seen : m # node /\ at - seen[m].at <= StaleAfter => m \in DOMAIN v /\ v[m] = seen[m]
  <2>1. /\ seen \in Sights /\ node \in Nodes /\ ips \in SUBSET Addresses /\ at \in 0..MaxTime
        /\ \A m \in DOMAIN seen : seen[m].at <= at
        /\ v = Merged(seen, node, ips, at)
    BY <1>3, <1>4, <1>5
  <2>2. v \in Sights /\ node \in DOMAIN v /\ v[node].ips = ips /\ v[node].at = at
    BY <2>1, MergedAt
  <2>3. \A m \in DOMAIN v : v[m].at \in 0..MaxTime /\ v[m].at <= at /\ at - v[m].at <= StaleAfter
    BY <2>1, MergedAt
  <2>4. \A m \in DOMAIN seen : m # node /\ at - seen[m].at <= StaleAfter => m \in DOMAIN v /\ v[m] = seen[m]
    BY <2>1, MergedAt
  <2> QED BY <2>2, <2>3, <2>4
<1>7. row.until \in Nat /\ at + AliveTtl <= row.until /\ row.until <= now + AliveTtl
      /\ \A n \in Nodes : heard[u][n] # None => heard[u][n].at + AliveTtl <= row.until
  BY <1>1 DEF Written
<1>8. new.value = v /\ new.until = row.until /\ new.began = c.began /\ new.put = commits + 1
  BY <1>1
<1>9. new # None
  <2>1. c.began \in Nat /\ commits + 1 \in Nat
    BY <1>2
  <2>2. new \in [value : Sights, until : Nat, began : Nat, put : Nat]
    BY <1>1, <1>6, <1>7, <2>1
  <2> QED BY <2>2, AliveAssumption
<1>10. \A m \in DOMAIN v : v[m].at + AliveTtl <= row.until
  <2>1. \A m \in DOMAIN v : v[m].at \in Nat /\ v[m].at <= at
    BY <1>6, CacheAssumption
  <2> QED BY <1>2, <1>4, <1>7, <2>1
<1>11. \A m, n \in DOMAIN v : v[m].at - v[n].at <= StaleAfter
  <2>1. \A m \in DOMAIN v : v[m].at \in Nat /\ v[m].at <= at /\ at - v[m].at <= StaleAfter
    BY <1>6, CacheAssumption
  <2> QED BY <1>2, <1>4, <2>1
<1>12. ASSUME NEW n \in Nodes, h[n] # None
       PROVE  /\ h[n].at \in 0..now /\ h[n].put \in 0..(commits + 1) /\ h[n].at + AliveTtl <= row.until
              /\ (row.until - AliveTtl) - h[n].at <= StaleAfter => n \in DOMAIN v /\ v[n].ips = h[n].ips /\ v[n].at = h[n].at
              /\ h[n] = heard[u][n] \/ h[n].put = commits + 1
  <2>1. CASE n = node
    <3>1. h[n] = [ips |-> ips, at |-> at, put |-> commits + 1]
      BY <1>1, <1>12, <2>1
    <3>2. h[n].ips = ips /\ h[n].at = at /\ h[n].put = commits + 1
      BY <3>1
    <3>3. commits + 1 \in 0..(commits + 1)
      BY <1>2
    <3> QED BY <1>3, <1>6, <1>7, <2>1, <3>2, <3>3
  <2>2. CASE n # node
    <3>1. h[n] = heard[u][n] /\ ~(heard[u][n].put > c.began) /\ heard[u][n] # None
      BY <1>1, <1>12, <2>2
    <3>2. heard[u][n].at \in 0..now /\ heard[u][n].put \in 0..commits
      BY <1>2, <3>1 DEF HeardOK
    <3>3. heard[u][n].put <= c.began /\ heard[u][n].put \in 0..(commits + 1)
      BY <1>2, <3>1, <3>2
    <3>4. ASSUME (row.until - AliveTtl) - heard[u][n].at <= StaleAfter
          PROVE  n \in DOMAIN v /\ v[n].ips = heard[u][n].ips /\ v[n].at = heard[u][n].at
      <4>1. at - heard[u][n].at <= StaleAfter
        BY <1>2, <1>4, <1>7, <3>2, <3>4
      <4>2. n \in DOMAIN seen /\ seen[n].ips = heard[u][n].ips /\ seen[n].at = heard[u][n].at
        BY <1>3, <3>1, <3>3, <4>1 DEF Noted
      <4> QED BY <1>6, <2>2, <4>1, <4>2
    <3> QED BY <1>7, <3>1, <3>2, <3>3, <3>4
  <2> QED BY <2>1, <2>2
<1> QED BY <1>6, <1>7, <1>8, <1>9, <1>10, <1>11, <1>12

\* A report is committed.
LEMMA AliveCommits ==
  ASSUME DeviceInv, NEW s \in Sessions, CommitAlive(s)
  PROVE  DeviceInv'
<1>1. PICK c, mem, own : c = tx[s] /\ mem = c.mem /\ own = c.own
  OBVIOUS
<1>2. c.op = "Alive" /\ c.step = "reported" /\ CommitRows(s, own)
  BY <1>1 DEF CommitAlive, Commit
<1>3. SessionOK(c) /\ AliveOK(c) /\ c.began \in 0..commits /\ commits \in Nat
  BY <1>1, <1>2 DEF DeviceInv, SessionOK
<1>4. \A u \in Limited : AliveKey(u) \in DOMAIN own <=> u \in DOMAIN mem.data
  BY <1>1, <1>2, <1>3 DEF AliveOK
<1>5. tx' = [tx EXCEPT ![s] = Idle] /\ commits' = commits + 1 /\ now' = now
  BY <1>2, CommitAs
<1>6. ASSUME NEW u \in Limited, u \notin DOMAIN mem.data
      PROVE  heard'[u] = heard[u] /\ cache'[AliveKey(u)] = cache[AliveKey(u)]
  <2>1. heard'[u] = heard[u]
    BY <1>1, <1>6 DEF CommitAlive
  <2>2. AliveKey(u) \notin DOMAIN own /\ AliveKey(u) \in Keys
    BY <1>4, <1>6, AliveKeys
  <2> QED BY <1>2, <2>1, <2>2, CommitAt
<1>7. ASSUME NEW u \in DOMAIN mem.data
      PROVE  \A n \in Nodes : heard'[u][n] # None =>
               \/ n = mem.node /\ heard'[u][n] = [ips |-> mem.data[u], at |-> mem.at, put |-> commits + 1]
               \/ n # mem.node /\ heard'[u][n] = heard[u][n] /\ ~(heard[u][n].put > c.began)
  <2>0. u \in Limited
    BY <1>1, <1>3 DEF AliveOK
  <2>1. ASSUME NEW n \in Nodes
        PROVE  heard'[u][n] = IF n = mem.node THEN [ips |-> mem.data[u], at |-> mem.at, put |-> commits + 1]
                              ELSE IF heard[u][n] # None /\ heard[u][n].put > c.began THEN None
                              ELSE heard[u][n]
    BY <1>1, <1>7, <2>0 DEF CommitAlive
  <2>2. SUFFICES ASSUME NEW n \in Nodes, heard'[u][n] # None
                 PROVE  \/ n = mem.node /\ heard'[u][n] = [ips |-> mem.data[u], at |-> mem.at, put |-> commits + 1]
                        \/ n # mem.node /\ heard'[u][n] = heard[u][n] /\ ~(heard[u][n].put > c.began)
    OBVIOUS
  <2>3. CASE n = mem.node
    BY <2>1, <2>3
  <2>4. CASE n # mem.node
    BY <2>1, <2>2, <2>4
  <2> QED BY <2>3, <2>4
<1>8. ASSUME NEW u \in DOMAIN mem.data
      PROVE  \E new, h :
               /\ new = cache'[AliveKey(u)] /\ h = heard'[u]
               /\ new # None /\ new.value \in Sights /\ new.until \in Nat /\ new.until <= now + AliveTtl
               /\ new.began = c.began /\ new.put = commits + 1
               /\ \A m \in DOMAIN new.value : new.value[m].at + AliveTtl <= new.until
               /\ \A m, n \in DOMAIN new.value : new.value[m].at - new.value[n].at <= StaleAfter
               /\ \A n \in Nodes : h[n] # None =>
                    /\ h[n].at \in 0..now /\ h[n].put \in 0..(commits + 1) /\ h[n].at + AliveTtl <= new.until
                    /\ (new.until - AliveTtl) - h[n].at <= StaleAfter =>
                         n \in DOMAIN new.value /\ new.value[n].ips = h[n].ips /\ new.value[n].at = h[n].at
                    /\ h[n] = heard[u][n] \/ h[n].put = commits + 1
  <2>0. u \in Limited /\ AliveKey(u) \in DOMAIN own /\ AliveKey(u) \in Keys
    <3>1. u \in Limited
      BY <1>1, <1>3 DEF AliveOK
    <3> QED BY <1>4, <3>1, AliveKeys
  <2>1. PICK row : row = own[AliveKey(u)]
    OBVIOUS
  <2>2. Written(c, u, row)
    BY <1>1, <1>3, <2>0, <2>1 DEF AliveOK
  <2>3. PICK new : new = cache'[AliveKey(u)]
    OBVIOUS
  <2>4. row # None
    BY <2>2 DEF Written
  <2>5. new = [value |-> row.value, until |-> row.until, began |-> c.began, put |-> commits + 1]
    BY <1>1, <1>2, <2>0, <2>1, <2>3, <2>4, CommitAt
  <2>6. PICK h : h = heard'[u]
    OBVIOUS
  <2>7. \A n \in Nodes : h[n] # None =>
           \/ n = c.mem.node /\ h[n] = [ips |-> c.mem.data[u], at |-> c.mem.at, put |-> commits + 1]
           \/ n # c.mem.node /\ h[n] = heard[u][n] /\ ~(heard[u][n].put > c.began)
    BY <1>1, <1>7, <2>6
  <2>8. u \in DOMAIN c.mem.data
    BY <1>1
  <2>9. /\ new # None /\ new.value \in Sights /\ new.until \in Nat /\ new.until <= now + AliveTtl
        /\ new.began = c.began /\ new.put = commits + 1
        /\ \A m \in DOMAIN new.value : new.value[m].at + AliveTtl <= new.until
        /\ \A m, n \in DOMAIN new.value : new.value[m].at - new.value[n].at <= StaleAfter
        /\ \A n \in Nodes : h[n] # None =>
              /\ h[n].at \in 0..now /\ h[n].put \in 0..(commits + 1) /\ h[n].at + AliveTtl <= new.until
              /\ (new.until - AliveTtl) - h[n].at <= StaleAfter =>
                   n \in DOMAIN new.value /\ new.value[n].ips = h[n].ips /\ new.value[n].at = h[n].at
              /\ h[n] = heard[u][n] \/ h[n].put = commits + 1
    BY <1>3, <2>2, <2>5, <2>7, <2>8, WrittenEntry
  <2> QED BY <2>3, <2>6, <2>9
<1>9. ListKey \in DOMAIN own => cache'[ListKey] = None
  <2>1. ListKey \in DOMAIN own => own[ListKey] = None
    BY <1>1, <1>3 DEF AliveOK
  <2> QED BY <1>2, <2>1, AliveKeys, CommitAt
<1>10. ListKey \notin DOMAIN own => cache'[ListKey] = cache[ListKey] /\ (cache[ListKey] # None => c.began < cache[ListKey].put)
  <2>1. ListKey \notin DOMAIN own /\ cache[ListKey] # None => c.began < cache[ListKey].put
    BY <1>1, <1>2, <1>3 DEF AliveOK
  <2> QED BY <1>2, <2>1, AliveKeys, CommitAt
<1>11. ASSUME NEW u \in Limited, NEW n \in Nodes, heard'[u][n] # None
       PROVE  heard'[u][n] = heard[u][n] \/ heard'[u][n].put = commits + 1
  <2>1. CASE u \notin DOMAIN mem.data
    BY <1>6, <2>1
  <2>2. CASE u \in DOMAIN mem.data
    <3>1. \/ n = mem.node /\ heard'[u][n] = [ips |-> mem.data[u], at |-> mem.at, put |-> commits + 1]
          \/ heard'[u][n] = heard[u][n]
      BY <1>7, <1>11, <2>2
    <3>2. PICK put : put = commits + 1
      OBVIOUS
    <3>3. \/ heard'[u][n] = [ips |-> mem.data[u], at |-> mem.at, put |-> put]
          \/ heard'[u][n] = heard[u][n]
      BY <3>1, <3>2
    <3> QED BY <3>2, <3>3
  <2> QED BY <2>1, <2>2
<1>12. ASSUME NEW u \in Limited, cache'[AliveKey(u)] # None
       PROVE  cache'[AliveKey(u)] = cache[AliveKey(u)] \/ cache'[AliveKey(u)].put = commits + 1
  BY <1>6, <1>8
<1>13. ASSUME NEW u \in Limited, NEW q \in Sessions \ {s}, AliveKey(u) \in DOMAIN tx[q].own
       PROVE  heard'[u] = heard[u]
  BY <1>1, <1>4, <1>6, <1>13 DEF DeviceInv
<1>14. cache'[ListKey] # None => cache'[ListKey] = cache[ListKey] \/ cache'[ListKey].put = commits + 1
  BY <1>9, <1>10
<1>15. /\ \A q \in Sessions : SessionOK(tx[q])'
       /\ \A p, q \in Sessions, u \in Limited :
            AliveKey(u) \in DOMAIN tx'[p].own /\ AliveKey(u) \in DOMAIN tx'[q].own => p = q
       /\ \A list, began : began \in 0..commits /\ Counts(list, began) => Counts(list, began)'
       /\ \A u \in Limited : \A seen, at, began : began \in 0..commits /\ Noted(u, seen, at, began) => Noted(u, seen, at, began)'
  BY <1>5, <1>11, <1>12, <1>13, <1>14, DeviceOthers
<1>16. now' = now /\ 0..commits \subseteq 0..commits' /\ commits \in 0..commits /\ commits' \in 0..commits'
  BY <1>3, <1>5
<1>17. ASSUME NEW u \in Limited PROVE HeardOK(u)'
  <2>1. CASE u \in DOMAIN mem.data
    <3>0. PICK entry, h :
               /\ entry = cache'[AliveKey(u)] /\ h = heard'[u]
               /\ entry # None /\ entry.value \in Sights /\ entry.until \in Nat /\ entry.until <= now + AliveTtl
               /\ entry.began = c.began /\ entry.put = commits + 1
               /\ \A m \in DOMAIN entry.value : entry.value[m].at + AliveTtl <= entry.until
               /\ \A m, n \in DOMAIN entry.value : entry.value[m].at - entry.value[n].at <= StaleAfter
               /\ \A n \in Nodes : h[n] # None =>
                    /\ h[n].at \in 0..now /\ h[n].put \in 0..(commits + 1) /\ h[n].at + AliveTtl <= entry.until
                    /\ (entry.until - AliveTtl) - h[n].at <= StaleAfter =>
                         n \in DOMAIN entry.value /\ entry.value[n].ips = h[n].ips /\ entry.value[n].at = h[n].at
                    /\ h[n] = heard[u][n] \/ h[n].put = commits + 1
      BY <1>8, <2>1
    <3>1. /\ cache'[AliveKey(u)] # None
          /\ \A n \in Nodes : heard'[u][n] # None => heard'[u][n].at \in 0..now /\ heard'[u][n].put \in 0..(commits + 1)
      <4>1. cache'[AliveKey(u)] # None /\ h = heard'[u]
        BY <3>0
      <4>2. \A n \in Nodes : h[n] # None => h[n].at \in 0..now /\ h[n].put \in 0..(commits + 1)
        BY <3>0
      <4> QED BY <4>1, <4>2
    <3>2. /\ cache'[AliveKey(u)] # None
          /\ \A n \in Nodes : heard'[u][n] # None => heard'[u][n].at \in 0..now' /\ heard'[u][n].put \in 0..commits'
      BY <1>5, <3>1
    <3> QED BY <3>2 DEF HeardOK
  <2>2. CASE u \notin DOMAIN mem.data
    BY <1>6, <1>16, <2>2 DEF DeviceInv, HeardOK
  <2> QED BY <2>1, <2>2
<1>18. ASSUME NEW u \in Limited, cache'[AliveKey(u)] # None PROVE EntryOK(u, cache[AliveKey(u)])'
  <2>1. PICK new : new = cache'[AliveKey(u)]
    OBVIOUS
  <2>2. CASE u \in DOMAIN mem.data
    <3>0. PICK entry, h :
               /\ entry = cache'[AliveKey(u)] /\ h = heard'[u]
               /\ entry # None /\ entry.value \in Sights /\ entry.until \in Nat /\ entry.until <= now + AliveTtl
               /\ entry.began = c.began /\ entry.put = commits + 1
               /\ \A m \in DOMAIN entry.value : entry.value[m].at + AliveTtl <= entry.until
               /\ \A m, n \in DOMAIN entry.value : entry.value[m].at - entry.value[n].at <= StaleAfter
               /\ \A n \in Nodes : h[n] # None =>
                    /\ h[n].at \in 0..now /\ h[n].put \in 0..(commits + 1) /\ h[n].at + AliveTtl <= entry.until
                    /\ (entry.until - AliveTtl) - h[n].at <= StaleAfter =>
                         n \in DOMAIN entry.value /\ entry.value[n].ips = h[n].ips /\ entry.value[n].at = h[n].at
                    /\ h[n] = heard[u][n] \/ h[n].put = commits + 1
      BY <1>8, <2>2
    <3>1. /\ new.value \in Sights /\ new.until \in Nat /\ new.until <= now + AliveTtl
          /\ new.began = c.began /\ new.put = commits + 1
          /\ \A m \in DOMAIN new.value : new.value[m].at + AliveTtl <= new.until
          /\ \A m, n \in DOMAIN new.value : new.value[m].at - new.value[n].at <= StaleAfter
      BY <2>1, <3>0
    <3>4. \A n \in Nodes : heard'[u][n] # None =>
               /\ heard'[u][n].at + AliveTtl <= new.until
               /\ (new.until - AliveTtl) - heard'[u][n].at <= StaleAfter =>
                    n \in DOMAIN new.value /\ new.value[n].ips = heard'[u][n].ips /\ new.value[n].at = heard'[u][n].at
      <4>1. entry = new /\ h = heard'[u]
        BY <2>1, <3>0
      <4>2. \A n \in Nodes : h[n] # None =>
               /\ h[n].at + AliveTtl <= entry.until
               /\ (entry.until - AliveTtl) - h[n].at <= StaleAfter =>
                    n \in DOMAIN entry.value /\ entry.value[n].ips = h[n].ips /\ entry.value[n].at = h[n].at
        BY <3>0
      <4> QED BY <4>1, <4>2
    <3>2. new.began \in 0..commits' /\ new.put \in 0..commits'
      BY <1>3, <1>5, <1>16, <3>1
    <3> QED BY <1>16, <2>1, <3>1, <3>2, <3>4 DEF EntryOK, Noted
  <2>3. CASE u \notin DOMAIN mem.data
    <3>1. new = cache[AliveKey(u)] /\ heard'[u] = heard[u]
      BY <1>6, <2>1, <2>3
    <3>2. EntryOK(u, new)
      BY <1>18, <2>1, <3>1 DEF DeviceInv, TableOK
    <3>3. new.until - AliveTtl = new.until' - AliveTtl
      OBVIOUS
    <3>4. \A n \in Nodes : heard[u][n] # None => heard[u][n].put \in 0..commits
      BY DEF DeviceInv, HeardOK
    <3>5. Noted(u, new.value, new.until - AliveTtl, commits)'
      BY <1>16, <3>1, <3>2, <3>4 DEF EntryOK, Noted
    <3> QED BY <1>16, <2>1, <3>1, <3>2, <3>5 DEF EntryOK, Noted
  <2> QED BY <2>2, <2>3
<1>19. ASSUME cache'[ListKey] # None
       PROVE  /\ cache'[ListKey].began \in 0..commits' /\ cache'[ListKey].put \in 0..commits'
              /\ \A u \in Limited : cache'[AliveKey(u)] # None => cache'[AliveKey(u)].began < cache'[ListKey].put
              /\ Counts(cache[ListKey].value, cache[ListKey].began)'
  <2>1. PICK row : row = cache'[ListKey]
    OBVIOUS
  <2>2. row = cache[ListKey] /\ row # None /\ c.began < row.put
    BY <1>9, <1>10, <1>19, <2>1
  <2>3. /\ row.began \in 0..commits /\ row.put \in 0..commits
        /\ \A u \in Limited : cache[AliveKey(u)] # None => cache[AliveKey(u)].began < row.put
        /\ Counts(row.value, row.began)
    BY <2>2 DEF DeviceInv, TableOK
  <2>4. ASSUME NEW u \in Limited, cache'[AliveKey(u)] # None PROVE cache'[AliveKey(u)].began < row.put
    <3>1. u \in DOMAIN mem.data => cache'[AliveKey(u)].began = c.began
      BY <1>8
    <3> QED BY <1>6, <2>2, <2>3, <2>4, <3>1
  <2>5. PICK list, began : list = row.value /\ began = row.began
    OBVIOUS
  <2>6. Counts(list, began)'
    BY <1>15, <2>3, <2>5
  <2> QED BY <1>16, <2>1, <2>3, <2>4, <2>5, <2>6 DEF Counts
<1>20. TableOK'
  BY <1>18, <1>19 DEF TableOK
<1>21. now' \in 0..MaxTime /\ commits' \in Nat /\ DOMAIN tx' = Sessions
  BY <1>3, <1>5 DEF DeviceInv
<1> QED BY <1>15, <1>17, <1>20, <1>21 DEF DeviceInv

\* The list is committed.
LEMMA ListCommits ==
  ASSUME DeviceInv, NEW s \in Sessions, CommitList(s)
  PROVE  DeviceInv'
<1>1. PICK c, own : c = tx[s] /\ own = c.own
  OBVIOUS
<1>2. c.op = "AliveList" /\ c.step = "listed" /\ CommitRows(s, own) /\ heard' = heard
  BY <1>1 DEF CommitList, Commit
<1>3. SessionOK(c) /\ ListOK(c) /\ c.began \in 0..commits /\ commits \in Nat
  BY <1>1, <1>2 DEF DeviceInv, SessionOK
<1>4. tx' = [tx EXCEPT ![s] = Idle] /\ commits' = commits + 1 /\ now' = now
  BY <1>2, CommitAs
<1>5. \A u \in Limited : cache'[AliveKey(u)] = cache[AliveKey(u)]
  BY <1>1, <1>2, <1>3, AliveKeys, CommitAt DEF ListOK
<1>6. PICK list, row : list = own[ListKey].value /\ row = cache'[ListKey]
  OBVIOUS
<1>7. Counts(list, c.began) /\ (row # None => row.value = list /\ row.began = c.began /\ row.put = commits + 1)
  BY <1>1, <1>2, <1>3, <1>6, AliveKeys, CommitAt DEF ListOK
<1>8. /\ \A q \in Sessions : SessionOK(tx[q])'
      /\ \A p, q \in Sessions, u \in Limited :
           AliveKey(u) \in DOMAIN tx'[p].own /\ AliveKey(u) \in DOMAIN tx'[q].own => p = q
      /\ \A l, began : began \in 0..commits /\ Counts(l, began) => Counts(l, began)'
      /\ \A u \in Limited : \A seen, at, began : began \in 0..commits /\ Noted(u, seen, at, began) => Noted(u, seen, at, began)'
  BY <1>2, <1>4, <1>5, <1>6, <1>7, DeviceOthers
<1>9. 0..commits \subseteq 0..commits' /\ commits' \in 0..commits' /\ commits \in 0..commits
  BY <1>3, <1>4
<1>10. \A u \in Limited : HeardOK(u)'
  BY <1>2, <1>4, <1>5, <1>9 DEF DeviceInv, HeardOK
<1>11. ASSUME NEW u \in Limited, cache'[AliveKey(u)] # None PROVE EntryOK(u, cache[AliveKey(u)])'
  <2>1. PICK new : new = cache'[AliveKey(u)]
    OBVIOUS
  <2>2. EntryOK(u, new)
    BY <1>5, <1>11, <2>1 DEF DeviceInv, TableOK
  <2>3. \A n \in Nodes : heard[u][n] # None => heard[u][n].put \in 0..commits
    BY DEF DeviceInv, HeardOK
  <2>4. Noted(u, new.value, new.until - AliveTtl, commits)'
    BY <1>2, <2>2, <2>3 DEF EntryOK, Noted
  <2> QED BY <1>2, <1>4, <1>9, <2>1, <2>2, <2>4 DEF EntryOK, Noted
<1>12. ASSUME row # None
       PROVE  /\ row.began \in 0..commits' /\ row.put \in 0..commits'
              /\ \A u \in Limited : cache'[AliveKey(u)] # None => cache'[AliveKey(u)].began < row.put
              /\ Counts(row.value, row.began)'
  <2>1. \A u \in Limited : cache[AliveKey(u)] # None => cache[AliveKey(u)].began \in 0..commits
    BY DEF DeviceInv, TableOK, EntryOK
  <2>2. \A u \in Limited : cache'[AliveKey(u)] # None => cache'[AliveKey(u)].began < commits + 1
    BY <1>3, <1>5, <2>1
  <2>3. Counts(list, c.began)
    BY <1>7
  <2>4. PICK began : began = c.began
    OBVIOUS
  <2>5. Counts(list, began)'
    BY <1>3, <1>8, <2>3, <2>4
  <2>6. Counts(row.value, row.began)'
    BY <1>7, <1>12, <2>4, <2>5 DEF Counts
  <2> QED BY <1>3, <1>4, <1>7, <1>9, <1>12, <2>2, <2>6
<1>13. TableOK'
  BY <1>6, <1>11, <1>12 DEF TableOK, Counts
<1> QED BY <1>3, <1>4, <1>8, <1>10, <1>13 DEF DeviceInv

\* Time passes, and rows that have expired and that nobody holds go away.
LEMMA DeviceExpires ==
  ASSUME DeviceInv, UNCHANGED <<tx, heard, commits>>, now' \in 0..MaxTime, now' \in {now, now + 1},
         \A k \in Keys : cache'[k] = cache[k] \/ (cache'[k] = None /\ cache[k].until <= now)
  PROVE  DeviceInv'
<1>1. now \in Nat /\ now' \in Nat /\ now <= now' /\ 0..now \subseteq 0..now' /\ AliveTtl \in Nat
  BY CacheAssumption, DeviceAssumption DEF DeviceInv
<1>2. \A u \in Limited : cache'[AliveKey(u)] = cache[AliveKey(u)] \/ (cache'[AliveKey(u)] = None /\ cache[AliveKey(u)].until <= now)
  BY AliveKeys
<1>3. cache'[ListKey] = cache[ListKey] \/ cache'[ListKey] = None
  BY AliveKeys
<1>4. ASSUME NEW list, NEW began, Counts(list, began) PROVE Counts(list, began)'
  <2>1. SUFFICES ASSUME NEW u \in Limited, cache'[AliveKey(u)] # None, cache'[AliveKey(u)].until > now',
                        cache'[AliveKey(u)].put <= began
                 PROVE  u \in DOMAIN list /\ list[u] = AliveIps(cache'[AliveKey(u)].value)
    BY DEF Counts, Live
  <2>2. cache'[AliveKey(u)] = cache[AliveKey(u)]
    BY <1>2, <2>1
  <2>3. cache[AliveKey(u)].until \in Nat
    BY <2>1, <2>2 DEF DeviceInv, TableOK, EntryOK
  <2>4. cache[AliveKey(u)].until > now
    BY <1>1, <2>1, <2>2, <2>3
  <2> QED BY <1>4, <2>1, <2>2, <2>4 DEF Counts, Live
<1>5. ASSUME NEW row, NEW c, NEW u, Written(c, u, row) PROVE Written(c, u, row)'
  <2>1. row.until \in Nat /\ row.until <= now + AliveTtl
    BY <1>5 DEF Written
  <2>2. row.until <= now' + AliveTtl
    BY <1>1, <2>1
  <2> QED BY <1>5, <2>2 DEF Written
<1>6. ASSUME NEW q \in Sessions PROVE SessionOK(tx[q])'
  <2>1. PICK d : d = tx[q]
    OBVIOUS
  <2>2. SessionOK(d)
    BY <2>1 DEF DeviceInv
  <2>3. d.op = "AliveList" => ListOK(d)'
    BY <1>4, <2>2 DEF SessionOK, ListOK
  <2>4. ASSUME d.op = "Alive" PROVE AliveOK(d)'
    <3>1. AliveOK(d)
      BY <2>2, <2>4 DEF SessionOK
    <3>2. \A u \in DOMAIN d.mem.data : Noted(u, d.mem.seen[u], d.mem.at, d.began)'
      BY <3>1 DEF AliveOK, Noted
    <3>3. \A u \in Limited : AliveKey(u) \in DOMAIN d.own => Written(d, u, d.own[AliveKey(u)])'
      BY <1>5, <3>1 DEF AliveOK
    <3>4. d.step # "set" =>
            /\ d.mem.todo = {}
            /\ ListKey \notin DOMAIN d.own /\ cache'[ListKey] # None => d.began < cache'[ListKey].put
      BY <1>3, <3>1 DEF AliveOK
    <3> QED BY <1>1, <3>1, <3>2, <3>3, <3>4 DEF AliveOK
  <2> QED BY <2>1, <2>2, <2>3, <2>4 DEF SessionOK, ListOK, AliveOK, Counts, Noted, Written, Live
<1>7. ASSUME NEW u \in Limited PROVE HeardOK(u)'
  <2>1. HeardOK(u)
    BY DEF DeviceInv
  <2>2. SUFFICES ASSUME NEW n \in Nodes, heard[u][n] # None
                 PROVE  /\ heard[u][n].at \in 0..now' /\ heard[u][n].put \in 0..commits
                        /\ cache'[AliveKey(u)] = None => heard[u][n].at + AliveTtl <= now'
    BY DEF HeardOK
  <2>3. heard[u][n].at \in 0..now /\ heard[u][n].put \in 0..commits
    BY <2>1, <2>2 DEF HeardOK
  <2>4. ASSUME cache'[AliveKey(u)] = None PROVE heard[u][n].at + AliveTtl <= now'
    <3>1. CASE cache[AliveKey(u)] = None
      <4>1. heard[u][n].at + AliveTtl <= now
        BY <2>1, <2>2, <3>1 DEF HeardOK
      <4> QED BY <1>1, <2>3, <4>1
    <3>2. CASE cache[AliveKey(u)] # None
      <4>1. cache[AliveKey(u)].until <= now
        BY <1>2, <2>4, <3>2
      <4>2. heard[u][n].at + AliveTtl <= cache[AliveKey(u)].until /\ cache[AliveKey(u)].until \in Nat
        BY <2>2, <3>2 DEF DeviceInv, TableOK, EntryOK
      <4> QED BY <1>1, <2>3, <4>1, <4>2
    <3> QED BY <3>1, <3>2
  <2> QED BY <1>1, <2>3, <2>4
<1>8. ASSUME NEW u \in Limited, cache'[AliveKey(u)] # None PROVE EntryOK(u, cache[AliveKey(u)])'
  <2>1. PICK row : row = cache'[AliveKey(u)]
    OBVIOUS
  <2>2. EntryOK(u, row)
    BY <1>2, <1>8, <2>1 DEF DeviceInv, TableOK
  <2>3. row.until \in Nat /\ row.until <= now + AliveTtl
    BY <2>2 DEF EntryOK
  <2>4. row.until <= now' + AliveTtl
    BY <1>1, <2>3
  <2> QED BY <2>1, <2>2, <2>4 DEF EntryOK, Noted
<1>9. TableOK'
  <2>1. ASSUME cache'[ListKey] # None
        PROVE  /\ cache'[ListKey].began \in 0..commits /\ cache'[ListKey].put \in 0..commits
               /\ \A u \in Limited : cache'[AliveKey(u)] # None => cache'[AliveKey(u)].began < cache'[ListKey].put
               /\ Counts(cache[ListKey].value, cache[ListKey].began)'
    <3>1. PICK row : row = cache'[ListKey]
      OBVIOUS
    <3>2. row = cache[ListKey] /\ row # None
      BY <1>3, <2>1, <3>1
    <3>3. /\ row.began \in 0..commits /\ row.put \in 0..commits
          /\ \A u \in Limited : cache[AliveKey(u)] # None => cache[AliveKey(u)].began < row.put
          /\ Counts(row.value, row.began)
      BY <3>2 DEF DeviceInv, TableOK
    <3>4. \A u \in Limited : cache'[AliveKey(u)] # None => cache'[AliveKey(u)].began < row.put
      BY <1>2, <3>3
    <3>5. Counts(row.value, row.began)'
      <4>1. PICK list, began : list = row.value /\ began = row.began
        OBVIOUS
      <4>2. Counts(list, began)'
        BY <1>4, <3>3, <4>1
      <4> QED BY <4>1, <4>2 DEF Counts
    <3> QED BY <3>1, <3>3, <3>4, <3>5 DEF Counts
  <2> QED BY <1>8, <2>1 DEF TableOK
<1>10. \A s, q \in Sessions, u \in Limited :
         AliveKey(u) \in DOMAIN tx'[s].own /\ AliveKey(u) \in DOMAIN tx'[q].own => s = q
  BY DEF DeviceInv
<1> QED BY <1>6, <1>7, <1>9, <1>10 DEF DeviceInv

\* Every step keeps the invariant.
LEMMA DeviceInvHolds == DeviceSpec => []DeviceInv
<1>0. commits \in Nat => SessionOK(Idle)
  BY DEF Idle, SessionOK
<1>1. CacheInit /\ DeviceInit => DeviceInv
  <2> SUFFICES ASSUME CacheInit, DeviceInit PROVE DeviceInv
    OBVIOUS
  <2>1. now = 0 /\ commits = 0 /\ (\A s \in Sessions : tx[s] = Idle) /\ DOMAIN tx = Sessions
        /\ now \in 0..MaxTime
    BY CacheAssumption DEF CacheInit
  <2>2. (\A u \in Limited, n \in Nodes : heard[u][n] = None) /\ \A k \in Keys : cache[k] = None
    BY DEF CacheInit, DeviceInit
  <2>3. \A s \in Sessions, u \in Limited : AliveKey(u) \notin DOMAIN tx[s].own
    BY <2>1, NothingAt DEF Idle
  <2>4. TableOK /\ \A u \in Limited : HeardOK(u)
    BY <2>2, AliveKeys DEF TableOK, HeardOK
  <2> QED BY <1>0, <2>1, <2>3, <2>4 DEF DeviceInv
<1>2. DeviceInv /\ [DeviceNext]_<<cacheVars, heard>> => DeviceInv'
  <2> SUFFICES ASSUME DeviceInv, [DeviceNext]_<<cacheVars, heard>> PROVE DeviceInv'
    OBVIOUS
  <2>0. now \in 0..MaxTime /\ now \in Nat /\ commits \in Nat
    BY CacheAssumption DEF DeviceInv
  <2>1. CASE UNCHANGED <<cacheVars, heard>>
    BY <2>0, <2>1, DeviceExpires DEF cacheVars
  <2>2. ASSUME NEW s \in Sessions, DeviceStart(s) PROVE DeviceInv'
    BY <2>2, AliveBegins, ListBegins DEF DeviceStart
  <2>3. ASSUME NEW s \in Sessions, DeviceStep(s) PROVE DeviceInv'
    BY <2>3, AliveSets, AliveDrops, AliveCommits, ListSets, ListCommits DEF DeviceStep
  <2>4. CASE (Tick \/ Cleanup) /\ UNCHANGED heard
    <3>1. UNCHANGED <<tx, heard, commits>> /\ now' \in {now, now + 1}
      BY <2>4 DEF Tick, Cleanup
    <3>2. now' \in 0..MaxTime
      BY <2>0, <2>4, CacheAssumption DEF Tick, Cleanup
    <3>3. ASSUME NEW k \in Keys PROVE cache'[k] = cache[k] \/ (cache'[k] = None /\ cache[k].until <= now)
      <4>1. CASE Tick
        BY <4>1 DEF Tick
      <4>2. CASE Cleanup
        BY <4>2 DEF Cleanup
      <4> QED BY <2>4, <4>1, <4>2
    <3> QED BY <3>1, <3>2, <3>3, DeviceExpires
  <2>5. ASSUME NEW s \in Sessions, RollBack(s), UNCHANGED heard PROVE DeviceInv'
    <3>1. Moves(s, Idle)
      BY <2>5 DEF RollBack, Moves
    <3>2. \A u \in Limited : AliveKey(u) \notin DOMAIN Idle.own
      BY NothingAt DEF Idle
    <3> QED BY <1>0, <2>0, <2>5, <3>1, <3>2, DeviceMoves
  <2>6. CASE Crash /\ heard' = [u \in Limited |-> [n \in Nodes |-> None]]
    <3>1. now' = now /\ commits' = commits /\ tx' = [s \in Sessions |-> Idle]
      BY <2>6 DEF Crash
    <3>2. ASSUME NEW q \in Sessions PROVE SessionOK(tx[q])'
      <4>1. PICK d : d = tx'[q]
        OBVIOUS
      <4>2. d = Idle
        BY <3>1, <4>1
      <4>3. d.began = 0 /\ d.op = "idle" /\ d.own = Nothing /\ 0 \in 0..commits'
        BY <2>0, <3>1, <4>2 DEF Idle
      <4> QED BY <4>1, <4>3 DEF SessionOK
    <3>3. \A s \in Sessions, u \in Limited : AliveKey(u) \notin DOMAIN tx'[s].own
      BY <3>1, NothingAt DEF Idle
    <3>4. (\A u \in Limited, n \in Nodes : heard'[u][n] = None) /\ \A k \in Keys : cache'[k] = None
      BY <2>6 DEF Crash
    <3>5. TableOK' /\ \A u \in Limited : HeardOK(u)'
      BY <3>4, AliveKeys DEF TableOK, HeardOK
    <3> QED BY <2>0, <3>1, <3>2, <3>3, <3>5 DEF DeviceInv
  <2> QED BY <2>1, <2>2, <2>3, <2>4, <2>5, <2>6 DEF DeviceNext, DeviceOther
<1> QED BY <1>1, <1>2, PTL DEF DeviceSpec

\* handle_alive, get_alive_list: no report that counts is lost from the entry
\* of the user, except to a report that overlapped with it, and the list agrees
\* with every entry it was made of.
THEOREM DevicesAreCurrent == DeviceSpec => []DevicesCurrent
<1>1. ASSUME DeviceInv PROVE DevicesCurrent
  <2>1. ASSUME NEW u \in Limited, cache[AliveKey(u)] # None
        PROVE  LET row == cache[AliveKey(u)]
                   written == row.until - AliveTtl IN
               /\ \A n \in Nodes : heard[u][n] # None /\ written - heard[u][n].at <= StaleAfter =>
                    n \in DOMAIN row.value /\ row.value[n].ips = heard[u][n].ips
               /\ \A m, n \in DOMAIN row.value : row.value[m].at - row.value[n].at <= StaleAfter
    <3>1. PICK row : row = cache[AliveKey(u)]
      OBVIOUS
    <3>2. EntryOK(u, row) /\ Noted(u, row.value, row.until - AliveTtl, commits)
      BY <1>1, <2>1, <3>1 DEF DeviceInv, TableOK, EntryOK
    <3>3. commits \in Nat /\ \A n \in Nodes : heard[u][n] # None => heard[u][n].put \in 0..commits
      BY <1>1 DEF DeviceInv, HeardOK
    <3>4. \A n \in Nodes : heard[u][n] # None => heard[u][n].put <= commits
      BY <3>3
    <3>5. \A n \in Nodes : heard[u][n] # None /\ (row.until - AliveTtl) - heard[u][n].at <= StaleAfter =>
            n \in DOMAIN row.value /\ row.value[n].ips = heard[u][n].ips
      BY <3>2, <3>4 DEF Noted
    <3> QED BY <3>1, <3>2, <3>5 DEF EntryOK
  <2>2. ReportKept
    BY <2>1 DEF ReportKept, Live
  <2>3. ListCurrent
    <3>1. SUFFICES ASSUME Live(cache[ListKey]), NEW u \in Limited, Live(cache[AliveKey(u)])
                   PROVE  /\ cache[ListKey].put > cache[AliveKey(u)].began
                          /\ cache[ListKey].began >= cache[AliveKey(u)].put =>
                               /\ u \in DOMAIN cache[ListKey].value
                               /\ cache[ListKey].value[u] = AliveIps(cache[AliveKey(u)].value)
      BY DEF ListCurrent
    <3>2. PICK list, row : list = cache[ListKey] /\ row = cache[AliveKey(u)]
      OBVIOUS
    <3>3. list # None /\ row # None
      BY <3>1, <3>2 DEF Live
    <3>4. /\ list.began \in 0..commits /\ list.put \in 0..commits /\ row.began < list.put
          /\ Counts(list.value, list.began)
      BY <1>1, <3>2, <3>3 DEF DeviceInv, TableOK
    <3>5. row.began \in 0..commits /\ row.put \in 0..commits
      BY <1>1, <3>2, <3>3 DEF DeviceInv, TableOK, EntryOK
    <3>6. list.put > row.began
      BY <3>4, <3>5
    <3>7. list.began >= row.put => row.put <= list.began
      BY <3>4, <3>5
    <3>8. list.began >= row.put => u \in DOMAIN list.value /\ list.value[u] = AliveIps(row.value)
      BY <3>1, <3>2, <3>4, <3>7 DEF Counts
    <3> QED BY <3>2, <3>6, <3>8
  <2> QED BY <2>2, <2>3 DEF DevicesCurrent
<1> QED BY <1>1, DeviceInvHolds, PTL
=============================================================================
