---------------------------- MODULE OfficeProofs ----------------------------
(***************************************************************************)
(* Theorems about the administration for every value of the constants: the *)
(* mail of Events, the configuration and lists of Nodes, the references of *)
(* Catalog and the conversations of Desk, each under its own specification.*)
(***************************************************************************)
EXTENDS Desk, Events, Nodes, Catalog, FiniteSetTheorems, TLAPS

(***************************************************************************)
(* Mail.  Where its sender is, an attempt has been told of or not yet.     *)
(***************************************************************************)
Reported(m) == told[m].sent + told[m].silent
Told(m) == Reported(m) + told[m].failed + told[m].lost

MailTypes ==
  /\ tries \in [Mails -> Nat] /\ delivered \in [Mails -> Nat]
  /\ told \in [Mails -> [sent : Nat, silent : Nat, failed : Nat, lost : Nat]]
  /\ mail \in [Mails -> {"new", "send", "log", "answer", "again", "done", "failed", "dead"}]
  /\ error \in [Mails -> {"none", "silent", "text"}]

MailOK(m) ==
  /\ Reported(m) <= 1 /\ told[m].sent <= delivered[m]
  /\ mail[m] \in {"new", "send", "log", "again"} => Reported(m) = 0
  /\ mail[m] = "log" /\ error[m] = "none" => delivered[m] >= 1
  /\ mail[m] = "answer" /\ error[m] = "text" => Reported(m) = 0
  /\ mail[m] = "answer" /\ error[m] = "silent" => told[m].sent = 0 /\ told[m].silent = 1
  /\ mail[m] = "answer" /\ error[m] = "none" => told[m].sent = 1 /\ told[m].silent = 0
  /\ mail[m] = "done" => Reported(m) = 1 /\ (m \in Direct => told[m].silent = 0)
  /\ mail[m] = "failed" => told[m].sent = 0 /\ (m \notin Direct => Reported(m) = 0)
  /\ mail[m] \in {"send", "log"} => Told(m) + 1 = tries[m]
  /\ mail[m] \in {"new", "answer", "again", "failed", "done"} => Told(m) = tries[m]

MailInv == MailTypes /\ \A m \in Mails : MailOK(m)

\* send_mail, MailService.send: whatever the mail server does and wherever the
\* worker dies, a mail is reported as sent at most once and then never sent
\* again, and every attempt that was answered has been accounted for.
THEOREM MailsAreTold == EventsSpec => []MailTold
<1>1. EventsInit => MailInv
  BY DEF EventsInit, MailInv, MailTypes, MailOK, Told, Reported
<1>2. MailInv /\ [EventsNext]_eventVars => MailInv'
  <2> SUFFICES ASSUME MailInv, [EventsNext]_eventVars PROVE MailInv'
    OBVIOUS
  <2>1. CASE UNCHANGED mailVars
    BY <2>1 DEF MailInv, MailTypes, MailOK, Told, Reported, mailVars
  <2>2. CASE LogNext \/ UNCHANGED eventVars
    BY <2>1, <2>2 DEF LogNext, Record, DeleteLog, CleanupLogEvents, NextDay, eventVars, mailVars
  <2>3. ASSUME NEW m \in Mails,
               \A x \in Mails \ {m} :
                 /\ mail'[x] = mail[x] /\ error'[x] = error[x] /\ tries'[x] = tries[x]
                 /\ delivered'[x] = delivered[x] /\ told'[x] = told[x],
               MailTypes', MailOK(m)'
        PROVE  MailInv'
    BY <2>3 DEF MailInv, MailOK, Told, Reported
  <2>4. ASSUME NEW m \in Mails, StartMail(m) PROVE MailInv'
    <3>1. MailTypes'
      BY <2>4 DEF StartMail, MailInv, MailTypes
    <3>2. MailOK(m)'
      BY <2>4 DEF StartMail, MailInv, MailTypes, MailOK, Told, Reported
    <3> QED BY <2>3, <2>4, <3>1, <3>2 DEF StartMail, MailInv, MailTypes
  <2>5. ASSUME NEW m \in Mails, SendSync(m) PROVE MailInv'
    <3>1. MailTypes'
      BY <2>5 DEF SendSync, MailInv, MailTypes
    <3>2. MailOK(m)'
      BY <2>5 DEF SendSync, MailInv, MailTypes, MailOK, Told, Reported
    <3> QED BY <2>3, <2>5, <3>1, <3>2 DEF SendSync, MailInv, MailTypes
  <2>6. ASSUME NEW m \in Mails, LogMail(m) PROVE MailInv'
    <3>1. /\ mail[m] = "log" /\ mail' = [mail EXCEPT ![m] = "answer"]
          /\ UNCHANGED <<error, tries, delivered>>
      BY <2>6 DEF LogMail
    <3>2. /\ MailTypes /\ MailOK(m) /\ error[m] \in {"none", "silent", "text"}
          /\ told[m] \in [sent : Nat, silent : Nat, failed : Nat, lost : Nat]
          /\ Reported(m) = 0 /\ Told(m) + 1 = tries[m]
      BY <3>1 DEF MailInv, MailTypes, MailOK
    <3>3. CASE error[m] = "text"
      <4>1. told' = [told EXCEPT ![m].failed = @ + 1]
        BY <2>6, <3>3, Zenon DEF LogMail
      <4>2. MailTypes' /\ MailOK(m)'
        BY <3>1, <3>2, <3>3, <4>1 DEF MailTypes, MailOK, Told, Reported
      <4> QED BY <2>3, <3>1, <3>2, <4>1, <4>2 DEF MailTypes
    <3>4. CASE error[m] = "silent"
      <4>1. told' = [told EXCEPT ![m].silent = @ + 1]
        BY <2>6, <3>4, Zenon DEF LogMail
      <4>2. MailTypes' /\ MailOK(m)'
        BY <3>1, <3>2, <3>4, <4>1 DEF MailTypes, MailOK, Told, Reported
      <4> QED BY <2>3, <3>1, <3>2, <4>1, <4>2 DEF MailTypes
    <3>5. CASE error[m] = "none"
      <4>1. told' = [told EXCEPT ![m].sent = @ + 1]
        BY <2>6, <3>5, Zenon DEF LogMail
      <4>2. MailTypes' /\ MailOK(m)'
        BY <3>1, <3>2, <3>5, <4>1 DEF MailTypes, MailOK, Told, Reported
      <4> QED BY <2>3, <3>1, <3>2, <4>1, <4>2 DEF MailTypes
    <3> QED BY <3>2, <3>3, <3>4, <3>5
  <2>7. ASSUME NEW m \in Mails, LogLost(m) PROVE MailInv'
    <3>1. MailTypes'
      BY <2>7 DEF LogLost, MailInv, MailTypes
    <3>2. MailOK(m)'
      <4>1. /\ mail[m] = "log" /\ mail'[m] = "answer" /\ error'[m] = "text" /\ MailOK(m)
            /\ UNCHANGED <<tries, delivered>> /\ told[m] \in [sent : Nat, silent : Nat, failed : Nat, lost : Nat]
            /\ told'[m] = [told[m] EXCEPT !.lost = @ + 1]
        BY <2>7 DEF LogLost, MailInv, MailTypes
      <4>2. Reported(m)' = Reported(m) /\ Told(m)' = Told(m) + 1 /\ told'[m].sent = told[m].sent
        BY <4>1 DEF Reported, Told
      <4> QED BY <4>1, <4>2 DEF MailOK, MailInv, MailTypes
    <3> QED BY <2>3, <2>7, <3>1, <3>2 DEF LogLost, MailInv, MailTypes
  <2>8. ASSUME NEW m \in Mails, Answer(m) PROVE MailInv'
    <3> DEFINE next == IF Raises(m) /\ tries[m] < MaxTries THEN "again"
                       ELSE IF Raises(m) \/ Refuses(m) THEN "failed" ELSE "done"
    <3>1. /\ mail' = [mail EXCEPT ![m] = next] /\ mail[m] = "answer"
          /\ UNCHANGED <<error, tries, delivered, told>>
      BY <2>8 DEF Answer
    <3>2. /\ next = "again" => Raises(m)
          /\ next = "failed" => Raises(m) \/ Refuses(m)
          /\ next = "done" => ~Raises(m) /\ ~Refuses(m)
          /\ next \in {"again", "failed", "done"}
      OBVIOUS
    <3> HIDE DEF next
    <3>3. MailTypes'
      BY <3>1, <3>2 DEF MailInv, MailTypes
    <3>4. /\ mail'[m] = next /\ MailOK(m) /\ error[m] \in {"none", "silent", "text"}
          /\ Told(m)' = Told(m) /\ Reported(m)' = Reported(m)
          /\ told[m] \in [sent : Nat, silent : Nat, failed : Nat, lost : Nat]
      BY <3>1 DEF MailInv, MailTypes, Told, Reported
    <3>5. MailOK(m)'
      BY <3>1, <3>2, <3>4 DEF MailOK, Raises, Refuses, Reported
    <3> QED BY <2>3, <3>1, <3>3, <3>5 DEF MailInv, MailTypes
  <2>9. ASSUME NEW m \in Mails, MailLost(m) PROVE MailInv'
    <3>1. MailTypes'
      BY <2>9 DEF MailLost, MailInv, MailTypes
    <3>2. MailOK(m)'
      BY <2>9 DEF MailLost, MailInv, MailTypes, MailOK, Told, Reported
    <3> QED BY <2>3, <2>9, <3>1, <3>2 DEF MailLost, MailInv, MailTypes
  <2> QED BY <2>2, <2>4, <2>5, <2>6, <2>7, <2>8, <2>9 DEF EventsNext, MailNext
<1>3. MailInv => MailTold
  BY DEF MailInv, MailTypes, MailOK, Told, Reported, MailTold
<1> QED BY <1>1, <1>2, <1>3, PTL DEF EventsSpec

(***************************************************************************)
(* What _normalize_node makes of a request, column by column.              *)
(***************************************************************************)
\* Over has the columns of both, and where both have one it is the first's.
LEMMA OverAt ==
  ASSUME NEW d, NEW e
  PROVE  /\ DOMAIN Over(d, e) = DOMAIN d \cup DOMAIN e
         /\ \A c \in DOMAIN d : Over(d, e)[c] = d[c]
         /\ \A c \in DOMAIN e : c \notin DOMAIN d => Over(d, e)[c] = e[c]
BY DEF Over

\* With sets one column and keeps the others.
LEMMA WithAt ==
  ASSUME NEW d, NEW column, NEW v
  PROVE  /\ \A c \in DOMAIN d : c \in DOMAIN With(d, column, v)
         /\ Value(With(d, column, v), column) = v
         /\ \A c : c # column => Value(With(d, column, v), c) = Value(d, c)
<1> DEFINE f == [c \in {column} |-> v]
<1>1. DOMAIN f = {column} /\ f[column] = v
  OBVIOUS
<1> HIDE DEF f
<1>2. With(d, column, v) = Over(f, d)
  BY DEF With, f
<1>3. DOMAIN Over(f, d) = DOMAIN f \cup DOMAIN d
  BY OverAt
<1>4. \A c \in DOMAIN f : Over(f, d)[c] = f[c]
  BY OverAt
<1>5. \A c \in DOMAIN d : c \notin DOMAIN f => Over(f, d)[c] = d[c]
  BY OverAt
<1> QED BY <1>1, <1>2, <1>3, <1>4, <1>5 DEF Value

\* Secured changes tls alone, to 1.
LEMMA SecuredAt ==
  ASSUME NEW d
  PROVE  /\ \A c \in DOMAIN d : c \in DOMAIN Secured(d)
         /\ \A c : c # "tls" => Value(Secured(d), c) = Value(d, c)
         /\ Value(Secured(d), "tls") \in {Value(d, "tls"), 1}
         /\ Value(d, "protocol") \in AlwaysTls \cup {"anytls"} => Value(Secured(d), "tls") # 0
<1>1. PICK w : w = With(d, "tls", 1)
  OBVIOUS
<1>2. /\ \A c \in DOMAIN d : c \in DOMAIN w
      /\ Value(w, "tls") = 1
      /\ \A c : c # "tls" => Value(w, c) = Value(d, c)
  BY <1>1, WithAt
<1>3. \/ /\ Secured(d) = w
         /\ Value(d, "protocol") \in AlwaysTls \/ (Value(d, "protocol") = "anytls" /\ Value(d, "tls") = 0)
      \/ /\ Secured(d) = d
         /\ ~(Value(d, "protocol") \in AlwaysTls \/ (Value(d, "protocol") = "anytls" /\ Value(d, "tls") = 0))
  BY <1>1 DEF Secured
<1> QED BY <1>2, <1>3 DEF AlwaysTls

\* Ciphered changes cipher alone.
LEMMA CipheredAt ==
  ASSUME NEW d
  PROVE  /\ \A c \in DOMAIN d : c \in DOMAIN Ciphered(d)
         /\ \A c : c # "cipher" => Value(Ciphered(d), c) = Value(d, c)
         /\ Value(d, "protocol") = "shadowsocks" => Value(Ciphered(d), "cipher") # None
<1>1. PICK w : w = With(d, "cipher", "aes-128-gcm")
  OBVIOUS
<1>2. /\ \A c \in DOMAIN d : c \in DOMAIN w
      /\ Value(w, "cipher") = "aes-128-gcm"
      /\ \A c : c # "cipher" => Value(w, c) = Value(d, c)
  BY <1>1, WithAt
<1>3. \/ Ciphered(d) = w
      \/ Ciphered(d) = d /\ ~(Value(d, "protocol") = "shadowsocks" /\ Value(d, "cipher") = None)
  BY <1>1 DEF Ciphered
<1> QED BY <1>2, <1>3, NodesAssumption DEF AlwaysTls

\* Keyed makes new keys for Reality without any, and changes nothing else.
LEMMA KeyedAt ==
  ASSUME NEW d, NEW fresh \in Nat \ {0}
  PROVE  /\ \A c \in DOMAIN d : c \in DOMAIN Keyed(d, fresh)
         /\ \A c : c # "tls_settings" => Value(Keyed(d, fresh), c) = Value(d, c)
         /\ \/ Value(Keyed(d, fresh), "tls_settings") = Value(d, "tls_settings")
            \/ /\ Value(Keyed(d, fresh), "tls_settings") = fresh
               /\ Value(d, "tls") = 2 /\ Value(d, "tls_settings") \in {None, 0}
         /\ Value(d, "tls") = 2 => Value(Keyed(d, fresh), "tls_settings") \notin {None, 0}
<1>1. PICK w : w = With(d, "tls_settings", fresh)
  OBVIOUS
<1>2. /\ \A c \in DOMAIN d : c \in DOMAIN w
      /\ Value(w, "tls_settings") = fresh
      /\ \A c : c # "tls_settings" => Value(w, c) = Value(d, c)
  BY <1>1, WithAt
<1>3. \/ Keyed(d, fresh) = w /\ Value(d, "tls") = 2 /\ Value(d, "tls_settings") \in {None, 0}
      \/ Keyed(d, fresh) = d /\ ~(Value(d, "tls") = 2 /\ Value(d, "tls_settings") \in {None, 0})
  BY <1>1 DEF Keyed
<1> QED BY <1>2, <1>3, NodesAssumption DEF AlwaysTls

\* Streamed drops a flow that the network cannot have.
LEMMA StreamedAt ==
  ASSUME NEW d
  PROVE  /\ \A c \in DOMAIN d : c \in DOMAIN Streamed(d)
         /\ \A c : c # "flow" => Value(Streamed(d), c) = Value(d, c)
         /\ Value(Streamed(d), "flow") # None =>
              Value(d, "network") \in {None, "tcp"} \/ Value(d, "encryption") = "mlkem768x25519plus"
<1>1. PICK w : w = With(d, "flow", None)
  OBVIOUS
<1>2. /\ \A c \in DOMAIN d : c \in DOMAIN w
      /\ Value(w, "flow") = None
      /\ \A c : c # "flow" => Value(w, c) = Value(d, c)
  BY <1>1, WithAt
<1>3. \/ Streamed(d) = w
      \/ /\ Streamed(d) = d
         /\ Value(d, "network") \in {None, "tcp"} \/ Value(d, "encryption") = "mlkem768x25519plus"
  BY <1>1 DEF Streamed
<1> QED BY <1>2, <1>3 DEF AlwaysTls

\* Obfuscated gives obfuscation a password and nothing else.
LEMMA ObfuscatedAt ==
  ASSUME NEW d, NEW fresh \in Nat \ {0}
  PROVE  /\ \A c \in DOMAIN d : c \in DOMAIN Obfuscated(d, fresh)
         /\ \A c : c # "obfs_password" => Value(Obfuscated(d, fresh), c) = Value(d, c)
         /\ \/ Value(Obfuscated(d, fresh), "obfs_password") \in {None, Value(d, "obfs_password")}
            \/ /\ Value(Obfuscated(d, fresh), "obfs_password") = fresh
               /\ Value(d, "obfs") # None /\ Value(d, "obfs_password") = None
         /\ Value(d, "obfs") # None => Value(Obfuscated(d, fresh), "obfs_password") # None
         /\ "obfs" \in DOMAIN d /\ d["obfs"] = None => Value(Obfuscated(d, fresh), "obfs_password") = None
<1>1. CASE Value(d, "obfs") # None /\ Value(d, "obfs_password") = None
  <2>1. ~("obfs" \in DOMAIN d /\ d["obfs"] = None)
    BY <1>1 DEF Value
  <2>2. Obfuscated(d, fresh) = With(d, "obfs_password", fresh)
    BY <1>1, <2>1, Zenon DEF Obfuscated
  <2>3. PICK w : w = With(d, "obfs_password", fresh)
    OBVIOUS
  <2>4. /\ \A c \in DOMAIN d : c \in DOMAIN w
        /\ Value(w, "obfs_password") = fresh
        /\ \A c : c # "obfs_password" => Value(w, c) = Value(d, c)
    BY <2>3, WithAt
  <2> QED BY <1>1, <2>1, <2>2, <2>3, <2>4, NodesAssumption
<1>2. CASE "obfs" \in DOMAIN d /\ d["obfs"] = None
  <2>1. ~(Value(d, "obfs") # None /\ Value(d, "obfs_password") = None)
    BY <1>2 DEF Value
  <2>2. Obfuscated(d, fresh) = With(d, "obfs_password", None)
    BY <1>2, <2>1, Zenon DEF Obfuscated
  <2>3. PICK w : w = With(d, "obfs_password", None)
    OBVIOUS
  <2>4. /\ \A c \in DOMAIN d : c \in DOMAIN w
        /\ Value(w, "obfs_password") = None
        /\ \A c : c # "obfs_password" => Value(w, c) = Value(d, c)
    BY <2>3, WithAt
  <2>5. Value(d, "obfs") = None
    BY <1>2 DEF Value
  <2> QED BY <1>2, <2>2, <2>3, <2>4, <2>5
<1>3. CASE /\ ~(Value(d, "obfs") # None /\ Value(d, "obfs_password") = None)
           /\ ~("obfs" \in DOMAIN d /\ d["obfs"] = None)
  <2>1. Obfuscated(d, fresh) = d
    BY <1>3, Zenon DEF Obfuscated
  <2> QED BY <1>3, <2>1
<1> QED BY <1>1, <1>2, <1>3

\* Metered adds a column and changes none.
LEMMA MeteredAt ==
  ASSUME NEW d
  PROVE  /\ DOMAIN Metered(d) = DOMAIN d \cup {"up_mbps"}
         /\ \A c : c # "up_mbps" => Value(Metered(d), c) = Value(d, c)
<1> DEFINE f == [c \in {"up_mbps"} |-> 0]
<1>1. DOMAIN f = {"up_mbps"}
  OBVIOUS
<1> HIDE DEF f
<1>2. Metered(d) = Over(d, f)
  BY DEF Metered, f
<1>3. DOMAIN Over(d, f) = DOMAIN d \cup DOMAIN f
  BY OverAt
<1>4. \A c \in DOMAIN d : Over(d, f)[c] = d[c]
  BY OverAt
<1>5. \A c : c # "up_mbps" => (c \in DOMAIN Over(d, f) <=> c \in DOMAIN d)
  BY <1>1, <1>3
<1> QED BY <1>1, <1>2, <1>3, <1>4, <1>5 DEF Value

\* The columns of a row that fit together (Coherent, but for the passwords).
Fits(row) ==
  /\ Value(row, "network") # None
  /\ Value(row, "protocol") \in AlwaysTls \cup {"anytls"} => Value(row, "tls") # 0
  /\ Value(row, "protocol") = "shadowsocks" => Value(row, "cipher") # None
  /\ Value(row, "tls") = 2 => Value(row, "tls_settings") \notin {None, 0}
  /\ Value(row, "flow") # None =>
       Value(row, "network") = "tcp" \/ Value(row, "encryption") = "mlkem768x25519plus"
  /\ Value(row, "obfs") # None <=> Value(row, "obfs_password") # None

\* What the proofs use of _normalize_node: it keeps every column, makes a
\* secret only where one is missing, and a request with all columns and a
\* network comes out with columns that fit.
LEMMA NormalizedAt ==
  ASSUME NEW d, NEW fresh \in Nat \ {0}
  PROVE  /\ \A c \in DOMAIN d : c \in DOMAIN Normalized(d, fresh)
         /\ \/ Value(Normalized(d, fresh), "tls_settings") = Value(d, "tls_settings")
            \/ /\ Value(Normalized(d, fresh), "tls_settings") = fresh
               /\ Value(d, "tls") = 2 /\ Value(d, "tls_settings") \in {None, 0}
         /\ \/ Value(Normalized(d, fresh), "obfs_password") \in {None, Value(d, "obfs_password")}
            \/ /\ Value(Normalized(d, fresh), "obfs_password") = fresh
               /\ Value(d, "obfs") # None /\ Value(d, "obfs_password") = None
         /\ Columns \subseteq DOMAIN d /\ Value(d, "network") # None => Fits(Normalized(d, fresh))
<1>1. PICK d1 : d1 = Secured(d)
  OBVIOUS
<1>2. PICK d2 : d2 = Ciphered(d1)
  OBVIOUS
<1>3. PICK d3 : d3 = Keyed(d2, fresh)
  OBVIOUS
<1>4. PICK d4 : d4 = Streamed(d3)
  OBVIOUS
<1>5. PICK d5 : d5 = Obfuscated(d4, fresh)
  OBVIOUS
<1>6. PICK d6 : d6 = Metered(d5)
  OBVIOUS
<1>7. Normalized(d, fresh) = d6
  BY <1>1, <1>2, <1>3, <1>4, <1>5, <1>6 DEF Normalized
<1>a. /\ DOMAIN d \subseteq DOMAIN d1
      /\ \A c : c # "tls" => Value(d1, c) = Value(d, c)
      /\ Value(d1, "tls") \in {Value(d, "tls"), 1}
      /\ Value(d, "protocol") \in AlwaysTls \cup {"anytls"} => Value(d1, "tls") # 0
  BY <1>1, SecuredAt
<1>b. /\ DOMAIN d1 \subseteq DOMAIN d2
      /\ \A c : c # "cipher" => Value(d2, c) = Value(d1, c)
      /\ Value(d1, "protocol") = "shadowsocks" => Value(d2, "cipher") # None
  BY <1>2, CipheredAt
<1>c. /\ DOMAIN d2 \subseteq DOMAIN d3
      /\ \A c : c # "tls_settings" => Value(d3, c) = Value(d2, c)
      /\ \/ Value(d3, "tls_settings") = Value(d2, "tls_settings")
         \/ /\ Value(d3, "tls_settings") = fresh
            /\ Value(d2, "tls") = 2 /\ Value(d2, "tls_settings") \in {None, 0}
      /\ Value(d2, "tls") = 2 => Value(d3, "tls_settings") \notin {None, 0}
  BY <1>3, KeyedAt
<1>d. /\ DOMAIN d3 \subseteq DOMAIN d4
      /\ \A c : c # "flow" => Value(d4, c) = Value(d3, c)
      /\ Value(d4, "flow") # None =>
           Value(d3, "network") \in {None, "tcp"} \/ Value(d3, "encryption") = "mlkem768x25519plus"
  BY <1>4, StreamedAt
<1>e. /\ DOMAIN d4 \subseteq DOMAIN d5
      /\ \A c : c # "obfs_password" => Value(d5, c) = Value(d4, c)
      /\ \/ Value(d5, "obfs_password") \in {None, Value(d4, "obfs_password")}
         \/ /\ Value(d5, "obfs_password") = fresh
            /\ Value(d4, "obfs") # None /\ Value(d4, "obfs_password") = None
      /\ Value(d4, "obfs") # None => Value(d5, "obfs_password") # None
      /\ "obfs" \in DOMAIN d4 /\ d4["obfs"] = None => Value(d5, "obfs_password") = None
  BY <1>5, ObfuscatedAt
<1>f. /\ DOMAIN d5 \subseteq DOMAIN d6
      /\ \A c : c # "up_mbps" => Value(d6, c) = Value(d5, c)
  BY <1>6, MeteredAt
<1>8. DOMAIN d \subseteq DOMAIN d4 /\ DOMAIN d \subseteq DOMAIN d6
  BY <1>a, <1>b, <1>c, <1>d, <1>e, <1>f
<1>9. /\ \/ Value(d6, "tls_settings") = Value(d, "tls_settings")
         \/ /\ Value(d6, "tls_settings") = fresh
            /\ Value(d, "tls") = 2 /\ Value(d, "tls_settings") \in {None, 0}
      /\ \/ Value(d6, "obfs_password") \in {None, Value(d, "obfs_password")}
         \/ /\ Value(d6, "obfs_password") = fresh
            /\ Value(d, "obfs") # None /\ Value(d, "obfs_password") = None
  BY <1>a, <1>b, <1>c, <1>d, <1>e, <1>f
<1>10. ASSUME Columns \subseteq DOMAIN d, Value(d, "network") # None PROVE Fits(d6)
  <2>1. \A c \in {"network", "protocol", "obfs", "encryption"} :
          Value(d6, c) = Value(d, c) /\ Value(d3, c) = Value(d, c) /\ Value(d4, c) = Value(d, c)
    BY <1>a, <1>b, <1>c, <1>d, <1>e, <1>f
  <2>2. Value(d6, "protocol") \in AlwaysTls \cup {"anytls"} => Value(d6, "tls") # 0
    BY <1>a, <1>b, <1>c, <1>d, <1>e, <1>f
  <2>3. Value(d6, "protocol") = "shadowsocks" => Value(d6, "cipher") # None
    BY <1>a, <1>b, <1>c, <1>d, <1>e, <1>f
  <2>4. Value(d6, "tls") = 2 => Value(d6, "tls_settings") \notin {None, 0}
    BY <1>a, <1>b, <1>c, <1>d, <1>e, <1>f
  <2>5. Value(d6, "flow") # None =>
          Value(d6, "network") = "tcp" \/ Value(d6, "encryption") = "mlkem768x25519plus"
    BY <1>10, <1>d, <1>e, <1>f, <2>1
  <2>6. "obfs" \in DOMAIN d4
    BY <1>10, <1>8 DEF Columns
  <2>7. Value(d6, "obfs") # None <=> Value(d6, "obfs_password") # None
    BY <1>e, <1>f, <2>1, <2>6 DEF Value
  <2> QED BY <1>10, <2>1, <2>2, <2>3, <2>4, <2>5, <2>7 DEF Fits
<1> QED BY <1>7, <1>8, <1>9, <1>10

(***************************************************************************)
(* Nodes.  Every row has all columns; those that do not descend from a     *)
(* partial write fit; a secret that the next write makes is nowhere yet;   *)
(* and a browser's list is what the rows were at the stamps in its ETag.   *)
(***************************************************************************)
Secrets == {"tls_settings", "obfs_password"}

\* A row, or the columns on an open form.
RowOK(row) ==
  /\ Columns \subseteq DOMAIN row
  /\ \A c \in Secrets : Value(row, c) \notin (writes + 1) .. MaxWrites

NodeTypes ==
  /\ writes \in Nat /\ clock \in Nat /\ clock # 0
  /\ DOMAIN node = Nodes
  /\ stamp \in [Nodes -> [created : Nat, updated : Nat]]
  /\ form # None => form.at \in Nat

RowsOK ==
  /\ \A n \in Nodes : node[n] # None => RowOK(node[n]) /\ (n \notin patched => Fits(node[n]))
  /\ form # None =>
       RowOK(form.columns) /\ (form.node \notin patched => Value(form.columns, "network") # None)

\* Row x of h was read under stamp v, and unless two versions had this stamp it
\* is still the row as long as the row has the stamp.
ReadAt(h, x, v) ==
  /\ <<x.node, v>> \in h.etag.nodes /\ <<x.node, v>> \in stamped
  /\ node[x.node] # None /\ stamp[x.node].updated = v /\ <<x.node, v>> \notin twins => node[x.node] = x.columns

HeldOK(h) ==
  /\ h.etag.infos = Len(h.list.infos)
  /\ \A k \in h.etag.nodes : \E x \in h.list.nodes : k[1] = x.node
  /\ \A x \in h.list.nodes : x.node \in Nodes /\ \E v : ReadAt(h, x, v)

NodeInv == NodeTypes /\ RowsOK

HeldInv ==
  /\ DOMAIN held = Readers /\ \A u \in Readers : held[u] # None => HeldOK(held[u])
  /\ \A n \in Nodes : node[n] # None => <<n, stamp[n].updated>> \in stamped

\* With all columns there, Value is the column.
LEMMA ValueIs == ASSUME NEW d, NEW c \in DOMAIN d PROVE Value(d, c) = d[c]
BY DEF Value

\* A row with every column that is in use gets the columns of a request over its own.
LEMMA OverFull ==
  ASSUME NEW d, NEW e, Columns \subseteq DOMAIN e
  PROVE  /\ Columns \subseteq DOMAIN Over(d, e)
         /\ \A c \in DOMAIN d : Value(Over(d, e), c) = d[c]
         /\ \A c \in Columns : c \notin DOMAIN d => Value(Over(d, e), c) = Value(e, c)
<1>1. DOMAIN Over(d, e) = DOMAIN d \cup DOMAIN e
  BY OverAt
<1>2. \A c \in DOMAIN d : Over(d, e)[c] = d[c]
  BY OverAt
<1>3. \A c \in DOMAIN e : c \notin DOMAIN d => Over(d, e)[c] = e[c]
  BY OverAt
<1> QED BY <1>1, <1>2, <1>3 DEF Value

\* What an update makes of a row: a secret is the row's, the request's, absent,
\* or new, and new only where the request calls for one.
LEMMA UpdatedRow ==
  ASSUME NEW patch \in Patches, NEW row, Columns \subseteq DOMAIN row, NEW fresh \in 1..MaxWrites
  PROVE  LET r == Over(Normalized(patch, fresh), row)
         IN /\ Columns \subseteq DOMAIN r
            /\ Value(r, "tls_settings") \in 1..MaxWrites =>
                 \/ Value(r, "tls_settings") = Value(row, "tls_settings")
                 \/ /\ Value(r, "tls_settings") = fresh
                    /\ Value(patch, "tls") = 2 /\ Value(patch, "tls_settings") \in {None, 0}
            /\ Value(r, "obfs_password") \in 1..MaxWrites =>
                 \/ Value(r, "obfs_password") = Value(row, "obfs_password")
                 \/ /\ Value(r, "obfs_password") = fresh
                    /\ Value(patch, "obfs") # None /\ Value(patch, "obfs_password") = None
<1> DEFINE N == Normalized(patch, fresh)
<1>1. /\ \/ Value(N, "tls_settings") = Value(patch, "tls_settings")
         \/ /\ Value(N, "tls_settings") = fresh
            /\ Value(patch, "tls") = 2 /\ Value(patch, "tls_settings") \in {None, 0}
      /\ \/ Value(N, "obfs_password") \in {None, Value(patch, "obfs_password")}
         \/ /\ Value(N, "obfs_password") = fresh
            /\ Value(patch, "obfs") # None /\ Value(patch, "obfs_password") = None
  BY NormalizedAt, NodesAssumption
<1>2. \A c \in Secrets : Value(patch, c) \notin 1..MaxWrites
  BY NodesAssumption DEF Value, Secrets
<1> HIDE DEF N
<1>3. /\ Columns \subseteq DOMAIN Over(N, row)
      /\ \A c \in DOMAIN N : Value(Over(N, row), c) = Value(N, c)
      /\ \A c \in Columns : c \notin DOMAIN N => Value(Over(N, row), c) = Value(row, c)
  BY OverFull, ValueIs
<1>4. Secrets \subseteq Columns
  BY DEF Secrets, Columns
<1>5. \A c \in Secrets : Value(Over(N, row), c) \in {Value(N, c), Value(row, c)}
  BY <1>3, <1>4
<1>6. QED
  <2>1. PICK r : r = Over(N, row)
    OBVIOUS
  <2>2. Value(r, "tls_settings") \in {Value(N, "tls_settings"), Value(row, "tls_settings")}
    BY <1>5, <2>1 DEF Secrets
  <2>3. Value(r, "obfs_password") \in {Value(N, "obfs_password"), Value(row, "obfs_password")}
    BY <1>5, <2>1 DEF Secrets
  <2>4. /\ Value(r, "tls_settings") \in 1..MaxWrites =>
                 \/ Value(r, "tls_settings") = Value(row, "tls_settings")
                 \/ /\ Value(r, "tls_settings") = fresh
                    /\ Value(patch, "tls") = 2 /\ Value(patch, "tls_settings") \in {None, 0}
    BY <1>1, <1>2, <2>2 DEF Secrets
  <2>5. /\ Value(r, "obfs_password") \in 1..MaxWrites =>
                 \/ Value(r, "obfs_password") = Value(row, "obfs_password")
                 \/ /\ Value(r, "obfs_password") = fresh
                    /\ Value(patch, "obfs") # None /\ Value(patch, "obfs_password") = None
    BY <1>1, <1>2, <2>3, NodesAssumption DEF Secrets
  <2> QED BY <1>3, <2>1, <2>4, <2>5 DEF N

\* The same of a creation or a save of the form, which send all columns.
LEMMA SentRow ==
  ASSUME NEW d, Columns \subseteq DOMAIN d, NEW fresh \in 1..MaxWrites
  PROVE  LET r == Normalized(d, fresh)
         IN /\ Columns \subseteq DOMAIN r
            /\ Value(d, "network") # None => Fits(r)
            /\ Value(r, "tls_settings") \in 1..MaxWrites =>
                 \/ Value(r, "tls_settings") = Value(d, "tls_settings")
                 \/ /\ Value(r, "tls_settings") = fresh
                    /\ Value(d, "tls_settings") \in {None, 0}
            /\ Value(r, "obfs_password") \in 1..MaxWrites =>
                 \/ Value(r, "obfs_password") = Value(d, "obfs_password")
                 \/ /\ Value(r, "obfs_password") = fresh
                    /\ Value(d, "obfs_password") = None
<1>1. PICK r : r = Normalized(d, fresh)
  OBVIOUS
<1>2. /\ \A c \in DOMAIN d : c \in DOMAIN r
      /\ \/ Value(r, "tls_settings") = Value(d, "tls_settings")
         \/ Value(r, "tls_settings") = fresh /\ Value(d, "tls_settings") \in {None, 0}
      /\ \/ Value(r, "obfs_password") \in {None, Value(d, "obfs_password")}
         \/ Value(r, "obfs_password") = fresh /\ Value(d, "obfs_password") = None
      /\ Value(d, "network") # None => Fits(r)
  BY <1>1, NormalizedAt, NodesAssumption
<1> QED BY <1>1, <1>2, NodesAssumption

\* The copy of a row is the row but for show.
LEMMA CopiedRow ==
  ASSUME NEW row, Columns \subseteq DOMAIN row
  PROVE  /\ Columns \subseteq DOMAIN With(row, "show", FALSE)
         /\ \A c \in Secrets : Value(With(row, "show", FALSE), c) = Value(row, c)
         /\ Fits(row) => Fits(With(row, "show", FALSE))
<1> DEFINE hidden == FALSE
<1> HIDE DEF hidden
<1>1. PICK r : r = With(row, "show", hidden)
  OBVIOUS
<1>2. /\ \A c \in DOMAIN row : c \in DOMAIN r
      /\ \A c : c # "show" => Value(r, c) = Value(row, c)
  BY <1>1, WithAt
<1>3. Fits(row) => Fits(r)
  <2>1. \A c \in Columns \ {"show"} : Value(r, c) = Value(row, c)
    BY <1>2
  <2>2. {"network", "protocol", "tls", "cipher", "tls_settings", "flow", "encryption", "obfs", "obfs_password"}
          \subseteq Columns \ {"show"}
    BY DEF Columns
  <2>3. \A c \in {"network", "protocol", "tls", "cipher", "tls_settings", "flow", "encryption", "obfs",
                   "obfs_password"} : Value(r, c) = Value(row, c)
    BY <2>1, <2>2
  <2> QED BY <2>3 DEF Fits
<1>4. \A c \in Secrets : Value(r, c) = Value(row, c)
  BY <1>2 DEF Secrets
<1>5. Columns \subseteq DOMAIN r
  BY <1>2
<1> QED BY <1>1, <1>3, <1>4, <1>5 DEF hidden

\* A write of one row keeps the others.
LEMMA WriteRows ==
  ASSUME NodeInv, NEW n \in Nodes, NEW row, Write(n, row), patched \subseteq patched', form' \in {form, None},
         row # None => /\ Columns \subseteq DOMAIN row
                       /\ \A c \in Secrets : Value(row, c) \notin (writes + 2) .. MaxWrites
                       /\ n \notin patched' => Fits(row)
  PROVE  RowsOK'
<1>1. /\ writes \in Nat /\ writes' = writes + 1 /\ MaxWrites \in Nat /\ writes < MaxWrites
      /\ DOMAIN node = Nodes /\ node' = [node EXCEPT ![n] = row]
  BY NodesAssumption DEF NodeInv, NodeTypes, Write
<1>2. ASSUME NEW x, RowOK(x) PROVE RowOK(x)'
  <2>1. (writes' + 1) .. MaxWrites \subseteq (writes + 1) .. MaxWrites
    BY <1>1
  <2>2. \A c \in Secrets : Value(x, c) \notin (writes' + 1) .. MaxWrites
    BY <1>2, <2>1 DEF RowOK
  <2> QED BY <1>2, <2>2 DEF RowOK
<1>3. ASSUME NEW m \in Nodes, node'[m] # None
      PROVE  RowOK(node[m])' /\ (m \notin patched' => Fits(node'[m]))
  <2>1. CASE m = n
    <3>1. node'[m] = row
      BY <1>1, <2>1
    <3>2. \A c \in Secrets : Value(row, c) \notin (writes' + 1) .. MaxWrites
      BY <1>1, <1>3, <3>1
    <3>3. Columns \subseteq DOMAIN row
      BY <1>3, <3>1
    <3> QED BY <1>3, <2>1, <3>1, <3>2, <3>3 DEF RowOK
  <2>2. CASE m # n
    <3>1. node'[m] = node[m]
      BY <1>1, <2>2
    <3>2. RowOK(node[m]) /\ (m \notin patched => Fits(node[m]))
      BY <1>3, <3>1 DEF NodeInv, RowsOK
    <3>3. PICK x : x = node[m]
      OBVIOUS
    <3>4. RowOK(x)'
      BY <1>2, <3>2, <3>3
    <3>5. RowOK(node[m])'
      BY <3>1, <3>3, <3>4 DEF RowOK
    <3> QED BY <3>1, <3>2, <3>5
  <2> QED BY <2>1, <2>2
<1>4. form' # None =>
        RowOK(form.columns)' /\ (form'.node \notin patched' => Value(form'.columns, "network") # None)
  <2> SUFFICES ASSUME form' # None PROVE
        RowOK(form.columns)' /\ (form'.node \notin patched' => Value(form'.columns, "network") # None)
    OBVIOUS
  <2>1. form' = form
    OBVIOUS
  <2>2. RowOK(form.columns) /\ (form.node \notin patched => Value(form.columns, "network") # None)
    BY <2>1 DEF NodeInv, RowsOK
  <2>3. PICK x : x = form.columns
    OBVIOUS
  <2>4. RowOK(x)'
    BY <1>2, <2>2, <2>3
  <2>5. RowOK(form.columns)'
    BY <2>1, <2>3, <2>4 DEF RowOK
  <2> QED BY <2>1, <2>2, <2>5
<1> QED BY <1>3, <1>4 DEF RowsOK

\* NodeTypes under a write whose row was or was not written anew.
LEMMA WriteTypes ==
  ASSUME NodeInv, NEW n \in Nodes, NEW row, Write(n, row), form' \in {form, None},
         \/ stamp' = stamp
         \/ \E earliest \in Nat : Touch(n, earliest)
         \/ Stamp(n)
  PROVE  NodeTypes'
<1>1. /\ writes' \in Nat /\ clock' = clock /\ DOMAIN node' = Nodes
      /\ form' # None => form'.at \in Nat
  BY DEF NodeInv, NodeTypes, Write
<1>2. stamp' \in [Nodes -> [created : Nat, updated : Nat]]
  BY DEF NodeInv, NodeTypes, Touch, Stamp
<1> QED BY <1>1, <1>2 DEF NodeInv, NodeTypes

\* Every operation on nodes keeps NodeInv.
LEMMA NodeStep == ASSUME NodeInv, [NodesNext]_nodeVars PROVE NodeInv'
<1>0. writes \in Nat /\ MaxWrites \in Nat /\ NodeTypes /\ RowsOK
  BY NodesAssumption DEF NodeInv, NodeTypes
<1>1. CASE UNCHANGED <<rowVars, clock>>
  BY <1>1 DEF NodeInv, NodeTypes, RowsOK, RowOK, rowVars
<1>2. CASE Browsing \/ UNCHANGED nodeVars
  <2>1. CASE NextSecond
    BY <2>1 DEF NextSecond, NodeInv, NodeTypes, RowsOK, RowOK, rowVars
  <2> QED BY <1>1, <1>2, <2>1 DEF Browsing, nodeVars, GetUserServers, ResetUuid, SetBanned, BillTraffic, Renew, ShowInfo
<1>3. ASSUME NEW n \in Nodes, NEW data \in NewNodes, CreateNode(n, data) PROVE NodeInv'
  <2> DEFINE row == Normalized(data, writes + 1)
  <2>1. Write(n, row) /\ patched' = patched /\ form' = form
    BY <1>3 DEF CreateNode
  <2>2. writes + 1 \in 1..MaxWrites
    BY <1>0, <2>1 DEF Write
  <2>3. Columns \subseteq DOMAIN data /\ Value(data, "network") # None
    BY NodesAssumption DEF Columns, Value
  <2>4. \A c \in Secrets : Value(data, c) \notin 1..MaxWrites
    BY NodesAssumption DEF Secrets, Value
  <2>5. /\ Columns \subseteq DOMAIN row /\ Fits(row)
        /\ \A c \in Secrets : Value(row, c) \in 1..MaxWrites => Value(row, c) \in {Value(data, c), writes + 1}
    BY <2>2, <2>3, SentRow DEF Secrets
  <2> HIDE DEF row
  <2>6. \A c \in Secrets : Value(row, c) \notin (writes + 2) .. MaxWrites
    BY <1>0, <2>4, <2>5
  <2>7. RowsOK'
    BY <2>1, <2>5, <2>6, WriteRows
  <2>8. NodeTypes'
    BY <1>3, <2>1, WriteTypes DEF CreateNode
  <2> QED BY <2>7, <2>8 DEF NodeInv
<1>4. ASSUME NEW n \in Nodes, NEW patch \in Patches, UpdateNode(n, patch) PROVE NodeInv'
  <2> DEFINE row == Over(Normalized(patch, writes + 1), node[n])
  <2>1. /\ Write(n, row) /\ patched' = patched \cup {n} /\ form' = form
        /\ node[n] # None
    BY <1>4 DEF UpdateNode, Live
  <2>2. writes + 1 \in 1..MaxWrites
    BY <1>0, <2>1 DEF Write
  <2>3. RowOK(node[n])
    BY <1>0, <2>1 DEF RowsOK
  <2>5. /\ Columns \subseteq DOMAIN row
        /\ \A c \in Secrets : Value(row, c) \in 1..MaxWrites => Value(row, c) \in {Value(node[n], c), writes + 1}
    BY <2>2, <2>3, UpdatedRow DEF Secrets, RowOK
  <2> HIDE DEF row
  <2>6. \A c \in Secrets : Value(row, c) \notin (writes + 2) .. MaxWrites
    BY <1>0, <2>3, <2>5 DEF RowOK
  <2>7. RowsOK'
    BY <2>1, <2>5, <2>6, WriteRows
  <2>8. NodeTypes'
    BY <1>4, <2>1, WriteTypes DEF UpdateNode
  <2> QED BY <2>7, <2>8 DEF NodeInv
<1>5. ASSUME NEW n \in Nodes, OpenNodeForm(n) PROVE NodeInv'
  <2>1. /\ form' = [node |-> n, columns |-> node[n], at |-> clock] /\ node[n] # None
        /\ UNCHANGED <<node, stamp, writes, clock, patched>>
    BY <1>5 DEF OpenNodeForm, Live
  <2>2. RowOK(node[n]) /\ (n \notin patched => Fits(node[n]))
    BY <1>0, <2>1 DEF RowsOK
  <2>3. form'.node = n /\ form'.columns = node[n] /\ form'.at = clock
    BY <2>1
  <2>4. RowOK(form.columns)' /\ (form'.node \notin patched' => Value(form'.columns, "network") # None)
    BY <2>1, <2>2, <2>3 DEF RowOK, Fits
  <2>5. \A m \in Nodes : node'[m] # None => RowOK(node[m])' /\ (m \notin patched' => Fits(node'[m]))
    BY <1>0, <2>1 DEF RowsOK, RowOK
  <2> QED BY <1>0, <2>1, <2>3, <2>4, <2>5 DEF NodeInv, NodeTypes, RowsOK
<1>6. ASSUME NEW edit \in FormEdits, SaveNodeForm(edit) PROVE NodeInv'
  <2>1. CASE form.node \notin Live
    BY <1>6, <2>1 DEF SaveNodeForm, NodeInv, NodeTypes, RowsOK, RowOK
  <2>2. CASE form.node \in Live
    <3> DEFINE sent == Over(edit, form.columns)
               row == Normalized(sent, writes + 1)
    <3>1. /\ Write(form.node, row) /\ Touch(form.node, form.at) /\ patched' = patched /\ form' = None
          /\ form # None /\ form.node \in Nodes /\ form.at \in Nat
      BY <1>0, <1>6, <2>2 DEF SaveNodeForm, Live, NodeTypes
    <3>2. writes + 1 \in 1..MaxWrites
      BY <1>0, <3>1 DEF Write
    <3>3. RowOK(form.columns) /\ (form.node \notin patched => Value(form.columns, "network") # None)
      BY <1>0, <3>1 DEF RowsOK
    <3>4. /\ Columns \subseteq DOMAIN sent
          /\ \A c \in DOMAIN edit : Value(sent, c) = edit[c]
          /\ \A c \in Columns : c \notin DOMAIN edit => Value(sent, c) = Value(form.columns, c)
      BY <3>3, OverFull DEF RowOK
    <3> HIDE DEF sent
    <3>5. form.node \notin patched => Value(sent, "network") # None
      BY <3>3, <3>4, NodesAssumption DEF Columns
    <3>6. \A c \in Secrets : Value(sent, c) \notin (writes + 1)..MaxWrites
      <4> TAKE c \in Secrets
      <4>1. c \in Columns
        BY DEF Secrets, Columns
      <4>2. c \in DOMAIN edit => edit[c] \notin 1..MaxWrites
        BY NodesAssumption DEF Secrets
      <4>3. Value(form.columns, c) \notin (writes + 1)..MaxWrites
        BY <3>3 DEF RowOK
      <4> QED BY <1>0, <3>4, <4>1, <4>2, <4>3
    <3>7. /\ Columns \subseteq DOMAIN row
          /\ Value(sent, "network") # None => Fits(row)
          /\ \A c \in Secrets : Value(row, c) \in 1..MaxWrites => Value(row, c) \in {Value(sent, c), writes + 1}
      BY <3>2, <3>4, SentRow DEF Secrets
    <3> HIDE DEF row
    <3>8. \A c \in Secrets : Value(row, c) \notin (writes + 2) .. MaxWrites
      BY <1>0, <3>6, <3>7
    <3>9. RowsOK'
      BY <3>1, <3>5, <3>7, <3>8, WriteRows
    <3>10. NodeTypes'
      BY <3>1, WriteTypes
    <3> QED BY <3>9, <3>10 DEF NodeInv
  <2> QED BY <2>1, <2>2
<1>7. ASSUME NEW n \in Nodes, NEW x \in Nodes, CopyNode(n, x) PROVE NodeInv'
  <2> DEFINE row == With(node[n], "show", FALSE)
  <2>1. /\ Write(x, row) /\ Stamp(x) /\ form' = form /\ node[n] # None
        /\ patched' = (IF n \in patched THEN patched \cup {x} ELSE patched)
    BY <1>7 DEF CopyNode, Live
  <2>2. RowOK(node[n]) /\ (n \notin patched => Fits(node[n]))
    BY <1>0, <2>1 DEF RowsOK
  <2>3. /\ Columns \subseteq DOMAIN row
        /\ \A c \in Secrets : Value(row, c) = Value(node[n], c)
        /\ Fits(node[n]) => Fits(row)
    BY <2>2, CopiedRow DEF RowOK
  <2> HIDE DEF row
  <2>4. \A c \in Secrets : Value(row, c) \notin (writes + 2) .. MaxWrites
    BY <1>0, <2>2, <2>3 DEF RowOK
  <2>5. x \notin patched' => n \notin patched
    BY <2>1
  <2>6. patched \subseteq patched'
    BY <2>1
  <2>7. RowsOK'
    BY <2>1, <2>2, <2>3, <2>4, <2>5, <2>6, WriteRows
  <2>8. NodeTypes'
    BY <2>1, WriteTypes
  <2> QED BY <2>7, <2>8 DEF NodeInv
<1>8. ASSUME NEW n \in Nodes, DeleteNode(n) PROVE NodeInv'
  <2>1. Write(n, None) /\ UNCHANGED <<stamp, form, patched>>
    BY <1>8 DEF DeleteNode
  <2>2. RowsOK'
    BY <2>1, WriteRows
  <2>3. NodeTypes'
    BY <2>1, WriteTypes
  <2> QED BY <2>2, <2>3 DEF NodeInv
<1> QED BY <1>2, <1>3, <1>4, <1>5, <1>6, <1>7, <1>8 DEF NodesNext, NodeWrites

\* NodeInv holds throughout.
LEMMA NodeInvHolds == NodesSpec => []NodeInv
<1>1. NodesInit => NodeInv
  BY DEF NodesInit, NodeInv, NodeTypes, RowsOK
<1>2. NodeInv /\ [NodesNext]_nodeVars => NodeInv'
  BY NodeStep
<1> QED BY <1>1, <1>2, PTL DEF NodesSpec

\* _normalize_node: the columns of a row that never was written in part fit
\* together, and its client derives the key that the node has.
THEOREM NodesCohere == NodesSpec => []Coherent
<1>1. NodeInv => Coherent
  <2> SUFFICES ASSUME NodeInv, NEW n \in Live \ patched
               PROVE  LET row == node[n]
                      IN /\ row["protocol"] \in AlwaysTls \cup {"anytls"} => row["tls"] # 0
                         /\ row["protocol"] = "shadowsocks" => row["cipher"] # None
                         /\ row["tls"] = 2 => row["tls_settings"] \notin {None, 0}
                         /\ row["flow"] # None => row["network"] = "tcp" \/ row["encryption"] = "mlkem768x25519plus"
                         /\ (row["obfs"] # None) <=> (row["obfs_password"] # None)
                         /\ row["cipher"] # "2022-blake3-chacha20-poly1305" => SsPassword(n) = ServerKey(n)
    BY DEF Coherent
  <2>1. n \in Nodes /\ RowOK(node[n]) /\ Fits(node[n])
    BY DEF Live, NodeInv, RowsOK
  <2>2. \A c \in Columns : Value(node[n], c) = node[n][c]
    BY <2>1, ValueIs DEF RowOK
  <2>3. \A c \in {"protocol", "tls", "cipher", "tls_settings", "flow", "network", "encryption", "obfs", "obfs_password"} :
          Value(node[n], c) = node[n][c]
    BY <2>2 DEF Columns
  <2>4. PICK cipher : cipher = node[n]["cipher"]
    OBVIOUS
  <2>5. ASSUME cipher # "2022-blake3-chacha20-poly1305" PROVE SsPassword(n) = ServerKey(n)
    <3>1. CASE cipher = "2022-blake3-aes-128-gcm"
      <4>1. SsPassword(n) = Digest(n, 16)
        BY <2>4, <3>1 DEF SsPassword, Ciphers2022
      <4>2. cipher # "2022-blake3-aes-256-gcm"
        BY <3>1
      <4>3. ServerKey(n) = Digest(n, 16)
        BY <2>4, <3>1, <4>2, Zenon DEF ServerKey
      <4> QED BY <4>1, <4>3
    <3>2. CASE cipher = "2022-blake3-aes-256-gcm"
      <4>1. SsPassword(n) = Digest(n, 32)
        BY <2>4, <3>2 DEF SsPassword, Ciphers2022
      <4>2. cipher # "2022-blake3-aes-128-gcm"
        BY <3>2
      <4>3. ServerKey(n) = Digest(n, 32)
        BY <2>4, <3>2, <4>2, Zenon DEF ServerKey
      <4> QED BY <4>1, <4>3
    <3>3. CASE cipher \notin {"2022-blake3-aes-128-gcm", "2022-blake3-aes-256-gcm"}
      <4>1. SsPassword(n) = None
        BY <2>4, <2>5, <3>3 DEF SsPassword, Ciphers2022
      <4>2. cipher # "2022-blake3-aes-128-gcm" /\ cipher # "2022-blake3-aes-256-gcm"
        BY <3>3
      <4>3. ServerKey(n) = None
        BY <2>4, <4>2, Zenon DEF ServerKey
      <4> QED BY <4>1, <4>3
    <3> QED BY <3>1, <3>2, <3>3
  <2>6. PICK row : row = node[n]
    OBVIOUS
  <2>7. /\ row["protocol"] \in AlwaysTls \cup {"anytls"} => row["tls"] # 0
        /\ row["protocol"] = "shadowsocks" => row["cipher"] # None
        /\ row["tls"] = 2 => row["tls_settings"] \notin {None, 0}
        /\ row["flow"] # None => row["network"] = "tcp" \/ row["encryption"] = "mlkem768x25519plus"
        /\ (row["obfs"] # None) <=> (row["obfs_password"] # None)
    BY <2>1, <2>3, <2>6 DEF Fits
  <2> QED BY <2>4, <2>5, <2>6, <2>7
<1> QED BY <1>1, NodeInvHolds, PTL

\* _normalize_node and the form: a node's keys and its obfuscation password
\* change only by a request that asks for new ones, or by a page opened before
\* the node had them or on which they were edited.
THEOREM SecretsKept == NodesSpec => SecretsSurvive
<1>1. ASSUME NodeInv, NodesNext, NEW n \in Live, node'[n] # None, NEW column \in Secrets,
             Value(node'[n], column) = writes', node'[n] # node[n],
             column = "tls_settings" => Value(node[n], column) \notin {None, 0},
             column = "obfs_password" => Value(node[n], column) # None
      PROVE  \/ \E e \in FormEdits : SaveNodeForm(e) /\ Retyped(e, n, column)
             \/ /\ column = "tls_settings"
                /\ \E p \in Patches : Value(p, "tls") = 2 /\ Value(p, "tls_settings") \in {None, 0} /\ UpdateNode(n, p)
             \/ /\ column = "obfs_password"
                /\ \E p \in Patches : Value(p, "obfs") # None /\ Value(p, "obfs_password") = None /\ UpdateNode(n, p)
  <2>0. /\ writes \in Nat /\ MaxWrites \in Nat /\ NodeTypes /\ RowsOK
        /\ n \in Nodes /\ node[n] # None /\ RowOK(node[n]) /\ column \in Columns /\ column \in DOMAIN node[n]
        /\ Value(node[n], column) = node[n][column]
    <3>1. column \in Columns
      BY DEF Secrets, Columns
    <3>2. n \in Nodes /\ node[n] # None /\ RowOK(node[n])
      BY <1>1 DEF Live, NodeInv, RowsOK
    <3> QED BY <1>1, <3>1, <3>2, NodesAssumption, ValueIs DEF NodeInv, NodeTypes, RowOK
  <2>1. ASSUME NEW m \in Nodes, NEW row, Write(m, row)
        PROVE  m = n /\ node'[n] = row /\ writes' = writes + 1 /\ writes + 1 \in 1..MaxWrites
    BY <1>1, <2>0, <2>1 DEF Write, NodeTypes
  <2>2. ASSUME node' = node PROVE FALSE
    BY <1>1, <2>2
  <2>3. ASSUME NEW m \in Nodes, NEW data \in NewNodes, CreateNode(m, data) PROVE FALSE
    BY <2>0, <2>1, <2>3 DEF CreateNode, Unused
  <2>4. ASSUME NEW m \in Nodes, NEW patch \in Patches, UpdateNode(m, patch)
        PROVE  \/ /\ column = "tls_settings"
                  /\ \E p \in Patches : Value(p, "tls") = 2 /\ Value(p, "tls_settings") \in {None, 0} /\ UpdateNode(n, p)
               \/ /\ column = "obfs_password"
                  /\ \E p \in Patches : Value(p, "obfs") # None /\ Value(p, "obfs_password") = None /\ UpdateNode(n, p)
    <3> DEFINE row == Over(Normalized(patch, writes + 1), node[m])
    <3>1. Write(m, row)
      BY <2>4 DEF UpdateNode
    <3>2. m = n /\ node'[n] = row /\ writes' = writes + 1 /\ writes + 1 \in 1..MaxWrites
      BY <2>1, <3>1
    <3>3. /\ Value(row, "tls_settings") \in 1..MaxWrites =>
                 \/ Value(row, "tls_settings") = Value(node[m], "tls_settings")
                 \/ /\ Value(row, "tls_settings") = writes + 1
                    /\ Value(patch, "tls") = 2 /\ Value(patch, "tls_settings") \in {None, 0}
          /\ Value(row, "obfs_password") \in 1..MaxWrites =>
                 \/ Value(row, "obfs_password") = Value(node[m], "obfs_password")
                 \/ /\ Value(row, "obfs_password") = writes + 1
                    /\ Value(patch, "obfs") # None /\ Value(patch, "obfs_password") = None
      BY <2>0, <3>2, UpdatedRow DEF RowOK
    <3>4. Value(row, column) = writes + 1
      BY <1>1, <3>2
    <3> HIDE DEF row
    <3>5. Value(node[n], column) # writes + 1
      BY <2>0, <3>2 DEF RowOK
    <3>6. CASE column = "tls_settings"
      BY <2>4, <3>2, <3>3, <3>4, <3>5, <3>6
    <3>7. CASE column = "obfs_password"
      BY <2>4, <3>2, <3>3, <3>4, <3>5, <3>7
    <3> QED BY <3>6, <3>7 DEF Secrets
  <2>5. ASSUME NEW edit \in FormEdits, SaveNodeForm(edit)
        PROVE  Retyped(edit, n, column)
    <3> DEFINE sent == Over(edit, form.columns)
               row == Normalized(sent, writes + 1)
    <3>1. form # None /\ form.node \in Nodes /\ Write(form.node, row)
      BY <2>2, <2>5 DEF SaveNodeForm, Live
    <3>2. form.node = n /\ node'[n] = row /\ writes' = writes + 1 /\ writes + 1 \in 1..MaxWrites
      BY <2>1, <3>1
    <3>3. RowOK(form.columns)
      BY <2>0, <3>1 DEF RowsOK
    <3>4. /\ Columns \subseteq DOMAIN sent
          /\ \A c \in DOMAIN edit : Value(sent, c) = edit[c]
          /\ \A c \in Columns : c \notin DOMAIN edit => Value(sent, c) = Value(form.columns, c)
      BY <3>3, OverFull DEF RowOK
    <3> HIDE DEF sent
    <3>5. /\ Value(row, "tls_settings") \in 1..MaxWrites =>
                 \/ Value(row, "tls_settings") = Value(sent, "tls_settings")
                 \/ /\ Value(row, "tls_settings") = writes + 1
                    /\ Value(sent, "tls_settings") \in {None, 0}
          /\ Value(row, "obfs_password") \in 1..MaxWrites =>
                 \/ Value(row, "obfs_password") = Value(sent, "obfs_password")
                 \/ /\ Value(row, "obfs_password") = writes + 1
                    /\ Value(sent, "obfs_password") = None
      BY <3>2, <3>4, SentRow
    <3> HIDE DEF row
    <3>6. Value(row, column) = writes + 1
      BY <1>1, <3>2
    <3> SUFFICES ASSUME column \notin DOMAIN edit PROVE form.columns[column] # node[n][column]
      BY DEF Retyped
    <3>7. Value(sent, column) = form.columns[column]
      BY <2>0, <3>3, <3>4, ValueIs DEF RowOK
    <3>8. Value(sent, column) # writes + 1
      BY <2>0, <3>2, <3>3, <3>4 DEF RowOK
    <3>9. CASE column = "tls_settings"
      BY <1>1, <2>0, <3>2, <3>5, <3>6, <3>7, <3>8, <3>9
    <3>10. CASE column = "obfs_password"
      BY <1>1, <2>0, <3>2, <3>5, <3>6, <3>7, <3>8, <3>10
    <3> QED BY <3>9, <3>10 DEF Secrets
  <2>6. ASSUME NEW m \in Nodes, NEW x \in Nodes, CopyNode(m, x) PROVE FALSE
    BY <2>0, <2>1, <2>6 DEF CopyNode, Unused
  <2>7. ASSUME NEW m \in Nodes, DeleteNode(m) PROVE FALSE
    <3>1. Write(m, None)
      BY <2>7 DEF DeleteNode
    <3> QED BY <1>1, <2>1, <3>1
  <2>8. CASE Browsing \/ \E m \in Nodes : OpenNodeForm(m)
    BY <2>2, <2>8 DEF Browsing, OpenNodeForm, GetUserServers, ResetUuid, SetBanned, BillTraffic, Renew, ShowInfo, NextSecond, rowVars
  <2> QED BY <1>1, <2>3, <2>4, <2>5, <2>6, <2>7, <2>8 DEF NodesNext, NodeWrites
<1>2. NodeInv /\ [NodesNext]_nodeVars =>
        [\A n \in Live : node'[n] # None =>
           /\ node[n]["tls_settings"] \notin {None, 0} /\ node'[n]["tls_settings"] = writes' =>
                \/ \E p \in Patches : Value(p, "tls") = 2 /\ Value(p, "tls_settings") \in {None, 0} /\ UpdateNode(n, p)
                \/ \E e \in FormEdits : SaveNodeForm(e) /\ Retyped(e, n, "tls_settings")
           /\ node[n]["obfs_password"] # None /\ node'[n]["obfs_password"] = writes' =>
                \/ \E p \in Patches : Value(p, "obfs") # None /\ Value(p, "obfs_password") = None /\ UpdateNode(n, p)
                \/ \E e \in FormEdits : SaveNodeForm(e) /\ Retyped(e, n, "obfs_password")]_node
  <2> SUFFICES ASSUME NodeInv, [NodesNext]_nodeVars, node' # node, NEW n \in Live, node'[n] # None
               PROVE
           /\ node[n]["tls_settings"] \notin {None, 0} /\ node'[n]["tls_settings"] = writes' =>
                \/ \E p \in Patches : Value(p, "tls") = 2 /\ Value(p, "tls_settings") \in {None, 0} /\ UpdateNode(n, p)
                \/ \E e \in FormEdits : SaveNodeForm(e) /\ Retyped(e, n, "tls_settings")
           /\ node[n]["obfs_password"] # None /\ node'[n]["obfs_password"] = writes' =>
                \/ \E p \in Patches : Value(p, "obfs") # None /\ Value(p, "obfs_password") = None /\ UpdateNode(n, p)
                \/ \E e \in FormEdits : SaveNodeForm(e) /\ Retyped(e, n, "obfs_password")
    OBVIOUS
  <2>1. NodesNext
    BY DEF nodeVars, rowVars
  <2>2. \A m \in Nodes : node[m] # None => RowOK(node[m])
    BY DEF NodeInv, RowsOK
  <2>3. RowOK(node[n])
    BY <2>2 DEF Live
  <2>4. \A c \in Secrets : Value(node[n], c) = node[n][c]
    BY <2>3, ValueIs DEF RowOK, Secrets, Columns
  <2>5. NodeInv'
    BY NodeStep
  <2>6. \A c \in Secrets : Value(node'[n], c) = node'[n][c]
    <3>1. \A m \in Nodes : node'[m] # None => RowOK(node[m])'
      BY <2>5 DEF NodeInv, RowsOK
    <3>2. n \in Nodes
      BY DEF Live
    <3>3. Columns \subseteq DOMAIN node'[n]
      BY <3>1, <3>2 DEF RowOK
    <3> QED BY <3>3, ValueIs DEF Secrets, Columns
  <2>7. Secrets = {"tls_settings", "obfs_password"}
    BY DEF Secrets
  <2>8. CASE node'[n] = node[n]
    <3>1. \/ UNCHANGED <<writes, node>>
          \/ writes' = writes + 1 /\ writes < MaxWrites
      <4>1. ASSUME NEW m \in Nodes, NEW x \in Nodes, CopyNode(m, x) PROVE writes' = writes + 1 /\ writes < MaxWrites
        BY <4>1 DEF CopyNode, Write
      <4>2. ASSUME NEW m \in Nodes, NEW data \in NewNodes, CreateNode(m, data)
            PROVE  writes' = writes + 1 /\ writes < MaxWrites
        BY <4>2 DEF CreateNode, Write
      <4>3. ASSUME NEW m \in Nodes, NEW patch \in Patches, UpdateNode(m, patch)
            PROVE  writes' = writes + 1 /\ writes < MaxWrites
        BY <4>3 DEF UpdateNode, Write
      <4>4. ASSUME NEW m \in Nodes, DeleteNode(m) PROVE writes' = writes + 1 /\ writes < MaxWrites
        BY <4>4 DEF DeleteNode, Write
      <4>5. ASSUME NEW edit \in FormEdits, SaveNodeForm(edit)
            PROVE  UNCHANGED <<writes, node>> \/ (writes' = writes + 1 /\ writes < MaxWrites)
        BY <4>5 DEF SaveNodeForm, Write
      <4>6. CASE Browsing \/ \E m \in Nodes : OpenNodeForm(m)
        BY <4>6 DEF Browsing, OpenNodeForm, NextSecond, GetUserServers, ResetUuid, SetBanned, BillTraffic, Renew, ShowInfo, rowVars
      <4> QED BY <2>1, <4>1, <4>2, <4>3, <4>4, <4>5, <4>6 DEF NodesNext, NodeWrites
    <3>2. writes' \in (writes + 1)..MaxWrites
      BY <3>1, NodesAssumption DEF NodeInv, NodeTypes
    <3>3. \A c \in Secrets : node[n][c] # writes'
      BY <2>3, <2>4, <3>2 DEF RowOK
    <3> QED BY <2>7, <2>8, <3>3
  <2>9. CASE node'[n] # node[n]
    <3>1. ASSUME node[n]["tls_settings"] \notin {None, 0}, node'[n]["tls_settings"] = writes'
          PROVE  \/ \E p \in Patches : Value(p, "tls") = 2 /\ Value(p, "tls_settings") \in {None, 0} /\ UpdateNode(n, p)
                 \/ \E e \in FormEdits : SaveNodeForm(e) /\ Retyped(e, n, "tls_settings")
      BY <1>1, <2>1, <2>4, <2>6, <2>7, <2>9, <3>1
    <3>2. ASSUME node[n]["obfs_password"] # None, node'[n]["obfs_password"] = writes'
          PROVE  \/ \E p \in Patches : Value(p, "obfs") # None /\ Value(p, "obfs_password") = None /\ UpdateNode(n, p)
                 \/ \E e \in FormEdits : SaveNodeForm(e) /\ Retyped(e, n, "obfs_password")
      BY <1>1, <2>1, <2>4, <2>6, <2>7, <2>9, <3>2
    <3> QED BY <3>1, <3>2
  <2> QED BY <2>8, <2>9
<1> QED BY <1>2, NodeInvHolds, PTL DEF NodesSpec, SecretsSurvive

(***************************************************************************)
(* Lists.  What a step does to one row, as far as an ETag can tell.        *)
(***************************************************************************)
\* The row stays, goes, or gets a stamp that no version had, or now two have.
RowMoves(n) ==
  \/ node'[n] = node[n] /\ stamp'[n] = stamp[n]
  \/ node'[n] = None /\ stamp'[n] = stamp[n]
  \/ /\ <<n, stamp'[n].updated>> \in stamped'
     /\ <<n, stamp'[n].updated>> \in stamped => <<n, stamp'[n].updated>> \in twins'

RowsMove == (\A n \in Nodes : RowMoves(n)) /\ stamped \subseteq stamped' /\ twins \subseteq twins'

\* Every step moves rows so.
LEMMA EveryRowMoves ==
  ASSUME NodeInv, [NodesNext]_nodeVars
  PROVE  RowsMove
<1>0. NodeTypes /\ DOMAIN node = Nodes /\ DOMAIN stamp = Nodes
  BY DEF NodeInv, NodeTypes
<1>1. ASSUME UNCHANGED <<node, stamp, stamped, twins>> PROVE RowsMove
  BY <1>1 DEF RowsMove, RowMoves
<1>2. ASSUME NEW m \in Nodes, NEW row, Write(m, row), NEW second, Version(m, second), stamp'[m].updated = second,
             \A n \in Nodes : n # m => stamp'[n] = stamp[n]
      PROVE  RowsMove
  <2>1. \A n \in Nodes : n # m => node'[n] = node[n]
    BY <1>0, <1>2 DEF Write
  <2> QED BY <1>2, <2>1 DEF RowsMove, RowMoves, Version
<1>3. ASSUME NEW m \in Nodes, NEW row, Write(m, row), NEW earliest, Touch(m, earliest) PROVE RowsMove
  <2>1. CASE node'[m] = node[m] /\ UNCHANGED <<stamp, stamped, twins>>
    <3>1. \A n \in Nodes : node'[n] = node[n]
      BY <1>0, <1>3, <2>1 DEF Write
    <3> QED BY <2>1, <3>1 DEF RowsMove, RowMoves
  <2>2. ASSUME NEW began \in earliest..clock, stamp' = [stamp EXCEPT ![m].updated = began], Version(m, began)
        PROVE  RowsMove
    <3>1. stamp'[m].updated = began /\ \A n \in Nodes : n # m => stamp'[n] = stamp[n]
      BY <1>0, <2>2 DEF NodeTypes
    <3> QED BY <1>2, <1>3, <2>2, <3>1
  <2> QED BY <1>3, <2>1, <2>2 DEF Touch
<1>4. ASSUME NEW m \in Nodes, NEW row, Write(m, row), Stamp(m) PROVE RowsMove
  <2>1. PICK began \in 1..clock : stamp' = [stamp EXCEPT ![m] = [created |-> began, updated |-> began]] /\ Version(m, began)
    BY <1>4 DEF Stamp
  <2>2. stamp'[m].updated = began /\ \A n \in Nodes : n # m => stamp'[n] = stamp[n]
    BY <1>0, <2>1
  <2> QED BY <1>2, <1>4, <2>1, <2>2
<1>5. CASE Browsing \/ UNCHANGED nodeVars \/ \E n \in Nodes : OpenNodeForm(n)
  BY <1>1, <1>5 DEF Browsing, nodeVars, rowVars, NextSecond, GetUserServers, ResetUuid, SetBanned, BillTraffic,
                    Renew, ShowInfo, OpenNodeForm
<1>6. ASSUME NEW n \in Nodes, NEW data \in NewNodes, CreateNode(n, data) PROVE RowsMove
  BY <1>4, <1>6 DEF CreateNode
<1>7. ASSUME NEW n \in Nodes, NEW patch \in Patches, UpdateNode(n, patch) PROVE RowsMove
  BY <1>3, <1>7 DEF UpdateNode
<1>8. ASSUME NEW edit \in FormEdits, SaveNodeForm(edit) PROVE RowsMove
  <2>1. CASE form.node \in Live
    BY <1>3, <1>8, <2>1 DEF SaveNodeForm, Live
  <2>2. CASE form.node \notin Live
    BY <1>1, <1>8, <2>2 DEF SaveNodeForm
  <2> QED BY <2>1, <2>2
<1>9. ASSUME NEW n \in Nodes, NEW x \in Nodes, CopyNode(n, x) PROVE RowsMove
  BY <1>4, <1>9 DEF CopyNode
<1>10. ASSUME NEW n \in Nodes, DeleteNode(n) PROVE RowsMove
  <2>1. node' = [node EXCEPT ![n] = None] /\ UNCHANGED <<stamp, stamped, twins>>
    BY <1>10 DEF DeleteNode, Write
  <2> QED BY <1>0, <2>1 DEF RowsMove, RowMoves
<1> QED BY <1>5, <1>6, <1>7, <1>8, <1>9, <1>10 DEF NodesNext, NodeWrites

\* A list that was current stays explained by its ETag, whatever is written.
LEMMA HeldKept ==
  ASSUME RowsMove, NEW h, HeldOK(h)
  PROVE  HeldOK(h)'
<1>1. ASSUME NEW x \in h.list.nodes, NEW v, ReadAt(h, x, v) PROVE ReadAt(h, x, v)'
  <2>1. /\ x.node \in Nodes /\ RowMoves(x.node)
        /\ <<x.node, v>> \in stamped /\ stamped \subseteq stamped' /\ twins \subseteq twins'
    BY <1>1 DEF HeldOK, ReadAt, RowsMove
  <2>2. CASE node'[x.node] = node[x.node] /\ stamp'[x.node] = stamp[x.node]
    BY <1>1, <2>1, <2>2 DEF ReadAt
  <2>3. CASE node'[x.node] = None
    BY <1>1, <2>1, <2>3 DEF ReadAt
  <2>4. CASE <<x.node, stamp'[x.node].updated>> \in stamped => <<x.node, stamp'[x.node].updated>> \in twins'
    BY <1>1, <2>1, <2>4 DEF ReadAt
  <2> QED BY <2>1, <2>2, <2>3, <2>4 DEF RowMoves
<1>2. ASSUME NEW x \in h.list.nodes PROVE x.node \in Nodes /\ \E v : ReadAt(h, x, v)'
  <2>1. x.node \in Nodes /\ \E v : ReadAt(h, x, v)
    BY <1>2 DEF HeldOK
  <2> QED BY <1>1, <2>1
<1> QED BY <1>2 DEF HeldOK

\* get_user_servers: what is answered is explained by its ETag.
LEMMA ServedIsHeld ==
  ASSUME HeldInv, NEW u \in Readers,
         NEW h, h = [list |-> Served(u), etag |-> CacheKeys(Served(u))]
  PROVE  HeldOK(h)
<1>0. /\ h.list = Served(u) /\ h.etag.infos = Len(Served(u).infos)
      /\ h.etag.nodes = {<<x.node, stamp[x.node].updated>> : x \in Served(u).nodes}
  BY DEF CacheKeys
<1>1. ASSUME NEW x \in Served(u).nodes
      PROVE  x.node \in Nodes /\ node[x.node] # None /\ x.columns = node[x.node]
  BY <1>1 DEF Served, Visible, Live
<1>2. ASSUME NEW x \in h.list.nodes PROVE \E v : ReadAt(h, x, v)
  <2>1. PICK v : v = stamp[x.node].updated
    OBVIOUS
  <2>2. <<x.node, v>> \in h.etag.nodes /\ <<x.node, v>> \in stamped
    BY <1>0, <1>1, <1>2, <2>1 DEF HeldInv
  <2>3. node[x.node] = x.columns
    BY <1>0, <1>1, <1>2
  <2> QED BY <2>2, <2>3 DEF ReadAt
<1> QED BY <1>0, <1>1, <1>2 DEF HeldOK

\* get_user_servers: "304 Not Modified" is only said of a list whose entries are
\* the current ones, each with its current settings, but for a node two versions
\* of which have one stamp.
THEOREM NotModifiedHolds == NodesSpec => []NotModifiedIsTrue
<1>1. NodesInit => HeldInv
  BY DEF NodesInit, HeldInv
<1>2. NodeInv /\ HeldInv /\ [NodesNext]_nodeVars => HeldInv'
  <2> SUFFICES ASSUME NodeInv, HeldInv, [NodesNext]_nodeVars PROVE HeldInv'
    OBVIOUS
  <2>0. RowsMove
    BY EveryRowMoves
  <2>1. \A n \in Nodes : node'[n] # None => <<n, stamp'[n].updated>> \in stamped'
    BY <2>0 DEF HeldInv, RowsMove, RowMoves
  <2>2. ASSUME NEW h, HeldOK(h) PROVE HeldOK(h)'
    BY <2>0, <2>2, HeldKept
  <2>3. CASE held' = held
    <3>1. ASSUME NEW u \in Readers, held'[u] # None PROVE HeldOK(held[u])'
      <4>1. PICK h : h = held[u]
        OBVIOUS
      <4>2. HeldOK(h)'
        BY <2>2, <2>3, <3>1, <4>1 DEF HeldInv
      <4> QED BY <2>3, <4>1, <4>2 DEF HeldOK, ReadAt
    <3> QED BY <2>1, <2>3, <3>1 DEF HeldInv
  <2>4. ASSUME NEW u \in Readers, GetUserServers(u), held' # held PROVE HeldInv'
    <3>1. PICK h : h = [list |-> Served(u), etag |-> CacheKeys(Served(u))]
      OBVIOUS
    <3>2. held' = [held EXCEPT ![u] = h]
      BY <2>4, <3>1 DEF GetUserServers
    <3>3. HeldOK(h)
      BY <3>1, ServedIsHeld
    <3>4. ASSUME NEW r \in Readers, held'[r] # None PROVE HeldOK(held[r])'
      <4>1. PICK g : g = held'[r]
        OBVIOUS
      <4>2. HeldOK(g)
        BY <3>2, <3>3, <3>4, <4>1 DEF HeldInv
      <4>3. HeldOK(g)'
        BY <2>2, <4>2
      <4> QED BY <4>1, <4>3 DEF HeldOK, ReadAt
    <3> QED BY <2>1, <3>2, <3>4 DEF HeldInv
  <2>5. held' = held \/ \E u \in Readers : GetUserServers(u)
    <3>1. ASSUME NEW n \in Nodes, NEW x \in Nodes, CopyNode(n, x) PROVE held' = held
      BY <3>1 DEF CopyNode, Write, browserVars
    <3>2. ASSUME NEW n \in Nodes, NEW data \in NewNodes, CreateNode(n, data) PROVE held' = held
      BY <3>2 DEF CreateNode, Write, browserVars
    <3>3. ASSUME NEW n \in Nodes, NEW patch \in Patches, UpdateNode(n, patch) PROVE held' = held
      BY <3>3 DEF UpdateNode, Write, browserVars
    <3>4. ASSUME NEW n \in Nodes, DeleteNode(n) \/ OpenNodeForm(n) PROVE held' = held
      BY <3>4 DEF DeleteNode, OpenNodeForm, Write, browserVars
    <3>5. ASSUME NEW edit \in FormEdits, SaveNodeForm(edit) PROVE held' = held
      BY <3>5 DEF SaveNodeForm, Write, browserVars
    <3>6. CASE UNCHANGED nodeVars
      BY <3>6 DEF nodeVars, browserVars
    <3>7. CASE Browsing
      BY <3>7 DEF Browsing, NextSecond, ResetUuid, SetBanned, BillTraffic, Renew, ShowInfo, browserVars
    <3> QED BY <3>1, <3>2, <3>3, <3>4, <3>5, <3>6, <3>7 DEF NodesNext, NodeWrites
  <2> QED BY <2>3, <2>4, <2>5
<1>3. HeldInv => NotModifiedIsTrue
  <2> SUFFICES ASSUME HeldInv, NEW u \in Readers, NotModified(u)
               PROVE  LET list == held[u].list
                      IN /\ {x.node : x \in list.nodes} = {x.node : x \in Served(u).nodes}
                         /\ Len(list.infos) = Len(Served(u).infos)
                         /\ \A x \in list.nodes :
                              <<x.node, stamp[x.node].updated>> \notin twins => x.columns = node[x.node]
    BY DEF NotModifiedIsTrue
  <2> DEFINE h == held[u]
  <2>1. /\ HeldOK(h) /\ h.etag.infos = Len(Served(u).infos)
        /\ h.etag.nodes = {<<x.node, stamp[x.node].updated>> : x \in Served(u).nodes}
    BY DEF HeldInv, NotModified, CacheKeys
  <2> HIDE DEF h
  <2>2. ASSUME NEW x \in h.list.nodes
        PROVE  /\ \E y \in Served(u).nodes : y.node = x.node
               /\ <<x.node, stamp[x.node].updated>> \notin twins => x.columns = node[x.node]
    <3>1. PICK v : ReadAt(h, x, v)
      BY <2>1 DEF HeldOK
    <3>2. PICK y \in Served(u).nodes : <<x.node, v>> = <<y.node, stamp[y.node].updated>>
      BY <2>1, <3>1 DEF ReadAt
    <3>3. y.node = x.node /\ stamp[x.node].updated = v
      BY <3>2
    <3>4. node[x.node] # None
      BY <3>3 DEF Served, Visible, Live
    <3> QED BY <3>1, <3>3, <3>4 DEF ReadAt
  <2>3. ASSUME NEW y \in Served(u).nodes PROVE \E x \in h.list.nodes : x.node = y.node
    <3>1. <<y.node, stamp[y.node].updated>> \in h.etag.nodes
      BY <2>1
    <3> QED BY <2>1, <3>1 DEF HeldOK
  <2>4. {x.node : x \in h.list.nodes} = {x.node : x \in Served(u).nodes}
    BY <2>2, <2>3
  <2>5. Len(h.list.infos) = Len(Served(u).infos)
    BY <2>1 DEF HeldOK
  <2> QED BY <2>2, <2>4, <2>5 DEF h
<1> QED BY <1>1, <1>2, <1>3, NodeInvHolds, PTL DEF NodesSpec

(***************************************************************************)
(* References.  A deletion that nobody excuses has seen that nothing of    *)
(* the kinds it went through refers to its row, and since then nothing     *)
(* has; an erasure has found all that belongs to its user.                 *)
(***************************************************************************)
RefTypes ==
  /\ rows \subseteq Rows /\ refs \in [Rows -> (SUBSET Rows) \cup {None}]
  /\ \A x \in rows : refs[x] # None /\ \A t \in refs[x] : KindOf[t] \in Refers[KindOf[x]]

\* What a session holds.
ClerkOK(c) ==
  /\ c \in [op : (DOMAIN Refers) \cup {"checkout", "delete", "erase"}, on : Rows \cup {None},
            adds : SUBSET Rows, step : Nat \ {0}, gone : SUBSET Rows, excused : BOOLEAN]
  /\ c.op \in DOMAIN Refers => \A t \in c.adds : KindOf[t] \in Refers[c.op]
  /\ c.op = "checkout" =>
       c.on \in Rows /\ KindOf[c.on] = "order" /\ \A t \in c.adds : KindOf[t] \in Refers["order"]
  /\ c.op = "delete" => c.on \in Rows /\ KindOf[c.on] \in DOMAIN Checks
  /\ c.op = "erase" => c.on \in Rows /\ KindOf[c.on] = "user"

\* The kinds up to a deletion's step do not refer to its row.
Unreferred(c) ==
  \A i \in 1 .. Len(Checks[KindOf[c.on]]), y \in rows :
    i < c.step /\ KindOf[y] = Checks[KindOf[c.on]][i] => c.on \notin refs[y]

\* An erasure has what belongs to its user, as far as it got, ...
Collected(c) ==
  /\ \A i \in 2..5, y \in rows : i < c.step /\ KindOf[y] = Belongings[i] /\ c.on \in refs[y] => y \in c.gone
  /\ \A y, t \in rows :
       1 < c.step /\ KindOf[y] = "message" /\ KindOf[t] = "ticket" /\ t \in refs[y] /\ c.on \in refs[t]
         => y \in c.gone
  /\ \A t \in c.gone \cap rows : KindOf[t] = "ticket" => c.on \in refs[t]

\* ... and nothing but that.
Born(c) ==
  \A y \in c.gone : refs[y] # None /\ KindOf[y] \in {"message", "ticket", "order", "code", "user"}

Seen(c) ==
  /\ c.op = "delete" => Unreferred(c) \/ c.excused
  /\ c.op = "erase" => Born(c) /\ (Collected(c) \/ c.excused)

CatalogInv ==
  /\ RefTypes /\ NoDangling /\ DOMAIN clerk = Clerks
  /\ \A s \in Clerks : clerk[s] # None => ClerkOK(clerk[s]) /\ Seen(clerk[s])

\* What a reference from x to targets touches (Refer).
Touched(x, targets) ==
  LET new == IF x \in rows THEN targets \ refs[x] ELSE targets
  IN new \cup UNION {refs[t] : t \in new \cap rows}

\* Row x refers to targets from now on; a ticket or a message, only when it is new.
Adds(x, targets) ==
  /\ x \in Rows /\ targets \subseteq Rows
  /\ refs' = [refs EXCEPT ![x] = targets] /\ rows' = rows \cup {x}
  /\ x \in rows \/ refs[x] = None
  /\ KindOf[x] \in {"ticket", "message"} => refs[x] = None
  /\ \A t \in targets : KindOf[t] \in Refers[KindOf[x]]

\* Rows go, references go; those of a ticket or a message stay.
Shrinks ==
  /\ rows' \subseteq rows /\ refs' \in [Rows -> (SUBSET Rows) \cup {None}]
  /\ \A y \in rows' : refs'[y] # None /\ refs'[y] \subseteq refs[y]
  /\ \A y \in rows' : KindOf[y] \in {"ticket", "message"} => refs'[y] = refs[y]
  /\ \A y \in Rows : refs[y] # None => refs'[y] # None

\* Only a kind that Checks names refers to a row that can be deleted.
LEMMA ChecksCover ==
  ASSUME NEW kind \in DOMAIN Checks, NEW by \in DOMAIN Refers, kind \in Refers[by]
  PROVE  \E i \in 1 .. Len(Checks[kind]) : Checks[kind][i] = by
<1>1. DOMAIN Checks = {"group", "route", "plan", "payment"}
  BY DEF Checks
<1>2. /\ Checks["group"] = <<"node", "plan", "user">> /\ Checks["route"] = <<"node">>
      /\ Checks["plan"] = <<"order", "user">> /\ Checks["payment"] = <<"order">>
  BY DEF Checks
<1>3. /\ "group" \in Refers[by] => by \in {"node", "plan", "user"}
      /\ "route" \in Refers[by] => by = "node"
      /\ "plan" \in Refers[by] => by \in {"order", "user"}
      /\ "payment" \in Refers[by] => by = "order"
  BY DEF Refers
<1>4. CASE kind = "group"
  BY <1>2, <1>3, <1>4
<1>5. CASE kind = "route"
  BY <1>2, <1>3, <1>5
<1>6. CASE kind = "plan"
  BY <1>2, <1>3, <1>6
<1>7. CASE kind = "payment"
  BY <1>2, <1>3, <1>7
<1> QED BY <1>1, <1>4, <1>5, <1>6, <1>7

\* What a session has seen stays true when rows and references go.
LEMMA SeenShrunk ==
  ASSUME RefTypes, Shrinks, NEW c, ClerkOK(c), Seen(c)
  PROVE  Seen(c)'
<1>1. Unreferred(c) => Unreferred(c)'
  BY DEF Unreferred, Shrinks
<1>2. Collected(c) => Collected(c)'
  <2> SUFFICES ASSUME Collected(c) PROVE Collected(c)'
    OBVIOUS
  <2>1. \A i \in 2..5, y \in rows' : i < c.step /\ KindOf[y] = Belongings[i] /\ c.on \in refs'[y] => y \in c.gone
    BY DEF Collected, Shrinks
  <2>2. \A y, t \in rows' :
          1 < c.step /\ KindOf[y] = "message" /\ KindOf[t] = "ticket" /\ t \in refs'[y] /\ c.on \in refs'[t]
            => y \in c.gone
    BY DEF Collected, Shrinks
  <2>3. \A t \in c.gone \cap rows' : KindOf[t] = "ticket" => c.on \in refs'[t]
    BY DEF Collected, Shrinks
  <2> QED BY <2>1, <2>2, <2>3 DEF Collected
<1>3. Born(c) => Born(c)'
  BY DEF Born, Shrinks, ClerkOK
<1> QED BY <1>1, <1>2, <1>3 DEF Seen

\* A new reference that does not touch a session's row leaves what it has seen
\* true, and Born in any case.
LEMMA SeenGrown ==
  ASSUME RefTypes, NEW x, NEW targets, Adds(x, targets), NEW c, ClerkOK(c), Seen(c)
  PROVE  /\ c.on \notin Touched(x, targets) => Seen(c)'
         /\ Born(c) => Born(c)'
<1>0. /\ x \in Rows /\ targets \subseteq Rows /\ targets # None
      /\ rows' = rows \cup {x} /\ (x \in rows \/ refs[x] = None)
      /\ refs'[x] = targets /\ \A y \in Rows : y # x => refs'[y] = refs[y]
      /\ rows \subseteq Rows /\ \A y \in rows : refs[y] # None /\ refs[y] \subseteq Rows
  <2>1. x \in Rows /\ targets \subseteq Rows /\ rows' = rows \cup {x} /\ (x \in rows \/ refs[x] = None)
    BY DEF Adds
  <2>2. targets # None
    BY <2>1, CatalogAssumption
  <2>3. refs'[x] = targets /\ \A y \in Rows : y # x => refs'[y] = refs[y]
    BY <2>1 DEF Adds, RefTypes
  <2>4. rows \subseteq Rows /\ \A y \in rows : refs[y] # None
    BY DEF RefTypes
  <2>5. ASSUME NEW y \in rows PROVE refs[y] \subseteq Rows
    <3>1. refs[y] \in (SUBSET Rows) \cup {None}
      BY <2>4 DEF RefTypes
    <3> QED BY <2>4, <3>1
  <2> QED BY <2>1, <2>2, <2>3, <2>4, <2>5
<1>1. Born(c) => Born(c)'
  BY <1>0 DEF Born, ClerkOK
<1>2. ASSUME c.on \notin Touched(x, targets) PROVE Seen(c)'
  <2>1. /\ c.on \in targets => x \in rows /\ c.on \in refs[x]
        /\ \A t \in targets \cap rows : c.on \in refs[t] => x \in rows /\ t \in refs[x]
    BY <1>2 DEF Touched
  <2>a. ASSUME NEW y \in rows', c.on \in refs'[y] PROVE y \in rows /\ c.on \in refs[y]
    BY <1>0, <2>1, <2>a
  <2>2. Unreferred(c) => Unreferred(c)'
    BY <2>a DEF Unreferred
  <2>3. ASSUME Collected(c), Born(c), c.op = "erase" PROVE Collected(c)'
    <3>1. \A i \in 2..5, y \in rows' : i < c.step /\ KindOf[y] = Belongings[i] /\ c.on \in refs'[y] => y \in c.gone
      BY <2>a, <2>3 DEF Collected
    <3>2. ASSUME NEW y \in rows', NEW t \in rows', 1 < c.step, KindOf[y] = "message", KindOf[t] = "ticket",
                 t \in refs'[y], c.on \in refs'[t]
          PROVE  y \in c.gone
      <4>1. CASE t = x
        <5>1. x \notin rows
          BY <1>0, <3>2, <4>1 DEF Adds
        <5> QED BY <1>0, <2>1, <3>2, <4>1, <5>1
      <4>2. CASE y = x /\ t # x
        <5>1. x \notin rows /\ t \in rows /\ refs'[t] = refs[t] /\ t \in targets
          BY <1>0, <3>2, <4>2 DEF Adds
        <5> QED BY <2>1, <3>2, <5>1
      <4>3. CASE y # x /\ t # x
        <5>1. y \in rows /\ t \in rows /\ t \in refs[y] /\ c.on \in refs[t]
          BY <1>0, <3>2, <4>3
        <5> QED BY <2>3, <3>2, <5>1 DEF Collected
      <4> QED BY <4>1, <4>2, <4>3
    <3>3. ASSUME NEW t \in c.gone \cap rows', KindOf[t] = "ticket" PROVE c.on \in refs'[t]
      <4>1. t # x
        BY <2>3, <3>3 DEF Born, Adds
      <4>2. t \in rows /\ refs'[t] = refs[t]
        BY <1>0, <3>3, <4>1
      <4> QED BY <2>3, <3>3, <4>2 DEF Collected
    <3> QED BY <3>1, <3>2, <3>3 DEF Collected
  <2> QED BY <1>1, <2>2, <2>3 DEF Seen
<1> QED BY <1>1, <1>2

\* A step that only goes on with one session.
LEMMA ClerkStepOK ==
  ASSUME CatalogInv, UNCHANGED <<rows, refs, loose>>, NEW s \in Clerks, NEW c,
         clerk' = [clerk EXCEPT ![s] = c], c # None => ClerkOK(c) /\ Seen(c)
  PROVE  CatalogInv'
<1>1. RefTypes' /\ NoDangling' /\ DOMAIN clerk' = Clerks
  BY DEF CatalogInv, RefTypes, NoDangling
<1>2. ASSUME NEW r \in Clerks, clerk'[r] # None PROVE ClerkOK(clerk[r])' /\ Seen(clerk[r])'
  <2>1. PICK d : d = clerk'[r]
    OBVIOUS
  <2>2. ClerkOK(d) /\ Seen(d)
    BY <1>2, <2>1 DEF CatalogInv
  <2>3. ClerkOK(d)' /\ Seen(d)'
    BY <2>2 DEF ClerkOK, Seen, Unreferred, Collected, Born
  <2> QED BY <2>1, <2>3 DEF ClerkOK, Seen, Unreferred, Collected, Born
<1> QED BY <1>1, <1>2 DEF CatalogInv

\* A step by which rows and references go, and the sessions that did it end.
LEMMA ShrinkStepOK ==
  ASSUME CatalogInv, Shrinks, NoDangling', DOMAIN clerk' = Clerks,
         \A s \in Clerks : clerk'[s] \in {None, clerk[s]}
  PROVE  CatalogInv'
<1>1. RefTypes'
  <2>1. rows' \subseteq Rows /\ refs' \in [Rows -> (SUBSET Rows) \cup {None}]
    BY DEF Shrinks, CatalogInv, RefTypes
  <2>2. \A x \in rows' : refs'[x] # None /\ \A t \in refs'[x] : KindOf[t] \in Refers[KindOf[x]]
    BY DEF Shrinks, CatalogInv, RefTypes
  <2> QED BY <2>1, <2>2 DEF RefTypes
<1>2. ASSUME NEW r \in Clerks, clerk'[r] # None PROVE ClerkOK(clerk[r])' /\ Seen(clerk[r])'
  <2>1. PICK d : d = clerk'[r]
    OBVIOUS
  <2>2. d = clerk[r] /\ d # None
    BY <1>2, <2>1
  <2>3. RefTypes /\ ClerkOK(d) /\ Seen(d)
    BY <2>2 DEF CatalogInv
  <2>4. Seen(d)'
    BY <2>3, SeenShrunk
  <2> QED BY <2>1, <2>3, <2>4 DEF ClerkOK, Seen, Unreferred, Collected, Born
<1> QED BY <1>1, <1>2 DEF CatalogInv

\* A step by which a row gets references.
LEMMA ReferStepOK ==
  ASSUME CatalogInv, NEW x, NEW targets, NEW done, Refer(x, targets, done), Adds(x, targets)
  PROVE  CatalogInv'
<1>0. /\ x \in Rows /\ targets \subseteq Rows /\ targets # None
      /\ rows' = rows \cup {x}
      /\ refs'[x] = targets /\ \A y \in Rows : y # x => refs'[y] = refs[y]
      /\ refs \in [Rows -> (SUBSET Rows) \cup {None}] /\ rows \subseteq Rows
  <2>1. x \in Rows /\ targets \subseteq Rows /\ rows' = rows \cup {x}
    BY DEF Adds
  <2>2. targets # None
    BY <2>1, CatalogAssumption
  <2>3. refs \in [Rows -> (SUBSET Rows) \cup {None}] /\ rows \subseteq Rows
    BY DEF CatalogInv, RefTypes
  <2>4. refs'[x] = targets /\ \A y \in Rows : y # x => refs'[y] = refs[y]
    BY <2>1, <2>3 DEF Adds
  <2> QED BY <2>1, <2>2, <2>3, <2>4
<1> DEFINE new == IF x \in rows THEN targets \ refs[x] ELSE targets
<1>1. RefTypes'
  <2>1. refs' \in [Rows -> (SUBSET Rows) \cup {None}]
    BY <1>0 DEF Adds
  <2>2. ASSUME NEW y \in rows' PROVE refs'[y] # None /\ \A t \in refs'[y] : KindOf[t] \in Refers[KindOf[y]]
    <3>1. CASE y = x
      BY <1>0, <3>1 DEF Adds
    <3>2. CASE y # x
      BY <1>0, <3>2 DEF CatalogInv, RefTypes
    <3> QED BY <3>1, <3>2
  <2> QED BY <1>0, <2>1, <2>2 DEF RefTypes
<1>2. loose' = loose \cup (new \ rows)
  BY DEF Refer
<1>3. NoDangling'
  <2> SUFFICES ASSUME NEW y \in rows', NEW t \in refs'[y] PROVE t \in rows' \cup loose'
    BY DEF NoDangling
  <2>1. CASE y # x
    BY <1>0, <1>2, <2>1 DEF CatalogInv, NoDangling
  <2>2. CASE y = x /\ t \in new
    BY <1>0, <1>2, <2>2
  <2>3. CASE y = x /\ t \notin new
    <3>1. x \in rows /\ t \in refs[x]
      BY <1>0, <2>3
    <3> QED BY <1>0, <1>2, <3>1 DEF CatalogInv, NoDangling
  <2> QED BY <2>1, <2>2, <2>3
<1>4. clerk' = [s \in Clerks |->
             IF s \in done THEN None
             ELSE IF clerk[s] # None /\ clerk[s].op \in {"delete", "erase"} /\ clerk[s].on \in Touched(x, targets)
                  THEN [clerk[s] EXCEPT !.excused = TRUE] ELSE clerk[s]]
  BY DEF Refer, Touched
<1>5. ASSUME NEW r \in Clerks, clerk'[r] # None PROVE ClerkOK(clerk[r])' /\ Seen(clerk[r])'
  <2>1. PICK c : c = clerk[r]
    OBVIOUS
  <2>2. PICK d : d = clerk'[r]
    OBVIOUS
  <2>3. CASE d = c
    <3>1. RefTypes /\ ClerkOK(c) /\ Seen(c)
      BY <1>5, <2>1, <2>2, <2>3 DEF CatalogInv
    <3>2. CASE c.on \in Touched(x, targets) /\ c.op \in {"delete", "erase"}
      <4>1. d = [c EXCEPT !.excused = TRUE]
        BY <1>4, <1>5, <2>1, <2>2, <2>3, <3>2
      <4>2. c.excused
        BY <2>3, <3>1, <4>1 DEF ClerkOK
      <4>3. Born(c) => Born(c)'
        BY <3>1, SeenGrown
      <4>4. Seen(c)'
        BY <3>1, <4>2, <4>3 DEF Seen
      <4> QED BY <2>2, <2>3, <3>1, <4>4 DEF ClerkOK, Seen, Unreferred, Collected, Born
    <3>3. CASE c.op \notin {"delete", "erase"}
      <4>1. Seen(c)'
        BY <3>3 DEF Seen
      <4> QED BY <2>2, <2>3, <3>1, <4>1 DEF ClerkOK, Seen, Unreferred, Collected, Born
    <3>4. CASE c.on \notin Touched(x, targets)
      <4>1. Seen(c)'
        BY <3>1, <3>4, SeenGrown
      <4> QED BY <2>2, <2>3, <3>1, <4>1 DEF ClerkOK, Seen, Unreferred, Collected, Born
    <3> QED BY <3>2, <3>3, <3>4
  <2>4. CASE d # c
    <3>1. c # None /\ d = [c EXCEPT !.excused = TRUE]
      BY <1>4, <1>5, <2>1, <2>2, <2>4
    <3>2. RefTypes /\ ClerkOK(c) /\ Seen(c)
      BY <2>1, <3>1 DEF CatalogInv
    <3>3. /\ d.op = c.op /\ d.on = c.on /\ d.gone = c.gone /\ d.adds = c.adds /\ d.step = c.step
          /\ d.excused /\ ClerkOK(d)
      BY <3>1, <3>2 DEF ClerkOK
    <3>4. Born(c) => Born(c)'
      BY <3>2, SeenGrown
    <3>5. Seen(d)'
      BY <3>2, <3>3, <3>4 DEF Seen, Born
    <3> QED BY <2>2, <3>3, <3>5 DEF ClerkOK, Seen, Unreferred, Collected, Born
  <2> QED BY <2>3, <2>4
<1> QED BY <1>1, <1>3, <1>4, <1>5 DEF CatalogInv

\* A session that begins has seen nothing yet.
LEMMA TakeOK ==
  ASSUME CatalogInv, NEW s \in Clerks, UNCHANGED <<rows, refs, loose>>,
         NEW op \in (DOMAIN Refers) \cup {"checkout", "delete", "erase"}, NEW on \in Rows \cup {None},
         NEW adds \in SUBSET Rows, Take(s, op, on, adds),
         op \in DOMAIN Refers => \A t \in adds : KindOf[t] \in Refers[op],
         op = "checkout" => on \in Rows /\ KindOf[on] = "order" /\ \A t \in adds : KindOf[t] \in Refers["order"],
         op = "delete" => on \in Rows /\ KindOf[on] \in DOMAIN Checks,
         op = "erase" => on \in Rows /\ KindOf[on] = "user"
  PROVE  CatalogInv'
<1> DEFINE c == [op |-> op, on |-> on, adds |-> adds, step |-> 1, gone |-> {}, excused |-> FALSE]
<1>1. clerk' = [clerk EXCEPT ![s] = c]
  BY DEF Take
<1>2. /\ c.op = op /\ c.on = on /\ c.adds = adds /\ c.step = 1 /\ c.gone = {}
      /\ c \in [op : (DOMAIN Refers) \cup {"checkout", "delete", "erase"}, on : Rows \cup {None},
            adds : SUBSET Rows, step : Nat \ {0}, gone : SUBSET Rows, excused : BOOLEAN]
  OBVIOUS
<1> HIDE DEF c
<1>3. ClerkOK(c)
  BY <1>2 DEF ClerkOK
<1>4. Unreferred(c)
  BY <1>2 DEF Unreferred
<1>5. Collected(c) /\ Born(c)
  BY <1>2 DEF Collected, Born
<1>6. Seen(c)
  BY <1>4, <1>5 DEF Seen
<1> QED BY <1>1, <1>3, <1>6, ClerkStepOK

\* Each kind of row refers to what its operation gives it.
LEMMA BeginsOK ==
  ASSUME CatalogInv, NEW s \in Clerks, ClerkBegin(s)
  PROVE  CatalogInv'
<1>0. /\ RefTypes /\ rows \subseteq Rows /\ \A x \in rows : refs[x] # None /\ refs[x] \subseteq Rows
      /\ \A x \in rows : \A t \in refs[x] : KindOf[t] \in Refers[KindOf[x]]
  <2>1. RefTypes
    BY DEF CatalogInv
  <2>2. ASSUME NEW x \in rows PROVE refs[x] \subseteq Rows
    <3>1. refs[x] \in (SUBSET Rows) \cup {None} /\ refs[x] # None
      BY <2>1 DEF RefTypes
    <3> QED BY <3>1
  <2> QED BY <2>1, <2>2 DEF RefTypes
<1>a. /\ Refers["order"] = {"user", "plan", "payment"} /\ Refers["user"] = {"group", "plan", "user"}
      /\ Refers["ticket"] = {"user"} /\ Refers["code"] = {"user"} /\ Refers["message"] = {"ticket"}
      /\ {"order", "user", "ticket", "code", "message"} \subseteq DOMAIN Refers
      /\ "checkout" \notin DOMAIN Refers /\ "delete" \notin DOMAIN Refers /\ "erase" \notin DOMAIN Refers
  BY DEF Refers
<1>1. ASSUME NEW u \in Rows, NEW p \in Rows, CreateOrder(s, u, p) PROVE CatalogInv'
  <2>1. KindOf[u] = "user" /\ KindOf[p] = "plan" /\ Take(s, "order", None, {u, p}) /\ UNCHANGED <<rows, refs, loose>>
    BY <1>1 DEF CreateOrder, Have, Kind
  <2>2. \A t \in {u, p} : KindOf[t] \in Refers["order"]
    BY <1>a, <2>1
  <2> QED BY <1>a, <2>1, <2>2, TakeOK
<1>2. ASSUME NEW o \in Rows, NEW y \in Rows, Checkout(s, o, y) PROVE CatalogInv'
  <2> DEFINE adds == {y} \cup (refs[o] \ Kind("payment"))
  <2>1. /\ o \in rows /\ KindOf[o] = "order" /\ KindOf[y] = "payment"
        /\ Take(s, "checkout", o, adds) /\ UNCHANGED <<rows, refs, loose>>
    BY <1>2 DEF Checkout, Have, Kind
  <2>2. adds \in SUBSET Rows /\ \A t \in adds : KindOf[t] \in Refers["order"]
    BY <1>0, <1>a, <2>1
  <2> HIDE DEF adds
  <2> QED BY <1>a, <2>1, <2>2, TakeOK
<1>3. ASSUME NEW p \in Rows, GenerateUser(s, p) PROVE CatalogInv'
  <2> DEFINE adds == {p} \cup RefsOf(p, "group")
  <2>1. /\ p \in rows /\ KindOf[p] = "plan" /\ Take(s, "user", None, adds) /\ UNCHANGED <<rows, refs, loose>>
    BY <1>3 DEF GenerateUser, Have, Kind
  <2>2. adds \in SUBSET Rows /\ \A t \in adds : KindOf[t] \in Refers["user"]
    BY <1>0, <1>a, <2>1 DEF RefsOf, Kind
  <2> HIDE DEF adds
  <2> QED BY <1>a, <2>1, <2>2, TakeOK
<1>4. ASSUME NEW p \in Rows, Register(s, p) PROVE CatalogInv'
  <2> DEFINE adds == RefsOf(p, "user")
  <2>1. Take(s, "user", None, adds) /\ UNCHANGED <<rows, refs, loose>>
    BY <1>4 DEF Register
  <2>2. adds \in SUBSET Rows /\ \A t \in adds : KindOf[t] \in Refers["user"]
    BY <1>0, <1>a DEF RefsOf, Kind
  <2> HIDE DEF adds
  <2> QED BY <1>a, <2>1, <2>2, TakeOK
<1>5. ASSUME NEW x \in Rows, DeleteRow(s, x) PROVE CatalogInv'
  <2>1. KindOf[x] \in DOMAIN Checks /\ Take(s, "delete", x, {}) /\ UNCHANGED <<rows, refs, loose>>
    BY <1>5 DEF DeleteRow
  <2> QED BY <1>a, <2>1, TakeOK
<1>6. ASSUME NEW x \in Rows, DeleteUser(s, x) PROVE CatalogInv'
  <2>1. KindOf[x] = "user" /\ Take(s, "erase", x, {}) /\ UNCHANGED <<rows, refs, loose>>
    BY <1>6 DEF DeleteUser, Have, Kind
  <2> QED BY <1>a, <2>1, TakeOK
<1>7. ASSUME NEW kind \in {"ticket", "code", "message"}, NEW x \in Rows, Begin(s, kind, x) PROVE CatalogInv'
  <2>1. Take(s, kind, None, {x}) /\ UNCHANGED <<rows, refs, loose>>
    BY <1>7 DEF Begin
  <2>2. \A t \in {x} : KindOf[t] \in Refers[kind]
    BY <1>7, <1>a DEF Begin
  <2> QED BY <1>a, <2>1, <2>2, TakeOK
<1> QED BY <1>1, <1>2, <1>3, <1>4, <1>5, <1>6, <1>7 DEF ClerkBegin

\* References that are typed, given with a plan, or inserted.
LEMMA RefersOK ==
  ASSUME CatalogInv
  PROVE  /\ \A x \in Rows, targets \in SUBSET Rows : TypeRefs(x, targets) => CatalogInv'
         /\ \A u, p \in Rows : Open(u, p) => CatalogInv'
         /\ \A s \in Clerks, x \in Rows : Insert(s, x) => CatalogInv'
         /\ \A s \in Clerks : CommitCheckout(s) => CatalogInv'
<1>0. /\ RefTypes /\ rows \subseteq Rows /\ \A x \in rows : refs[x] # None /\ refs[x] \subseteq Rows
      /\ \A x \in rows : \A t \in refs[x] : KindOf[t] \in Refers[KindOf[x]]
      /\ \A s \in Clerks : clerk[s] # None => ClerkOK(clerk[s])
  <2>1. RefTypes
    BY DEF CatalogInv
  <2>2. ASSUME NEW x \in rows PROVE refs[x] \subseteq Rows
    <3>1. refs[x] \in (SUBSET Rows) \cup {None} /\ refs[x] # None
      BY <2>1 DEF RefTypes
    <3> QED BY <3>1
  <2> QED BY <2>1, <2>2 DEF RefTypes, CatalogInv
<1>1. ASSUME NEW x \in Rows, NEW targets \in SUBSET Rows, TypeRefs(x, targets) PROVE CatalogInv'
  <2>1. Refer(x, targets, {}) /\ rows' = rows \cup {x} /\ (x \in rows \/ refs[x] = None)
        /\ KindOf[x] \notin {"ticket", "message"} /\ \A t \in targets : KindOf[t] \in Refers[KindOf[x]]
    BY <1>1 DEF TypeRefs, Unborn, Typed
  <2>2. Adds(x, targets)
    BY <2>1 DEF Adds, Refer
  <2> QED BY <2>1, <2>2, ReferStepOK
<1>2. ASSUME NEW u \in Rows, NEW p \in Rows, Open(u, p) PROVE CatalogInv'
  <2> DEFINE targets == {p} \cup RefsOf(p, "group") \cup RefsOf(u, "user")
  <2>1. /\ Refer(u, targets, {}) /\ rows' = rows /\ u \in rows /\ p \in rows
        /\ KindOf[u] = "user" /\ KindOf[p] = "plan"
    BY <1>2 DEF Open, Have, Kind
  <2>2. targets \subseteq Rows
    BY <1>0, <2>1 DEF RefsOf
  <2>3. \A t \in targets : KindOf[t] \in {"plan", "group", "user"}
    BY <2>1 DEF RefsOf, Kind
  <2> HIDE DEF targets
  <2>4. \A t \in targets : KindOf[t] \in Refers[KindOf[u]]
    BY <2>1, <2>3 DEF Refers
  <2>5. Adds(u, targets)
    BY <2>1, <2>2, <2>4 DEF Adds, Refer
  <2> QED BY <2>1, <2>5, ReferStepOK
<1>3. ASSUME NEW s \in Clerks, NEW x \in Rows, Insert(s, x) PROVE CatalogInv'
  <2>1. PICK c : c = clerk[s]
    OBVIOUS
  <2>2. /\ Refer(x, c.adds, {s}) /\ rows' = rows \cup {x} /\ refs[x] = None
        /\ KindOf[x] = c.op /\ c # None
    BY <1>3, <2>1 DEF Insert, Unborn
  <2>3. ClerkOK(c)
    BY <1>0, <2>1, <2>2
  <2>4. c.adds \subseteq Rows /\ c.op \in DOMAIN Refers
    BY <2>2, <2>3, CatalogAssumption DEF ClerkOK
  <2>5. \A t \in c.adds : KindOf[t] \in Refers[KindOf[x]]
    BY <2>2, <2>3, <2>4 DEF ClerkOK
  <2>6. Adds(x, c.adds)
    BY <2>2, <2>4, <2>5 DEF Adds, Refer
  <2> QED BY <2>2, <2>6, ReferStepOK
<1>4. ASSUME NEW s \in Clerks, CommitCheckout(s) PROVE CatalogInv'
  <2>1. PICK c : c = clerk[s]
    OBVIOUS
  <2>2. Refer(c.on, c.adds, {s}) /\ rows' = rows /\ c.on \in rows /\ c.op = "checkout" /\ c # None
    BY <1>4, <2>1 DEF CommitCheckout, Busy
  <2>3. ClerkOK(c)
    BY <1>0, <2>1, <2>2
  <2>4. c.adds \subseteq Rows /\ KindOf[c.on] = "order" /\ \A t \in c.adds : KindOf[t] \in Refers["order"]
    BY <2>2, <2>3 DEF ClerkOK
  <2>6. Adds(c.on, c.adds)
    BY <1>0, <2>2, <2>4 DEF Adds, Refer
  <2> QED BY <2>2, <2>6, ReferStepOK
<1> QED BY <1>1, <1>2, <1>3, <1>4

\* CheckUse goes through one more kind.
LEMMA CheckUseOK ==
  ASSUME CatalogInv, NEW s \in Clerks, CheckUse(s)
  PROVE  CatalogInv'
<1>1. PICK c : c = clerk[s]
  OBVIOUS
<1>2. PICK d : d = clerk'[s]
  OBVIOUS
<1>3. /\ c # None /\ c.op = "delete" /\ UNCHANGED <<rows, refs, loose>>
      /\ InUse(c.on, Checks[KindOf[c.on]][c.step]) = {}
  BY <1>1 DEF CheckUse, Busy
<1>4. ClerkOK(c) /\ Seen(c) /\ DOMAIN clerk = Clerks /\ RefTypes
  BY <1>1, <1>3 DEF CatalogInv
<1> DEFINE late == KindOf[c.on] = "plan" /\ \E y \in Have("user") : c.on \in refs[y] /\ ~Counted(y)
<1>5. /\ clerk' = [clerk EXCEPT ![s] = d] /\ ClerkOK(d)
      /\ d.op = "delete" /\ d.on = c.on /\ d.step = c.step + 1 /\ (c.excused \/ late => d.excused)
  <2>1. clerk' = [clerk EXCEPT ![s].step = @ + 1, ![s].excused = @ \/ late]
    BY <1>1 DEF CheckUse
  <2>2. PICK e \in BOOLEAN : e = (c.excused \/ late)
    OBVIOUS
  <2>3. clerk' = [clerk EXCEPT ![s] = [c EXCEPT !.step = c.step + 1, !.excused = e]]
    BY <1>1, <1>4, <2>1, <2>2 DEF ClerkOK
  <2>4. d = [c EXCEPT !.step = c.step + 1, !.excused = e]
    BY <1>2, <1>4, <2>3
  <2> HIDE DEF late
  <2>5. /\ d.op = c.op /\ d.on = c.on /\ d.step = c.step + 1 /\ d.excused = e
        /\ d.adds = c.adds /\ d.gone = c.gone
        /\ d = [op |-> c.op, on |-> c.on, adds |-> c.adds, step |-> c.step + 1, gone |-> c.gone, excused |-> e]
    BY <1>4, <2>4 DEF ClerkOK
  <2>6. ClerkOK(d)
    BY <1>3, <1>4, <2>5 DEF ClerkOK
  <2>7. c.excused \/ late => d.excused
    BY <2>2, <2>5, Zenon
  <2> QED BY <1>3, <2>3, <2>4, <2>5, <2>6, <2>7
<1>6. Seen(d)
  <2> SUFFICES ASSUME ~d.excused PROVE Unreferred(d)
    BY <1>5 DEF Seen
  <2>1. Unreferred(c) /\ ~late
    BY <1>3, <1>4, <1>5 DEF Seen
  <2>2. ASSUME NEW y \in rows, KindOf[y] = Checks[KindOf[c.on]][c.step] PROVE c.on \notin refs[y]
    <3> SUFFICES ASSUME c.on \in refs[y] PROVE FALSE
      OBVIOUS
    <3>1. y \in Have(KindOf[y]) /\ y \in Rows
      BY <1>4 DEF Have, Kind, RefTypes
    <3>2. KindOf[y] = "user" /\ KindOf[c.on] = "plan" /\ ~Counted(y)
      BY <1>3, <2>2, <3>1 DEF InUse
    <3> QED BY <2>1, <3>1, <3>2
  <2>3. ASSUME NEW i \in 1 .. Len(Checks[KindOf[c.on]]), NEW y \in rows, i < d.step, KindOf[y] = Checks[KindOf[c.on]][i]
        PROVE  c.on \notin refs[y]
    <3>1. c.step \in Nat /\ d.step = c.step + 1
      BY <1>4, <1>5 DEF ClerkOK
    <3>2. i \in Int
      OBVIOUS
    <3>3. i < c.step \/ i = c.step
      BY <2>3, <3>1, <3>2
    <3> QED BY <2>1, <2>2, <2>3, <3>3 DEF Unreferred
  <2> QED BY <1>5, <2>3 DEF Unreferred
<1> QED BY <1>3, <1>5, <1>6, ClerkStepOK

\* Erase finds what belongs to the user, one kind after the other.
LEMMA EraseOK ==
  ASSUME CatalogInv, NEW s \in Clerks, Erase(s)
  PROVE  CatalogInv'
<1>1. PICK c : c = clerk[s]
  OBVIOUS
<1>2. PICK kind : kind = Belongings[c.step]
  OBVIOUS
<1> DEFINE owners == IF kind = "message" THEN {t \in Have("ticket") : c.on \in refs[t]} ELSE {c.on}
           found == {y \in Have(kind) : refs[y] \cap owners # {}}
<1>3. /\ c # None /\ c.op = "erase" /\ UNCHANGED <<rows, refs, loose>> /\ c.step <= Len(Belongings)
      /\ clerk' = [clerk EXCEPT ![s].step = @ + 1, ![s].gone = @ \cup found]
  BY <1>1, <1>2 DEF Erase, Busy
<1>4. ClerkOK(c) /\ Seen(c) /\ DOMAIN clerk = Clerks /\ RefTypes
  BY <1>1, <1>3 DEF CatalogInv
<1>5. PICK d : d = [c EXCEPT !.step = c.step + 1, !.gone = c.gone \cup found]
  OBVIOUS
<1>6. found \subseteq rows /\ rows \subseteq Rows /\ \A y \in found : KindOf[y] = kind
  BY <1>4 DEF Have, Kind, RefTypes
<1>7. clerk' = [clerk EXCEPT ![s] = d]
  <2> HIDE DEF found
  <2> QED BY <1>1, <1>3, <1>4, <1>5 DEF ClerkOK
<1>8. /\ ClerkOK(d) /\ d.op = "erase" /\ d.on = c.on /\ d.step = c.step + 1 /\ d.gone = c.gone \cup found
      /\ d.excused = c.excused
  <2> HIDE DEF found
  <2>1. c.gone \cup found \subseteq Rows /\ c.step + 1 \in Nat \ {0}
    BY <1>4, <1>6 DEF ClerkOK
  <2>2. /\ d.op = c.op /\ d.on = c.on /\ d.step = c.step + 1 /\ d.gone = c.gone \cup found
        /\ d.excused = c.excused /\ d.adds = c.adds
        /\ d = [op |-> c.op, on |-> c.on, adds |-> c.adds, step |-> c.step + 1, gone |-> c.gone \cup found,
                excused |-> c.excused]
    BY <1>4, <1>5 DEF ClerkOK
  <2>3. ClerkOK(d)
    BY <1>3, <1>4, <2>1, <2>2 DEF ClerkOK
  <2> QED BY <1>3, <2>2, <2>3
<1>9. c.step \in 1..5 /\ kind \in {"message", "ticket", "order", "code", "user"}
      /\ (kind = "message" => c.step = 1) /\ (kind = "ticket" => c.step = 2) /\ (c.step = 1 => kind = "message")
  <2>1. c.step \in Nat \ {0} /\ c.step <= 5
    BY <1>3, <1>4 DEF ClerkOK, Belongings
  <2>2. c.step \in 1..5
    BY <2>1
  <2> QED BY <1>2, <2>2 DEF Belongings
<1>10. Born(d)
  <2>1. Born(c)
    BY <1>3, <1>4 DEF Seen
  <2>2. \A y \in found : refs[y] # None
    BY <1>4, <1>6 DEF RefTypes
  <2> HIDE DEF found
  <2> QED BY <1>6, <1>8, <1>9, <2>1, <2>2 DEF Born
<1>11. ASSUME Collected(c) PROVE Collected(d)
  <2>1. ASSUME NEW i \in 2..5, NEW y \in rows, i < d.step, KindOf[y] = Belongings[i], c.on \in refs[y]
        PROVE  y \in d.gone
    <3>1. CASE i < c.step
      BY <1>8, <1>11, <2>1, <3>1 DEF Collected
    <3>2. CASE i = c.step
      <4>1. y \in Have(kind) /\ kind # "message"
        BY <1>2, <1>6, <1>9, <2>1, <3>2 DEF Have, Kind
      <4>2. y \in found
        BY <2>1, <4>1
      <4> QED BY <1>8, <4>2
    <3>3. i < c.step \/ i = c.step
      BY <1>8, <1>9, <2>1
    <3> QED BY <3>1, <3>2, <3>3
  <2>2. ASSUME NEW y \in rows, NEW t \in rows, KindOf[y] = "message", KindOf[t] = "ticket",
               t \in refs[y], c.on \in refs[t]
        PROVE  y \in d.gone
    <3>1. CASE 1 < c.step
      BY <1>8, <1>11, <2>2, <3>1 DEF Collected
    <3>2. CASE c.step = 1
      <4>1. kind = "message"
        BY <1>9, <3>2
      <4>2. t \in owners /\ y \in Have(kind)
        BY <1>6, <2>2, <4>1 DEF Have, Kind
      <4>3. y \in found
        BY <2>2, <4>2
      <4> QED BY <1>8, <4>3
    <3> QED BY <1>9, <3>1, <3>2
  <2>3. ASSUME NEW t \in d.gone \cap rows, KindOf[t] = "ticket" PROVE c.on \in refs[t]
    <3>1. CASE t \in c.gone
      BY <1>11, <2>3, <3>1 DEF Collected
    <3>2. CASE t \in found
      <4>1. kind = "ticket"
        BY <1>6, <2>3, <3>2
      <4> QED BY <3>2, <4>1
    <3> QED BY <1>8, <3>1, <3>2
  <2> QED BY <1>8, <2>1, <2>2, <2>3 DEF Collected
<1>12. Seen(d)
  BY <1>3, <1>4, <1>8, <1>10, <1>11 DEF Seen
<1> QED BY <1>3, <1>7, <1>8, <1>12, ClerkStepOK

\* DELETE of a row that Checks names: everything that could refer to it has
\* been looked at.
LEMMA CommitDeleteOK ==
  ASSUME CatalogInv, NEW s \in Clerks, CommitDelete(s)
  PROVE  CatalogInv'
<1>1. PICK c : c = clerk[s]
  OBVIOUS
<1>2. /\ c # None /\ c.op = "delete" /\ refs' = refs /\ rows' = rows \ {c.on} /\ c.on \in rows
      /\ c.step > Len(Checks[KindOf[c.on]]) /\ clerk' = [clerk EXCEPT ![s] = None]
      /\ loose \subseteq loose' /\ (c.excused => c.on \in loose')
  BY <1>1 DEF CommitDelete, Busy
<1>3. ClerkOK(c) /\ Seen(c) /\ DOMAIN clerk = Clerks /\ RefTypes /\ NoDangling
  BY <1>1, <1>2 DEF CatalogInv
<1>4. Shrinks
  BY <1>2, <1>3 DEF Shrinks, RefTypes
<1>5. ASSUME NEW y \in rows', c.on \in refs[y] PROVE c.on \in loose'
  <2>1. CASE c.excused
    BY <1>2, <2>1
  <2>2. CASE Unreferred(c)
    <3>1. y \in rows /\ KindOf[y] \in DOMAIN Refers /\ KindOf[c.on] \in Refers[KindOf[y]]
      BY <1>2, <1>3, <1>5, CatalogAssumption DEF RefTypes
    <3>2. KindOf[c.on] \in DOMAIN Checks
      BY <1>2, <1>3 DEF ClerkOK
    <3>3. PICK i \in 1 .. Len(Checks[KindOf[c.on]]) : Checks[KindOf[c.on]][i] = KindOf[y]
      BY <3>1, <3>2, ChecksCover
    <3>4. c.step \in Nat /\ Len(Checks[KindOf[c.on]]) \in Nat
      <4>1. c.step \in Nat
        BY <1>3 DEF ClerkOK
      <4>2. \A kind \in {"group", "route", "plan", "payment"} : Len(Checks[kind]) \in Nat
        BY DEF Checks
      <4>3. DOMAIN Checks = {"group", "route", "plan", "payment"}
        BY DEF Checks
      <4> QED BY <3>2, <4>1, <4>2, <4>3
    <3>5. i < c.step
      BY <1>2, <3>4
    <3> QED BY <1>5, <2>2, <3>1, <3>3, <3>5 DEF Unreferred
  <2> QED BY <1>2, <1>3, <2>1, <2>2 DEF Seen
<1>6. NoDangling'
  BY <1>2, <1>3, <1>5 DEF NoDangling
<1>7. DOMAIN clerk' = Clerks /\ \A r \in Clerks : clerk'[r] \in {None, clerk[r]}
  BY <1>2, <1>3
<1> QED BY <1>4, <1>6, <1>7, ShrinkStepOK

\* Nothing refers to a node.
LEMMA RemoveNodeOK ==
  ASSUME CatalogInv, NEW n, RemoveNode(n)
  PROVE  CatalogInv'
<1>1. /\ n \in rows /\ KindOf[n] = "node" /\ rows' = rows \ {n} /\ UNCHANGED <<refs, clerk, loose>>
  BY DEF RemoveNode, Have, Kind
<1>2. RefTypes /\ NoDangling /\ DOMAIN clerk = Clerks
  BY DEF CatalogInv
<1>3. Shrinks
  BY <1>1, <1>2 DEF Shrinks, RefTypes
<1>4. \A by \in DOMAIN Refers : "node" \notin Refers[by]
  BY DEF Refers
<1>5. \A y \in rows : n \notin refs[y]
  BY <1>1, <1>2, <1>4, CatalogAssumption DEF RefTypes
<1>6. NoDangling'
  BY <1>1, <1>2, <1>5 DEF NoDangling
<1> QED BY <1>1, <1>2, <1>3, <1>6, ShrinkStepOK

\* DELETE of a user and of what the session found: what is left does not refer
\* to any of it.
LEMMA CommitEraseOK ==
  ASSUME CatalogInv, NEW s \in Clerks, CommitErase(s)
  PROVE  CatalogInv'
<1>1. PICK c : c = clerk[s]
  OBVIOUS
<1> DEFINE gone == {y \in c.gone : KindOf[y] # "user"} \cup {c.on}
<1>2. /\ c # None /\ c.op = "erase" /\ rows' = rows \ gone /\ c.on \in rows /\ c.step > Len(Belongings)
      /\ refs' = [y \in Rows |-> IF y \in c.gone THEN refs[y] \ {c.on} ELSE refs[y]]
      /\ clerk' = [clerk EXCEPT ![s] = None]
      /\ loose \subseteq loose' /\ (c.excused => gone \subseteq loose')
  BY <1>1 DEF CommitErase, Busy
<1>3. ClerkOK(c) /\ Seen(c) /\ DOMAIN clerk = Clerks /\ RefTypes /\ NoDangling
  BY <1>1, <1>2 DEF CatalogInv
<1>4. Born(c) /\ (Collected(c) \/ c.excused) /\ c.gone \subseteq Rows /\ KindOf[c.on] = "user" /\ c.on \in Rows
      /\ c.step \in Nat /\ c.step > 5
  BY <1>2, <1>3 DEF Seen, ClerkOK, Belongings
<1>5. ASSUME NEW y \in Rows, refs[y] # None
      PROVE  refs'[y] # None /\ refs'[y] \subseteq refs[y] /\ refs'[y] \subseteq Rows
  <2>1. refs[y] \subseteq Rows
    <3>1. refs[y] \in (SUBSET Rows) \cup {None}
      BY <1>3 DEF RefTypes
    <3> QED BY <1>5, <3>1
  <2>2. refs'[y] = (IF y \in c.gone THEN refs[y] \ {c.on} ELSE refs[y])
    BY <1>2
  <2>3. refs'[y] \subseteq Rows /\ refs'[y] \subseteq refs[y]
    BY <2>1, <2>2
  <2> QED BY <2>3, CatalogAssumption
<1>6. Shrinks
  <2>1. rows' \subseteq rows /\ rows \subseteq Rows
    BY <1>2, <1>3 DEF RefTypes
  <2>2. refs' \in [Rows -> (SUBSET Rows) \cup {None}]
    <3>1. ASSUME NEW y \in Rows PROVE refs'[y] \in (SUBSET Rows) \cup {None}
      <4>1. CASE refs[y] = None
        <5>1. y \notin c.gone
          BY <1>4, <4>1 DEF Born
        <5> QED BY <1>2, <4>1, <5>1
      <4> QED BY <1>5, <4>1
    <3>2. DOMAIN refs' = Rows /\ refs' = [y \in Rows |-> refs'[y]]
      BY <1>2
    <3> QED BY <3>1, <3>2
  <2>3. \A y \in rows' : refs'[y] # None /\ refs'[y] \subseteq refs[y]
    BY <1>3, <1>5, <2>1 DEF RefTypes
  <2>4. ASSUME NEW y \in rows', KindOf[y] \in {"ticket", "message"} PROVE refs'[y] = refs[y]
    <3>1. y \notin c.gone
      BY <1>2, <2>4
    <3> QED BY <1>2, <2>1, <3>1
  <2> QED BY <1>5, <2>1, <2>2, <2>3, <2>4 DEF Shrinks
<1>7. ASSUME Collected(c), NEW y \in rows', NEW t \in refs'[y], t \in gone, t \in rows PROVE FALSE
  <2>1. /\ y \in rows /\ y \in Rows /\ t \in refs[y] /\ y \notin gone /\ t \in Rows
        /\ KindOf[y] \in DOMAIN Refers /\ KindOf[t] \in Refers[KindOf[y]]
    BY <1>2, <1>3, <1>6, <1>7, CatalogAssumption DEF RefTypes, Shrinks
  <2>2. CASE t = c.on
    <3>1. \A by \in DOMAIN Refers : "user" \in Refers[by] => by \in {"user", "order", "ticket", "code"}
      BY DEF Refers
    <3>2. KindOf[y] \in {"user", "order", "ticket", "code"}
      BY <1>4, <2>1, <2>2, <3>1
    <3>3. Belongings[2] = "ticket" /\ Belongings[3] = "order" /\ Belongings[4] = "code" /\ Belongings[5] = "user"
      BY DEF Belongings
    <3>4. PICK i \in 2..5 : KindOf[y] = Belongings[i]
      BY <3>2, <3>3
    <3>5. i < c.step
      BY <1>4
    <3>6. y \in c.gone
      BY <1>7, <2>1, <2>2, <3>4, <3>5 DEF Collected
    <3>7. KindOf[y] = "user"
      BY <2>1, <3>6
    <3>8. refs'[y] = refs[y] \ {c.on}
      BY <1>2, <2>1, <3>6
    <3> QED BY <1>7, <2>2, <3>8
  <2>3. CASE t # c.on
    <3>1. t \in c.gone /\ KindOf[t] # "user"
      BY <1>7, <2>3
    <3>2. KindOf[t] \in {"message", "ticket", "order", "code"}
      BY <1>4, <3>1 DEF Born
    <3>3. \A by \in DOMAIN Refers : /\ Refers[by] \cap {"message", "order", "code"} = {}
                                    /\ "ticket" \in Refers[by] => by = "message"
      BY DEF Refers
    <3>4. KindOf[t] = "ticket" /\ KindOf[y] = "message"
      BY <2>1, <3>2, <3>3
    <3>5. c.on \in refs[t]
      BY <1>7, <3>1, <3>4 DEF Collected
    <3>6. y \in c.gone
      BY <1>4, <1>7, <2>1, <3>4, <3>5 DEF Collected
    <3> QED BY <2>1, <3>4, <3>6
  <2> QED BY <2>2, <2>3
<1>8. NoDangling'
  <2> SUFFICES ASSUME NEW y \in rows', NEW t \in refs'[y] PROVE t \in rows' \cup loose'
    BY DEF NoDangling
  <2>1. t \in rows \cup loose
    BY <1>3, <1>6 DEF NoDangling, Shrinks
  <2>2. CASE t \in loose
    BY <1>2, <2>2
  <2>3. CASE t \in rows /\ t \notin gone
    BY <1>2, <2>3
  <2>4. CASE t \in rows /\ t \in gone
    BY <1>2, <1>4, <1>7, <2>4
  <2> QED BY <2>1, <2>2, <2>3, <2>4
<1>9. DOMAIN clerk' = Clerks /\ \A r \in Clerks : clerk'[r] \in {None, clerk[r]}
  BY <1>2, <1>3
<1> QED BY <1>6, <1>8, <1>9, ShrinkStepOK

\* delete_group, delete_route, delete_plan, delete_payment, delete_user: no row
\* refers to one that is gone, but for what the code leaves open (loose).
THEOREM NothingDangles ==
  ASSUME NEW start, StartOK(start)
  PROVE  CatalogSpec(start) => []NoDangling
<1>1. CatalogInit(start) => CatalogInv
  <2> SUFFICES ASSUME CatalogInit(start) PROVE CatalogInv
    OBVIOUS
  <2>1. rows = start.rows /\ refs = start.refs /\ clerk = [s \in Clerks |-> None]
    BY DEF CatalogInit
  <2>2. RefTypes
    BY <2>1 DEF StartOK, RefTypes
  <2>3. NoDangling
    BY <2>1 DEF StartOK, NoDangling
  <2> QED BY <2>1, <2>2, <2>3 DEF CatalogInv
<1>2. CatalogInv /\ [CatalogNext]_catalogVars => CatalogInv'
  <2> SUFFICES ASSUME CatalogInv, [CatalogNext]_catalogVars PROVE CatalogInv'
    OBVIOUS
  <2>1. CASE UNCHANGED <<rows, refs, clerk, loose>>
    BY <2>1 DEF CatalogInv, RefTypes, NoDangling, ClerkOK, Seen, Unreferred, Collected, Born
  <2>2. CASE CatalogChange
    <3>1. ASSUME NEW x \in Rows, NEW y \in Rows, NEW targets \in SUBSET Rows,
                 TypeRefs(x, targets) \/ Open(x, y) \/ RemoveNode(x)
          PROVE  CatalogInv'
      BY <2>1, <3>1, RefersOK, RemoveNodeOK
    <3>2. CASE \E p \in Rows, show, renew \in BOOLEAN, limit \in Nat : SetOffer(p, show, renew, limit)
      BY <2>1, <3>2 DEF SetOffer
    <3>3. CASE \E u \in Rows, expiry \in Nat : SetAccount(u, expiry)
      BY <2>1, <3>3 DEF SetAccount
    <3>4. CASE NextMoment
      BY <2>1, <3>4 DEF NextMoment
    <3> QED BY <2>2, <3>1, <3>2, <3>3, <3>4 DEF CatalogChange
  <2>3. ASSUME NEW s \in Clerks, ClerkStep(s) PROVE CatalogInv'
    <3>1. CASE GiveUp(s)
      <4>1. clerk' = [clerk EXCEPT ![s] = None] /\ UNCHANGED <<rows, refs, loose>>
        BY <3>1 DEF GiveUp
      <4> QED BY <4>1, ClerkStepOK
    <3> QED BY <2>3, <3>1, RefersOK, CheckUseOK, CommitDeleteOK, EraseOK, CommitEraseOK DEF ClerkStep
  <2> QED BY <2>1, <2>2, <2>3, BeginsOK DEF CatalogNext, catalogVars
<1>3. CatalogInv => NoDangling
  BY DEF CatalogInv
<1> QED BY <1>1, <1>2, <1>3, PTL DEF CatalogSpec

(***************************************************************************)
(* Desk.  What a session that is not stale has read is still so, because   *)
(* only sessions of the same owner write the owner's rows; and a message   *)
(* that it will commit is newer than all that the owner has.               *)
(***************************************************************************)
TicketRows == [user : Clients \ Team, status : {0, 1}, reply : {0, 1}]

\* m is the newest message of ticket t (Last, where there is one).
Newest(t, m) == m \in Of(t) /\ \A x \in Of(t) : x.id <= m.id

DeskRows ==
  /\ ticket \in [Tickets -> TicketRows \cup {None}]
  /\ messages \subseteq [id : Nat, ticket : Tickets, author : Clients]
  /\ nextId \in Nat
  /\ \A m \in messages : Exists(m.ticket) /\ m.id < nextId
  /\ \A m, x \in messages : m.id = x.id => m = x
  /\ \A t \in Tickets : Exists(t) => \E m : Newest(t, m)

\* The three rules of TicketsKept for one user.
UserOK(u) ==
  /\ \A t, o \in OpenTickets(u) \ reopened : t = o
  /\ \A t \in Tickets : Exists(t) /\ ticket[t].user = u =>
       /\ \A m, x \in Of(t) : m.author = u /\ x.author = u /\ x.id > m.id =>
            \E y \in Of(t) : y.author # u /\ m.id < y.id /\ y.id < x.id
       /\ \A m : Newest(t, m) => (ticket[t].reply = 0 <=> m.author = u)

OnTicket == {"turn", "insert", "reply", "close"}

\* What a session knows whatever the others did, ...
DeskOK(c) ==
  /\ c.owner \in Clients
  /\ c = [step |-> c.step, owner |-> c.owner, author |-> c.author, ticket |-> c.ticket,
          read |-> c.read, id |-> c.id, to |-> c.to, stale |-> c.stale]
  /\ c.step \in OnTicket =>
       /\ c.ticket \in Tickets /\ Exists(c.ticket) /\ ticket[c.ticket].user = c.owner
       /\ c.read \in TicketRows /\ c.read.user = c.owner
       /\ c.author \in Clients /\ (c.author = c.owner \/ c.author \in Team)
  /\ c.step \in {"create", "turn"} => c.author = c.owner /\ c.owner \notin Team
  /\ c.step = "reply" => c.id \in Nat /\ c.id < nextId /\ \A m \in messages : m.id # c.id

\* ... and what it knows until another session of its owner commits.
Fresh(c) ==
  /\ c.step \in OnTicket => ticket[c.ticket] = c.read
  /\ c.step = "create" => OpenTickets(c.owner) = {}
  /\ c.step \in {"insert", "reply"} /\ c.author = c.owner =>
       \A m : Newest(c.ticket, m) => m.author # c.owner
  /\ c.step = "reply" => \A m \in messages : ticket[m.ticket].user = c.owner => m.id < c.id

DeskInv ==
  /\ DeskRows /\ \A u \in Clients : u \notin raced => UserOK(u)
  /\ DOMAIN desk = Desks
  /\ \A s \in Desks : desk[s] # None => DeskOK(desk[s]) /\ (Fresh(desk[s]) \/ desk[s].stale)
  /\ \A s, r \in Desks : s # r /\ desk[s] # None /\ desk[r] # None /\ desk[s].step = "reply" /\ desk[r].step = "reply"
       => desk[s].id # desk[r].id

\* There is one newest message.
LEMMA NewestIsOne ==
  ASSUME DeskRows, NEW t \in Tickets, NEW m, NEW x, Newest(t, m), Newest(t, x)
  PROVE  m = x
<1>1. m \in messages /\ x \in messages /\ m.id \in Nat /\ x.id \in Nat /\ m.id <= x.id /\ x.id <= m.id
  BY DEF Newest, Of, DeskRows
<1>2. m.id = x.id
  BY <1>1
<1> QED BY <1>1, <1>2 DEF DeskRows

\* Last is the newest message.
LEMMA LastIsNewest ==
  ASSUME DeskRows, NEW t \in Tickets, NEW m, Newest(t, m)
  PROVE  Last(t) = m
<1>1. \E x \in Of(t) : \A y \in Of(t) : y.id <= x.id
  BY DEF Newest
<1>2. Last(t) \in Of(t) /\ \A y \in Of(t) : y.id <= Last(t).id
  BY <1>1, Zenon DEF Last
<1>3. Newest(t, Last(t))
  BY <1>2 DEF Newest
<1> QED BY <1>3, NewestIsOne

\* A step that goes on with one session and writes nothing.
LEMMA DeskGoesOn ==
  ASSUME DeskInv, UNCHANGED <<ticket, messages, raced, reopened>>, nextId' \in Nat, nextId <= nextId',
         NEW s \in Desks, NEW c, desk' = [desk EXCEPT ![s] = c],
         c # None => DeskOK(c)' /\ (Fresh(c) \/ c.stale),
         c # None /\ c.step = "reply" => c.id >= nextId
  PROVE  DeskInv'
<1>0. nextId \in Nat /\ messages \subseteq [id : Nat, ticket : Tickets, author : Clients]
  BY DEF DeskInv, DeskRows
<1>1. DeskRows'
  <2>1. ASSUME NEW m \in messages PROVE Exists(m.ticket)' /\ m.id < nextId'
    <3>1. m.id \in Nat /\ m.id < nextId /\ Exists(m.ticket)
      BY <1>0 DEF DeskInv, DeskRows
    <3> QED BY <1>0, <3>1 DEF Exists
  <2>2. \A t \in Tickets : Exists(t)' => \E m : Newest(t, m)'
    BY DEF DeskInv, DeskRows, Exists, Newest, Of
  <2> QED BY <2>1, <2>2 DEF DeskInv, DeskRows
<1>2. \A u \in Clients : u \notin raced' => UserOK(u)'
  BY DEF DeskInv, UserOK, OpenTickets, Exists, Of, Newest
<1>3. ASSUME NEW r \in Desks, desk'[r] # None PROVE DeskOK(desk[r])' /\ (Fresh(desk[r]) \/ desk[r].stale)'
  <2>1. PICK d : d = desk'[r]
    OBVIOUS
  <2>2. CASE r = s
    <3>1. d = c
      BY <2>1, <2>2 DEF DeskInv
    <3>2. DeskOK(d)' /\ (Fresh(d)' \/ d.stale)
      BY <1>3, <2>1, <3>1 DEF Fresh, OpenTickets, Exists, Newest, Of
    <3> QED BY <2>1, <3>2 DEF DeskOK, Fresh
  <2>3. CASE r # s
    <3>1. d = desk[r]
      BY <2>1, <2>3 DEF DeskInv
    <3>2. DeskOK(d) /\ (Fresh(d) \/ d.stale)
      BY <1>3, <2>1, <3>1 DEF DeskInv
    <3>3. DeskOK(d)'
      BY <1>0, <3>2 DEF DeskOK, Exists
    <3>4. Fresh(d)' \/ d.stale
      BY <3>2 DEF Fresh, OpenTickets, Exists, Newest, Of
    <3> QED BY <2>1, <3>3, <3>4 DEF DeskOK, Fresh
  <2> QED BY <2>2, <2>3
<1>4. ASSUME NEW q \in Desks, NEW r \in Desks, q # r, desk'[q] # None, desk'[r] # None,
             desk'[q].step = "reply", desk'[r].step = "reply"
      PROVE  desk'[q].id # desk'[r].id
  <2>1. \A p \in Desks : p # s => desk'[p] = desk[p]
    BY DEF DeskInv
  <2>2. desk'[s] = c
    BY DEF DeskInv
  <2>3. ASSUME NEW p \in Desks, p # s, desk'[p] # None, desk'[p].step = "reply"
        PROVE  desk'[p].id \in Nat /\ desk'[p].id < nextId
    BY <2>1, <2>3 DEF DeskInv, DeskOK
  <2>4. CASE q = s
    <3>1. desk'[r].id \in Nat /\ desk'[r].id < nextId
      BY <1>4, <2>3, <2>4
    <3>2. c.id >= nextId /\ c.id \in Nat
      BY <1>4, <2>2, <2>4 DEF DeskOK
    <3> QED BY <1>0, <2>2, <2>4, <3>1, <3>2
  <2>5. CASE r = s
    <3>1. desk'[q].id \in Nat /\ desk'[q].id < nextId
      BY <1>4, <2>3, <2>5
    <3>2. c.id >= nextId /\ c.id \in Nat
      BY <1>4, <2>2, <2>5 DEF DeskOK
    <3> QED BY <1>0, <2>2, <2>5, <3>1, <3>2
  <2>6. CASE q # s /\ r # s
    BY <1>4, <2>1, <2>6 DEF DeskInv
  <2> QED BY <2>4, <2>5, <2>6
<1> QED BY <1>1, <1>2, <1>3, <1>4 DEF DeskInv

\* What a commit of the owner o may write: rows and messages of o, and messages
\* that no other session has taken the key of.
Writes(o, c) ==
  /\ \A t \in Tickets : ticket'[t] # ticket[t] => (Exists(t) => ticket[t].user = o) /\ ticket'[t].user = o
  /\ \A t \in Tickets : Exists(t) => Exists(t)' /\ ticket'[t].user = ticket[t].user
  /\ messages \subseteq messages'
  /\ \A m \in messages' : m \notin messages =>
       ticket'[m.ticket].user = o /\ (m.id >= nextId \/ (c.step = "reply" /\ m.id = c.id))
  /\ nextId' >= nextId /\ reopened \subseteq reopened'

\* A commit leaves the rows of other users, and what their sessions know, alone;
\* the sessions of the same owner are stale from then on.
LEMMA DeskCommits ==
  ASSUME DeskInv, NEW s \in Desks, NEW c, c = desk[s], c # None, CommitDesk(s), DeskRows', Writes(c.owner, c),
         c.owner \notin raced /\ Fresh(c) => UserOK(c.owner)'
  PROVE  DeskInv'
<1> DEFINE o == c.owner
<1>0. /\ nextId \in Nat /\ nextId' \in Nat /\ nextId' >= nextId
      /\ messages \subseteq [id : Nat, ticket : Tickets, author : Clients]
      /\ messages' \subseteq [id : Nat, ticket : Tickets, author : Clients]
  BY DEF DeskInv, DeskRows, Writes
<1>1. /\ desk' = [x \in Desks |-> IF x = s THEN None
                    ELSE IF desk[x] # None /\ desk[x].owner = o
                         THEN [desk[x] EXCEPT !.stale = TRUE] ELSE desk[x]]
      /\ raced' = IF c.stale THEN raced \cup {o} ELSE raced
  BY DEF CommitDesk
<1>2. c.stale \/ Fresh(c)
  BY DEF DeskInv
<1>3. ASSUME NEW u \in Clients, u # o
      PROVE  /\ \A t \in Tickets : Exists(t)' /\ ticket'[t].user = u <=> Exists(t) /\ ticket[t].user = u
             /\ \A t \in Tickets : Exists(t) /\ ticket[t].user = u => ticket'[t] = ticket[t] /\ Of(t)' = Of(t)
             /\ \A m \in messages' : ticket'[m.ticket].user = u => m \in messages /\ ticket[m.ticket].user = u
  <2>1. ASSUME NEW t \in Tickets, Exists(t), ticket[t].user = u PROVE ticket'[t] = ticket[t] /\ Of(t)' = Of(t)
    <3>1. ticket'[t] = ticket[t]
      BY <1>3, <2>1 DEF Writes
    <3>2. \A m \in messages' : m.ticket = t => m \in messages
      BY <1>3, <2>1, <3>1 DEF Writes
    <3>3. messages \subseteq messages'
      BY DEF Writes
    <3> QED BY <3>1, <3>2, <3>3 DEF Of
  <2>2. ASSUME NEW t \in Tickets, Exists(t)', ticket'[t].user = u PROVE Exists(t) /\ ticket[t].user = u
    BY <1>3, <2>2 DEF Writes, Exists
  <2>3. ASSUME NEW m \in messages', ticket'[m.ticket].user = u PROVE m \in messages /\ ticket[m.ticket].user = u
    <3>1. m \in messages
      BY <1>3, <2>3 DEF Writes
    <3>2. m.ticket \in Tickets /\ Exists(m.ticket)'
      BY <1>0, <2>3 DEF DeskRows
    <3> QED BY <2>2, <2>3, <3>1, <3>2
  <2>4. ASSUME NEW t \in Tickets, Exists(t), ticket[t].user = u PROVE Exists(t)' /\ ticket'[t].user = u
    BY <2>4 DEF Writes
  <2> QED BY <2>1, <2>2, <2>3, <2>4
<1>4. ASSUME NEW u \in Clients, u \notin raced' PROVE UserOK(u)'
  <2>1. CASE u = o
    BY <1>1, <1>2, <1>4, <2>1
  <2>2. CASE u # o
    <3>1. UserOK(u)
      BY <1>1, <1>4 DEF DeskInv
    <3>2. reopened \subseteq reopened'
      BY DEF Writes
    <3>3. \A t \in Tickets : t \in OpenTickets(u)' => t \in OpenTickets(u)
      BY <1>3, <2>2 DEF OpenTickets
    <3>4. \A t, p \in OpenTickets(u)' \ reopened' : t = p
      BY <3>1, <3>2, <3>3 DEF UserOK, OpenTickets
    <3>5. ASSUME NEW t \in Tickets, Exists(t)', ticket'[t].user = u
          PROVE  /\ \A m, x \in Of(t)' : m.author = u /\ x.author = u /\ x.id > m.id =>
                      \E y \in Of(t)' : y.author # u /\ m.id < y.id /\ y.id < x.id
                 /\ \A m : Newest(t, m)' => (ticket'[t].reply = 0 <=> m.author = u)
      <4>1. Exists(t) /\ ticket[t].user = u /\ ticket'[t] = ticket[t] /\ Of(t)' = Of(t)
        BY <1>3, <2>2, <3>5
      <4>2. /\ \A m, x \in Of(t) : m.author = u /\ x.author = u /\ x.id > m.id =>
                      \E y \in Of(t) : y.author # u /\ m.id < y.id /\ y.id < x.id
            /\ \A m : Newest(t, m) => (ticket[t].reply = 0 <=> m.author = u)
        BY <3>1, <4>1 DEF UserOK
      <4>3. \A m : Newest(t, m)' => Newest(t, m)
        BY <4>1 DEF Newest
      <4> QED BY <4>1, <4>2, <4>3
    <3> QED BY <3>4, <3>5 DEF UserOK
  <2> QED BY <2>1, <2>2
<1>5. ASSUME NEW r \in Desks, desk'[r] # None
      PROVE  \E b : /\ b = desk[r] /\ b # None /\ r # s /\ desk'[r].owner = b.owner /\ desk'[r].step = b.step
                    /\ desk'[r].author = b.author /\ desk'[r].ticket = b.ticket /\ desk'[r].read = b.read
                    /\ desk'[r].id = b.id /\ (b.owner # o => desk'[r] = b)
                    /\ desk'[r] = [step |-> b.step, owner |-> b.owner, author |-> b.author, ticket |-> b.ticket,
                                   read |-> b.read, id |-> b.id, to |-> b.to, stale |-> desk'[r].stale]
                    /\ (b.owner = o => desk'[r].stale)
  <2>1. r # s
    BY <1>1, <1>5
  <2>2. PICK b : b = desk[r]
    OBVIOUS
  <2>3. CASE b # None /\ b.owner = o
    <3>1. desk'[r] = [b EXCEPT !.stale = TRUE]
      BY <1>1, <2>1, <2>2, <2>3
    <3>2. b = [step |-> b.step, owner |-> b.owner, author |-> b.author, ticket |-> b.ticket,
               read |-> b.read, id |-> b.id, to |-> b.to, stale |-> b.stale]
      BY <2>2, <2>3 DEF DeskInv, DeskOK
    <3>3. desk'[r] = [step |-> b.step, owner |-> b.owner, author |-> b.author, ticket |-> b.ticket,
                      read |-> b.read, id |-> b.id, to |-> b.to, stale |-> TRUE]
      BY <3>1, <3>2
    <3>4. desk'[r].stale
      BY <3>3
    <3>5. desk'[r] = [step |-> b.step, owner |-> b.owner, author |-> b.author, ticket |-> b.ticket,
                      read |-> b.read, id |-> b.id, to |-> b.to, stale |-> desk'[r].stale]
      BY <3>3
    <3>6. /\ desk'[r].owner = b.owner /\ desk'[r].step = b.step /\ desk'[r].author = b.author
          /\ desk'[r].ticket = b.ticket /\ desk'[r].read = b.read /\ desk'[r].id = b.id
      BY <3>3
    <3> QED BY <2>1, <2>2, <2>3, <3>4, <3>5, <3>6
  <2>4. CASE ~(b # None /\ b.owner = o)
    <3>1. desk'[r] = b
      BY <1>1, <2>1, <2>2, <2>4
    <3>2. b = [step |-> b.step, owner |-> b.owner, author |-> b.author, ticket |-> b.ticket,
               read |-> b.read, id |-> b.id, to |-> b.to, stale |-> b.stale]
      BY <1>5, <2>2, <3>1 DEF DeskInv, DeskOK
    <3> QED BY <1>5, <2>1, <2>2, <2>4, <3>1, <3>2
  <2> QED BY <2>3, <2>4
<1>6. ASSUME NEW r \in Desks, desk'[r] # None PROVE DeskOK(desk[r])' /\ (Fresh(desk[r]) \/ desk[r].stale)'
  <2>1. PICK d : d = desk'[r]
    OBVIOUS
  <2>2. PICK b : /\ b = desk[r] /\ b # None /\ r # s /\ d.owner = b.owner /\ d.step = b.step
                 /\ d.author = b.author /\ d.ticket = b.ticket /\ d.read = b.read
                 /\ d.id = b.id /\ (b.owner # o => d = b) /\ (b.owner = o => d.stale)
                 /\ d = [step |-> b.step, owner |-> b.owner, author |-> b.author, ticket |-> b.ticket,
                         read |-> b.read, id |-> b.id, to |-> b.to, stale |-> d.stale]
    BY <1>5, <1>6, <2>1
  <2>3. DeskOK(b) /\ (Fresh(b) \/ b.stale)
    BY <2>2 DEF DeskInv
  <2>4. ASSUME d.step \in OnTicket
        PROVE  /\ d.ticket \in Tickets /\ Exists(d.ticket)' /\ ticket'[d.ticket].user = d.owner
               /\ d.read \in TicketRows /\ d.read.user = d.owner
               /\ d.author \in Clients /\ (d.author = d.owner \/ d.author \in Team)
    <3>1. /\ b.ticket \in Tickets /\ Exists(b.ticket) /\ ticket[b.ticket].user = b.owner
          /\ b.read \in TicketRows /\ b.read.user = b.owner
          /\ b.author \in Clients /\ (b.author = b.owner \/ b.author \in Team)
      BY <2>2, <2>3, <2>4 DEF DeskOK
    <3>2. Exists(b.ticket)' /\ ticket'[b.ticket].user = b.owner
      BY <3>1 DEF Writes
    <3> QED BY <2>2, <3>1, <3>2
  <2>5. ASSUME d.step = "reply" PROVE d.id \in Nat /\ d.id < nextId' /\ \A m \in messages' : m.id # d.id
    <3>1. b.id \in Nat /\ b.id < nextId /\ \A m \in messages : m.id # b.id
      BY <2>2, <2>3, <2>5 DEF DeskOK
    <3>2. ASSUME NEW m \in messages', m \notin messages PROVE m.id # b.id
      <4>1. m.id >= nextId \/ (c.step = "reply" /\ m.id = c.id)
        BY <3>2 DEF Writes
      <4>2. m.id \in Nat
        BY <1>0
      <4>3. c.step = "reply" => c.id # b.id
        BY <2>2, <2>5 DEF DeskInv
      <4> QED BY <1>0, <3>1, <4>1, <4>2, <4>3
    <3>3. b.id < nextId'
      BY <1>0, <3>1
    <3> QED BY <2>2, <3>1, <3>2, <3>3
  <2>a. d = [step |-> d.step, owner |-> d.owner, author |-> d.author, ticket |-> d.ticket,
             read |-> d.read, id |-> d.id, to |-> d.to, stale |-> d.stale]
    BY <2>2
  <2>6. DeskOK(d)'
    BY <2>2, <2>3, <2>4, <2>5, <2>a DEF DeskOK
  <2>7. CASE b.owner = o
    BY <2>1, <2>2, <2>6, <2>7 DEF DeskOK
  <2>8. CASE b.owner # o
    <3>1. d = b /\ b.owner \in Clients
      BY <2>2, <2>3, <2>8 DEF DeskOK
    <3>2. CASE b.stale
      BY <2>1, <2>6, <3>1, <3>2 DEF DeskOK
    <3>3. CASE Fresh(b)
      <4>1. b.step \in OnTicket =>
              b.ticket \in Tickets /\ Exists(b.ticket) /\ ticket[b.ticket].user = b.owner
        BY <2>3 DEF DeskOK
      <4>2. b.step \in OnTicket => ticket'[b.ticket] = b.read /\ Of(b.ticket)' = Of(b.ticket)
        BY <1>3, <2>8, <3>1, <3>3, <4>1 DEF Fresh
      <4>3. b.step = "create" => OpenTickets(b.owner)' = {}
        <5>1. \A t \in Tickets : t \in OpenTickets(b.owner)' => t \in OpenTickets(b.owner)
          BY <1>3, <2>8, <3>1 DEF OpenTickets
        <5> QED BY <3>3, <5>1 DEF Fresh, OpenTickets
      <4>4. b.step \in {"insert", "reply"} /\ b.author = b.owner =>
              \A m : Newest(b.ticket, m)' => m.author # b.owner
        <5>1. b.step \in {"insert", "reply"} => \A m : Newest(b.ticket, m)' => Newest(b.ticket, m)
          BY <4>2 DEF Newest, OnTicket
        <5> QED BY <3>3, <5>1 DEF Fresh
      <4>5. b.step = "reply" => \A m \in messages' : ticket'[m.ticket].user = b.owner => m.id < b.id
        BY <1>3, <2>8, <3>1, <3>3 DEF Fresh
      <4>6. Fresh(b)'
        BY <4>2, <4>3, <4>4, <4>5 DEF Fresh
      <4> QED BY <2>1, <2>6, <3>1, <4>6 DEF DeskOK, Fresh
    <3> QED BY <2>3, <3>2, <3>3
  <2> QED BY <2>7, <2>8
<1>7. ASSUME NEW q \in Desks, NEW r \in Desks, q # r, desk'[q] # None, desk'[r] # None,
             desk'[q].step = "reply", desk'[r].step = "reply"
      PROVE  desk'[q].id # desk'[r].id
  <2>1. ASSUME NEW p \in Desks, desk'[p] # None
        PROVE  desk[p] # None /\ desk'[p].step = desk[p].step /\ desk'[p].id = desk[p].id
    <3>1. PICK b : b = desk[p] /\ b # None /\ desk'[p].step = b.step /\ desk'[p].id = b.id
      BY <1>5, <2>1
    <3> QED BY <3>1
  <2>2. \A p, w \in Desks : p # w /\ desk[p] # None /\ desk[w] # None /\ desk[p].step = "reply" /\ desk[w].step = "reply"
          => desk[p].id # desk[w].id
    BY DEF DeskInv
  <2> QED BY <1>7, <2>1, <2>2
<1> QED BY <1>1, <1>4, <1>6, <1>7 DEF DeskInv

\* create_ticket: the ticket comes with its first message.
LEMMA InsertTicketOK ==
  ASSUME DeskInv, NEW s \in Desks, InsertTicket(s)
  PROVE  DeskInv'
<1>1. PICK c : c = desk[s]
  OBVIOUS
<1>2. PICK t \in Tickets :
        /\ ~Exists(t)
        /\ ticket' = [ticket EXCEPT ![t] = [user |-> c.owner, status |-> 0, reply |-> 0]]
        /\ messages' = messages \cup {[id |-> nextId, ticket |-> t, author |-> c.author]}
  BY <1>1 DEF InsertTicket
<1>3. PICK row : row = [user |-> c.owner, status |-> 0, reply |-> 0]
  OBVIOUS
<1>4. PICK m : m = [id |-> nextId, ticket |-> t, author |-> c.author]
  OBVIOUS
<1>5. /\ c # None /\ c.step = "create" /\ nextId' = nextId + 1 /\ CommitDesk(s) /\ reopened' = reopened
      /\ ticket' = [ticket EXCEPT ![t] = row] /\ messages' = messages \cup {m}
  BY <1>1, <1>2, <1>3, <1>4 DEF InsertTicket
<1>6. DeskOK(c) /\ (Fresh(c) \/ c.stale) /\ DeskRows
  BY <1>1, <1>5 DEF DeskInv
<1>7. c.owner \in Clients \ Team /\ c.author = c.owner
  BY <1>5, <1>6 DEF DeskOK
<1>8. /\ row \in TicketRows /\ row # None /\ row.user = c.owner /\ row.status = 0 /\ row.reply = 0
      /\ m \in [id : Nat, ticket : Tickets, author : Clients] /\ m.id = nextId /\ m.ticket = t /\ m.author = c.owner
  <2>1. row \in TicketRows /\ row \in [user : Clients, status : 0..1, reply : 0..1]
    BY <1>3, <1>7 DEF TicketRows
  <2>2. row # None
    BY <2>1, DeskAssumption
  <2>3. nextId \in Nat
    BY <1>6 DEF DeskRows
  <2> QED BY <1>3, <1>4, <1>7, <2>1, <2>2, <2>3
<1>9. /\ ticket'[t] = row /\ \A p \in Tickets : p # t => ticket'[p] = ticket[p]
      /\ \A x \in messages : x.ticket # t /\ x.id \in Nat /\ x.id < nextId /\ x.ticket \in Tickets
      /\ nextId \in Nat
  BY <1>2, <1>5, <1>6 DEF DeskRows
<1>10. Of(t)' = {m} /\ \A p \in Tickets : p # t => Of(p)' = Of(p)
  BY <1>5, <1>8, <1>9 DEF Of
<1>11. DeskRows'
  <2>1. ticket' \in [Tickets -> TicketRows \cup {None}]
    BY <1>5, <1>6, <1>8 DEF DeskRows
  <2>2. messages' \subseteq [id : Nat, ticket : Tickets, author : Clients] /\ nextId' \in Nat
    BY <1>5, <1>6, <1>8 DEF DeskRows
  <2>3. ASSUME NEW x \in messages' PROVE Exists(x.ticket)' /\ x.id < nextId'
    <3>1. CASE x = m
      BY <1>5, <1>8, <1>9, <3>1 DEF Exists
    <3>2. CASE x \in messages
      <4>1. Exists(x.ticket) /\ x.ticket # t /\ x.id < nextId /\ x.id \in Nat /\ x.ticket \in Tickets
        BY <1>6, <1>9, <3>2 DEF DeskRows
      <4> QED BY <1>5, <1>9, <4>1 DEF Exists
    <3> QED BY <1>5, <3>1, <3>2
  <2>4. \A x, y \in messages' : x.id = y.id => x = y
    BY <1>5, <1>6, <1>8, <1>9 DEF DeskRows
  <2>5. ASSUME NEW p \in Tickets, Exists(p)' PROVE \E x : Newest(p, x)'
    <3>1. CASE p = t
      BY <1>8, <1>9, <1>10, <3>1 DEF Newest
    <3>2. CASE p # t
      <4>1. PICK x : Newest(p, x)
        BY <1>6, <1>9, <2>5, <3>2 DEF DeskRows, Exists
      <4> QED BY <1>10, <3>2, <4>1 DEF Newest
    <3> QED BY <3>1, <3>2
  <2> QED BY <2>1, <2>2, <2>3, <2>4, <2>5 DEF DeskRows
<1>12. Writes(c.owner, c)
  <2>1. \A p \in Tickets : ticket'[p] # ticket[p] =>
          (Exists(p) => ticket[p].user = c.owner) /\ ticket'[p].user = c.owner
    BY <1>2, <1>8, <1>9
  <2>2. \A p \in Tickets : Exists(p) => Exists(p)' /\ ticket'[p].user = ticket[p].user
    BY <1>2, <1>9 DEF Exists
  <2>3. \A x \in messages' : x \notin messages =>
          ticket'[x.ticket].user = c.owner /\ (x.id >= nextId \/ (c.step = "reply" /\ x.id = c.id))
    BY <1>5, <1>8, <1>9
  <2> QED BY <1>5, <1>9, <2>1, <2>2, <2>3 DEF Writes
<1>13. ASSUME c.owner \notin raced, Fresh(c) PROVE UserOK(c.owner)'
  <2> DEFINE u == c.owner
  <2>1. UserOK(u) /\ OpenTickets(u) = {}
    BY <1>5, <1>7, <1>13 DEF DeskInv, Fresh
  <2>2. \A p \in OpenTickets(u)' : p = t
    BY <1>9, <2>1 DEF OpenTickets, Exists
  <2>3. ASSUME NEW p \in Tickets, Exists(p)', ticket'[p].user = u
        PROVE  /\ \A x, y \in Of(p)' : x.author = u /\ y.author = u /\ y.id > x.id =>
                    \E z \in Of(p)' : z.author # u /\ x.id < z.id /\ z.id < y.id
               /\ \A x : Newest(p, x)' => (ticket'[p].reply = 0 <=> x.author = u)
    <3>1. CASE p = t
      BY <1>8, <1>9, <1>10, <3>1 DEF Newest
    <3>2. CASE p # t
      <4>1. Exists(p) /\ ticket[p].user = u /\ ticket'[p] = ticket[p] /\ Of(p)' = Of(p)
        BY <1>9, <1>10, <2>3, <3>2 DEF Exists
      <4>2. /\ \A x, y \in Of(p) : x.author = u /\ y.author = u /\ y.id > x.id =>
                    \E z \in Of(p) : z.author # u /\ x.id < z.id /\ z.id < y.id
            /\ \A x : Newest(p, x) => (ticket[p].reply = 0 <=> x.author = u)
        BY <2>1, <4>1 DEF UserOK
      <4> QED BY <4>1, <4>2 DEF Newest
    <3> QED BY <3>1, <3>2
  <2> QED BY <2>2, <2>3 DEF UserOK
<1> QED BY <1>1, <1>5, <1>11, <1>12, <1>13, DeskCommits

\* _reply: an answer of a session that is not stale is the newest message, and
\* the row tells of it.
LEMMA CommitReplyOK ==
  ASSUME DeskInv, NEW s \in Desks, CommitReply(s)
  PROVE  DeskInv'
<1>1. PICK c : c = desk[s]
  OBVIOUS
<1>2. PICK t : t = c.ticket
  OBVIOUS
<1>3. PICK row : row = Answered(ticket[t], c.read, c.author)
  OBVIOUS
<1>4. PICK m : m = [id |-> c.id, ticket |-> t, author |-> c.author]
  OBVIOUS
<1>5. /\ c # None /\ c.step = "reply" /\ nextId' = nextId /\ CommitDesk(s)
      /\ ticket' = [ticket EXCEPT ![t] = row] /\ messages' = messages \cup {m}
      /\ reopened' = IF ticket[t].status = 1 /\ row.status = 0 THEN reopened \cup {t} ELSE reopened
  BY <1>1, <1>2, <1>3, <1>4 DEF CommitReply
<1>6. DeskOK(c) /\ (Fresh(c) \/ c.stale) /\ DeskRows
  BY <1>1, <1>5 DEF DeskInv
<1>7. /\ t \in Tickets /\ Exists(t) /\ ticket[t].user = c.owner /\ c.read \in TicketRows /\ c.read.user = c.owner
      /\ c.author \in Clients /\ (c.author = c.owner \/ c.author \in Team)
      /\ c.id \in Nat /\ c.id < nextId /\ \A x \in messages : x.id # c.id
  BY <1>2, <1>5, <1>6 DEF DeskOK, OnTicket
<1>8. ticket[t] \in TicketRows
  BY <1>6, <1>7 DEF DeskRows, Exists
<1>9. /\ row \in TicketRows /\ row.user = c.owner
      /\ c.author = c.owner /\ ticket[t] = c.read => row.reply = 0 /\ row.status = c.read.status
      /\ c.author # c.owner /\ ticket[t] = c.read => row.reply = 1
  <2>1. PICK old : old = ticket[t]
    OBVIOUS
  <2>2. PICK reply \in {0, 1} : reply = IF c.author = c.read.user THEN 0 ELSE 1
    OBVIOUS
  <2>3. PICK open \in {0, 1} : open = IF c.author = c.read.user THEN c.read.status ELSE 0
    BY <1>7 DEF TicketRows
  <2>4. PICK newReply \in {0, 1} : newReply = IF reply = c.read.reply THEN old.reply ELSE reply
    BY <1>8, <2>1 DEF TicketRows
  <2>5. PICK newOpen \in {0, 1} : newOpen = IF open = c.read.status THEN old.status ELSE open
    BY <1>8, <2>1 DEF TicketRows
  <2>6. row = [old EXCEPT !.reply = newReply, !.status = newOpen]
    BY <1>3, <2>1, <2>2, <2>3, <2>4, <2>5 DEF Answered
  <2>7. row = [user |-> old.user, status |-> newOpen, reply |-> newReply]
    BY <1>8, <2>1, <2>6 DEF TicketRows
  <2> QED BY <1>7, <1>8, <2>1, <2>2, <2>3, <2>4, <2>5, <2>7 DEF TicketRows
<1>10. /\ m \in [id : Nat, ticket : Tickets, author : Clients] /\ m.id = c.id /\ m.ticket = t /\ m.author = c.author
  BY <1>4, <1>7
<1>11. row # None
  <2>1. row \in [user : Clients, status : 0..1, reply : 0..1]
    BY <1>9 DEF TicketRows
  <2> QED BY <2>1, DeskAssumption
<1>12. /\ ticket'[t] = row /\ \A p \in Tickets : p # t => ticket'[p] = ticket[p]
       /\ \A x \in messages : x.id \in Nat /\ x.ticket \in Tickets
       /\ nextId \in Nat /\ \A p \in Tickets : Exists(p)' <=> Exists(p)
  BY <1>5, <1>6, <1>7, <1>11 DEF DeskRows, Exists
<1>13. Of(t)' = Of(t) \cup {m} /\ \A p \in Tickets : p # t => Of(p)' = Of(p)
  BY <1>5, <1>10 DEF Of
<1>14. DeskRows'
  <2>1. ticket' \in [Tickets -> TicketRows \cup {None}]
    BY <1>5, <1>6, <1>9 DEF DeskRows
  <2>2. messages' \subseteq [id : Nat, ticket : Tickets, author : Clients] /\ nextId' \in Nat
    BY <1>5, <1>6, <1>10 DEF DeskRows
  <2>3. ASSUME NEW x \in messages' PROVE Exists(x.ticket)' /\ x.id < nextId'
    <3>1. CASE x = m
      BY <1>5, <1>7, <1>10, <1>12, <3>1
    <3>2. CASE x \in messages
      BY <1>5, <1>6, <1>12, <3>2 DEF DeskRows
    <3> QED BY <1>5, <3>1, <3>2
  <2>4. \A x, y \in messages' : x.id = y.id => x = y
    BY <1>5, <1>6, <1>7, <1>10 DEF DeskRows
  <2>5. ASSUME NEW p \in Tickets, Exists(p)' PROVE \E x : Newest(p, x)'
    <3>1. PICK x : Newest(p, x)
      BY <1>6, <1>12, <2>5 DEF DeskRows
    <3>2. CASE p = t
      <4>1. x.id \in Nat /\ \A y \in Of(t) : y.id \in Nat
        BY <1>12, <3>1 DEF Newest, Of
      <4>2. CASE x.id <= m.id
        <5>1. Newest(t, m)'
          BY <1>7, <1>10, <1>13, <3>1, <3>2, <4>1, <4>2 DEF Newest
        <5> QED BY <3>2, <5>1
      <4>3. CASE m.id <= x.id
        <5>1. Newest(t, x)'
          BY <1>13, <3>1, <3>2, <4>3 DEF Newest
        <5> QED BY <3>2, <5>1
      <4> QED BY <1>7, <1>10, <4>1, <4>2, <4>3
    <3>3. CASE p # t
      BY <1>13, <3>1, <3>3 DEF Newest
    <3> QED BY <3>2, <3>3
  <2> QED BY <2>1, <2>2, <2>3, <2>4, <2>5 DEF DeskRows
<1>15. Writes(c.owner, c)
  <2>1. \A p \in Tickets : ticket'[p] # ticket[p] =>
          (Exists(p) => ticket[p].user = c.owner) /\ ticket'[p].user = c.owner
    BY <1>7, <1>9, <1>12
  <2>2. \A p \in Tickets : Exists(p) => Exists(p)' /\ ticket'[p].user = ticket[p].user
    BY <1>7, <1>9, <1>12
  <2>3. \A x \in messages' : x \notin messages =>
          ticket'[x.ticket].user = c.owner /\ (x.id >= nextId \/ (c.step = "reply" /\ x.id = c.id))
    BY <1>5, <1>9, <1>10, <1>12
  <2> QED BY <1>5, <1>12, <2>1, <2>2, <2>3 DEF Writes
<1>16. ASSUME c.owner \notin raced, Fresh(c) PROVE UserOK(c.owner)'
  <2> DEFINE u == c.owner
  <2>0. c.owner \in Clients
    BY <1>6 DEF DeskOK
  <2>1. UserOK(u) /\ ticket[t] = c.read
    BY <1>2, <1>5, <1>16, <2>0 DEF DeskInv, Fresh, OnTicket
  <2>2. \A p \in Tickets : p \in OpenTickets(u)' \ reopened' => p \in OpenTickets(u) \ reopened
    <3>1. ASSUME NEW p \in Tickets, p \in OpenTickets(u)' \ reopened' PROVE p \in OpenTickets(u) \ reopened
      <4>1. p \notin reopened
        BY <1>5, <3>1
      <4>2. CASE p # t
        BY <1>12, <3>1, <4>1, <4>2 DEF OpenTickets
      <4>3. CASE p = t
        <5>1. row.status = 0
          BY <1>12, <3>1, <4>3 DEF OpenTickets
        <5>2. ticket[t].status # 1
          BY <1>5, <3>1, <4>3, <5>1
        <5>3. ticket[t].status = 0
          BY <1>8, <5>2 DEF TicketRows
        <5> QED BY <1>7, <4>1, <4>3, <5>3 DEF OpenTickets
      <4> QED BY <4>2, <4>3
    <3> QED BY <3>1
  <2>3. \A p, o \in OpenTickets(u)' \ reopened' : p = o
    BY <2>1, <2>2 DEF UserOK, OpenTickets
  <2>4. ASSUME NEW p \in Tickets, Exists(p)', ticket'[p].user = u
        PROVE  /\ \A x, y \in Of(p)' : x.author = u /\ y.author = u /\ y.id > x.id =>
                    \E z \in Of(p)' : z.author # u /\ x.id < z.id /\ z.id < y.id
               /\ \A x : Newest(p, x)' => (ticket'[p].reply = 0 <=> x.author = u)
    <3>1. CASE p # t
      <4>1. Exists(p) /\ ticket[p].user = u /\ ticket'[p] = ticket[p] /\ Of(p)' = Of(p)
        BY <1>12, <1>13, <2>4, <3>1
      <4>2. /\ \A x, y \in Of(p) : x.author = u /\ y.author = u /\ y.id > x.id =>
                    \E z \in Of(p) : z.author # u /\ x.id < z.id /\ z.id < y.id
            /\ \A x : Newest(p, x) => (ticket[p].reply = 0 <=> x.author = u)
        BY <2>1, <4>1 DEF UserOK
      <4> QED BY <4>1, <4>2 DEF Newest
    <3>2. CASE p = t
      <4>1. \A x \in Of(t) : x \in messages /\ x.id \in Nat /\ x.id < m.id
        <5>1. \A x \in Of(t) : x \in messages /\ x.ticket = t
          BY DEF Of
        <5> QED BY <1>5, <1>7, <1>10, <1>12, <1>16, <5>1 DEF Fresh
      <4>2. /\ \A x, y \in Of(t) : x.author = u /\ y.author = u /\ y.id > x.id =>
                    \E z \in Of(t) : z.author # u /\ x.id < z.id /\ z.id < y.id
        BY <1>7, <2>1 DEF UserOK
      <4>3. PICK top : Newest(t, top)
        BY <1>6, <1>7 DEF DeskRows
      <4>4. c.author = u => top.author # u
        BY <1>2, <1>5, <1>16, <4>3 DEF Fresh
      <4>5. ASSUME NEW x \in Of(t)', NEW y \in Of(t)', x.author = u, y.author = u, y.id > x.id
            PROVE  \E z \in Of(t)' : z.author # u /\ x.id < z.id /\ z.id < y.id
        <5>1. x # m
          BY <1>7, <1>10, <1>13, <4>1, <4>5
        <5>2. x \in Of(t) /\ x.id \in Nat
          BY <1>13, <4>1, <4>5, <5>1
        <5>3. CASE y = m
          <6>1. top.author # u /\ top \in Of(t) /\ x.id <= top.id /\ top.id \in Nat /\ top.id < m.id
            BY <1>10, <4>1, <4>3, <4>4, <4>5, <5>2, <5>3 DEF Newest
          <6>2. x.id # top.id
            <7>1. x \in messages /\ top \in messages
              BY <4>1, <5>2, <6>1
            <7> QED BY <1>6, <4>5, <6>1, <7>1 DEF DeskRows
          <6>3. x.id < top.id
            BY <5>2, <6>1, <6>2
          <6> QED BY <1>13, <5>3, <6>1, <6>3
        <5>4. CASE y # m
          <6>1. y \in Of(t)
            BY <1>13, <4>5, <5>4
          <6> QED BY <1>13, <4>2, <4>5, <5>2, <6>1
        <5> QED BY <5>3, <5>4
      <4>6. ASSUME NEW x, Newest(t, x)' PROVE ticket'[t].reply = 0 <=> x.author = u
        <5>1. x \in Of(t)' /\ m \in Of(t)' /\ m.id <= x.id
          BY <1>13, <4>6 DEF Newest
        <5>2. x = m
          BY <1>7, <1>10, <1>13, <4>1, <5>1
        <5> QED BY <1>9, <1>10, <1>12, <2>1, <5>2
      <4> QED BY <3>2, <4>5, <4>6
    <3> QED BY <3>1, <3>2
  <2> QED BY <2>3, <2>4 DEF UserOK
<1> QED BY <1>1, <1>5, <1>14, <1>15, <1>16, DeskCommits

\* A session begins with what is in the database.
LEMMA DeskBegins ==
  ASSUME DeskInv, UNCHANGED <<ticket, messages, nextId, chat, raced, reopened>>,
         NEW s \in Desks, NEW c, desk' = [desk EXCEPT ![s] = c],
         c = [step |-> c.step, owner |-> c.owner, author |-> c.author, ticket |-> c.ticket,
              read |-> c.read, id |-> c.id, to |-> c.to, stale |-> c.stale],
         c.step \in {"create", "turn", "insert", "close", "bind", "unbind"}, c.owner \in Clients,
         c.step = "create" => OpenTickets(c.owner) = {},
         c.step \in OnTicket =>
           c.ticket \in Tickets /\ Exists(c.ticket) /\ ticket[c.ticket].user = c.owner /\ c.read = ticket[c.ticket],
         c.step \in {"create", "turn"} => c.author = c.owner /\ c.owner \notin Team,
         c.step \in OnTicket => c.author \in Clients /\ (c.author = c.owner \/ c.author \in Team),
         c.step = "insert" => c.author # c.owner
  PROVE  DeskInv'
<1>1. c.step # "reply"
  OBVIOUS
<1>2. c.step \in OnTicket => c.read \in TicketRows /\ c.read.user = c.owner
  BY DEF DeskInv, DeskRows, Exists
<1>3. DeskOK(c)'
  BY <1>1, <1>2 DEF DeskOK, Exists
<1>4. Fresh(c)
  BY <1>1 DEF Fresh
<1>5. nextId' \in Nat /\ nextId <= nextId'
  BY DEF DeskInv, DeskRows
<1> QED BY <1>1, <1>3, <1>4, <1>5, DeskGoesOn

\* The transaction that BeginAt makes.
LEMMA BeginsAs ==
  ASSUME NEW s \in Desks, NEW step, NEW owner, NEW author, NEW t, BeginAt(s, step, owner, author, t)
  PROVE  \E c : /\ desk' = [desk EXCEPT ![s] = c]
                /\ c = [step |-> c.step, owner |-> c.owner, author |-> c.author, ticket |-> c.ticket,
                        read |-> c.read, id |-> c.id, to |-> c.to, stale |-> c.stale]
                /\ c.step = step /\ c.owner = owner /\ c.author = author /\ c.ticket = t
                /\ (t # None => c.read = ticket[t])
<1>1. PICK read : read = IF t = None THEN None ELSE ticket[t]
  OBVIOUS
<1>2. PICK c : c = [step |-> step, owner |-> owner, author |-> author, ticket |-> t,
                    read |-> read, id |-> 0, to |-> None, stale |-> FALSE]
  OBVIOUS
<1>3. desk' = [desk EXCEPT ![s] = c]
  BY <1>1, <1>2 DEF BeginAt
<1>4. c.step = step /\ c.owner = owner /\ c.author = author /\ c.ticket = t /\ c.read = read
  BY <1>2
<1>5. c = [step |-> c.step, owner |-> c.owner, author |-> c.author, ticket |-> c.ticket,
           read |-> c.read, id |-> c.id, to |-> c.to, stale |-> c.stale]
  BY <1>2
<1> QED BY <1>1, <1>3, <1>4, <1>5

\* The ways to begin on a ticket.
LEMMA TicketStartOK ==
  ASSUME DeskInv, NEW s \in Desks, TicketStart(s)
  PROVE  DeskInv'
<1>1. None \notin Tickets /\ Team \subseteq Clients
  BY DeskAssumption
<1>2. \A t \in Tickets : Exists(t) => ticket[t].user \in Clients \ Team
  BY DEF DeskInv, DeskRows, Exists, TicketRows
<1>3. ASSUME NEW u \in Clients \ Team, CreateTicket(s, u) PROVE DeskInv'
  <2>1. BeginAt(s, "create", u, u, None) /\ OpenTickets(u) = {}
        /\ UNCHANGED <<ticket, messages, nextId, chat, raced, reopened>>
    BY <1>3 DEF CreateTicket, NoneOpen
  <2>2. PICK c : /\ desk' = [desk EXCEPT ![s] = c]
                 /\ c = [step |-> c.step, owner |-> c.owner, author |-> c.author, ticket |-> c.ticket,
                         read |-> c.read, id |-> c.id, to |-> c.to, stale |-> c.stale]
                 /\ c.step = "create" /\ c.owner = u /\ c.author = u
    BY <2>1, BeginsAs
  <2> QED BY <2>1, <2>2, DeskBegins DEF OnTicket
<1>4. ASSUME NEW t \in Tickets, ReplyUser(s, t) PROVE DeskInv'
  <2>1. PICK u : u = ticket[t].user
    OBVIOUS
  <2>2. Exists(t) /\ BeginAt(s, "turn", u, u, t) /\ UNCHANGED <<ticket, messages, nextId, chat, raced, reopened>>
    BY <1>4, <2>1 DEF ReplyUser
  <2>3. PICK c : /\ desk' = [desk EXCEPT ![s] = c]
                 /\ c = [step |-> c.step, owner |-> c.owner, author |-> c.author, ticket |-> c.ticket,
                         read |-> c.read, id |-> c.id, to |-> c.to, stale |-> c.stale]
                 /\ c.step = "turn" /\ c.owner = u /\ c.author = u /\ c.ticket = t /\ c.read = ticket[t]
    BY <1>1, <2>2, BeginsAs
  <2> QED BY <1>2, <2>1, <2>2, <2>3, DeskBegins
<1>5. ASSUME NEW t \in Tickets, CloseTicket(s, t) PROVE DeskInv'
  <2>1. PICK u : u = ticket[t].user
    OBVIOUS
  <2>2. Exists(t) /\ BeginAt(s, "close", u, u, t) /\ UNCHANGED <<ticket, messages, nextId, chat, raced, reopened>>
    BY <1>5, <2>1 DEF CloseTicket
  <2>3. PICK c : /\ desk' = [desk EXCEPT ![s] = c]
                 /\ c = [step |-> c.step, owner |-> c.owner, author |-> c.author, ticket |-> c.ticket,
                         read |-> c.read, id |-> c.id, to |-> c.to, stale |-> c.stale]
                 /\ c.step = "close" /\ c.owner = u /\ c.author = u /\ c.ticket = t /\ c.read = ticket[t]
    BY <1>1, <2>2, BeginsAs
  <2> QED BY <1>2, <2>1, <2>2, <2>3, DeskBegins
<1>6. ASSUME NEW t \in Tickets, NEW a \in Team, ReplyAdmin(s, a, t) PROVE DeskInv'
  <2>1. PICK u : u = ticket[t].user
    OBVIOUS
  <2>2. Exists(t) /\ BeginAt(s, "insert", u, a, t) /\ UNCHANGED <<ticket, messages, nextId, chat, raced, reopened>>
    BY <1>6, <2>1 DEF ReplyAdmin
  <2>3. PICK c : /\ desk' = [desk EXCEPT ![s] = c]
                 /\ c = [step |-> c.step, owner |-> c.owner, author |-> c.author, ticket |-> c.ticket,
                         read |-> c.read, id |-> c.id, to |-> c.to, stale |-> c.stale]
                 /\ c.step = "insert" /\ c.owner = u /\ c.author = a /\ c.ticket = t /\ c.read = ticket[t]
    BY <1>1, <2>2, BeginsAs
  <2> QED BY <1>1, <1>2, <2>1, <2>2, <2>3, DeskBegins
<1> QED BY <1>3, <1>4, <1>5, <1>6 DEF TicketStart, CreateWithdraw, ReplyTicket

\* The commands of the bot, and what they commit: no ticket is touched.
LEMMA ChatStartOK ==
  ASSUME DeskInv, NEW s \in Desks, ChatStart(s)
  PROVE  DeskInv'
<1>1. ASSUME NEW u \in Clients, BeginAt(s, "unbind", u, u, None),
             UNCHANGED <<ticket, messages, nextId, chat, raced, reopened>>
      PROVE  DeskInv'
  <2>1. PICK c : /\ desk' = [desk EXCEPT ![s] = c]
                 /\ c = [step |-> c.step, owner |-> c.owner, author |-> c.author, ticket |-> c.ticket,
                         read |-> c.read, id |-> c.id, to |-> c.to, stale |-> c.stale]
                 /\ c.step = "unbind" /\ c.owner = u
    BY <1>1, BeginsAs
  <2> QED BY <1>1, <2>1, DeskBegins DEF OnTicket
<1>2. ASSUME NEW u \in Clients, NEW to \in Chats, Bind(s, u, to) PROVE DeskInv'
  <2>1. PICK c : c = [step |-> "bind", owner |-> u, author |-> u, ticket |-> None,
                      read |-> None, id |-> 0, to |-> to, stale |-> FALSE]
    OBVIOUS
  <2>2. desk' = [desk EXCEPT ![s] = c] /\ UNCHANGED <<ticket, messages, nextId, chat, raced, reopened>>
    BY <1>2, <2>1 DEF Bind
  <2>3. c.step = "bind" /\ c.owner = u
    BY <2>1
  <2>4. c = [step |-> c.step, owner |-> c.owner, author |-> c.author, ticket |-> c.ticket,
             read |-> c.read, id |-> c.id, to |-> c.to, stale |-> c.stale]
    BY <2>1
  <2> QED BY <2>2, <2>3, <2>4, DeskBegins DEF OnTicket
<1>3. ASSUME NEW to \in Chats, Unbind(s, to) PROVE DeskInv'
  <2>1. PICK u : u = Account(to)
    OBVIOUS
  <2>2. u # None /\ BeginAt(s, "unbind", u, u, None) /\ UNCHANGED <<ticket, messages, nextId, chat, raced, reopened>>
    BY <1>3, <2>1 DEF Unbind
  <2>3. Cardinality(Accounts(to)) = 1 /\ u = CHOOSE v \in Accounts(to) : TRUE
    BY <2>1, <2>2 DEF Account
  <2>4. Accounts(to) # {}
    BY <2>3, FS_EmptySet
  <2>5. u \in Clients
    BY <2>3, <2>4 DEF Accounts
  <2> QED BY <1>1, <2>2, <2>5
<1> QED BY <1>1, <1>2, <1>3 DEF ChatStart, UnbindTelegram

\* A commit that writes no ticket and no message.
LEMMA ChatCommits ==
  ASSUME DeskInv, NEW s \in Desks, desk[s] # None, CommitDesk(s),
         UNCHANGED <<ticket, messages, nextId, reopened>>
  PROVE  DeskInv'
<1>1. PICK c : c = desk[s]
  OBVIOUS
<1>2. DeskRows'
  BY DEF DeskInv, DeskRows, Exists, Newest, Of
<1>3. nextId' >= nextId
  BY DEF DeskInv, DeskRows
<1>4. Writes(c.owner, c)
  BY <1>3 DEF Writes, Exists
<1>5. c.owner \notin raced => UserOK(c.owner)'
  <2>1. c.owner \in Clients
    BY <1>1 DEF DeskInv, DeskOK
  <2>2. c.owner \notin raced => UserOK(c.owner)
    BY <2>1 DEF DeskInv
  <2> QED BY <2>2 DEF UserOK, OpenTickets, Exists, Of, Newest
<1> QED BY <1>1, <1>2, <1>4, <1>5, DeskCommits

\* close_user_ticket: a ticket of the owner is closed.
LEMMA CommitCloseOK ==
  ASSUME DeskInv, NEW s \in Desks, CommitClose(s)
  PROVE  DeskInv'
<1>1. PICK c : c = desk[s]
  OBVIOUS
<1>2. PICK t : t = c.ticket
  OBVIOUS
<1>3. /\ c # None /\ c.step = "close" /\ CommitDesk(s) /\ UNCHANGED <<messages, nextId, chat, reopened>>
      /\ ticket' = IF c.read.status = 0 THEN [ticket EXCEPT ![t].status = 1] ELSE ticket
  BY <1>1, <1>2 DEF CommitClose
<1>4. DeskOK(c) /\ DeskRows
  BY <1>1, <1>3 DEF DeskInv
<1>5. t \in Tickets /\ Exists(t) /\ ticket[t].user = c.owner
  BY <1>2, <1>3, <1>4 DEF DeskOK, OnTicket
<1>6. CASE c.read.status # 0
  <2>1. ticket' = ticket
    BY <1>3, <1>6
  <2> QED BY <1>1, <1>3, <2>1, ChatCommits
<1>7. CASE c.read.status = 0
  <2>1. PICK old : old = ticket[t]
    OBVIOUS
  <2>2. old \in TicketRows /\ old.user = c.owner
    BY <1>4, <1>5, <2>1 DEF DeskRows, Exists
  <2>3. PICK row : row = [old EXCEPT !.status = 1]
    OBVIOUS
  <2>4. row = [user |-> old.user, status |-> 1, reply |-> old.reply]
    BY <2>2, <2>3 DEF TicketRows
  <2>5. row \in TicketRows /\ row.user = c.owner /\ row.status = 1 /\ row.reply = old.reply
    BY <2>2, <2>4 DEF TicketRows
  <2>6. row # None
    <3>1. row \in [user : Clients, status : 0..1, reply : 0..1]
      BY <2>5 DEF TicketRows
    <3> QED BY <3>1, DeskAssumption
  <2>7. ticket' = [ticket EXCEPT ![t] = row]
    BY <1>3, <1>7, <2>1, <2>3
  <2>8. /\ ticket'[t] = row /\ \A p \in Tickets : p # t => ticket'[p] = ticket[p]
        /\ \A p \in Tickets : Exists(p)' <=> Exists(p)
        /\ \A p \in Tickets : Exists(p) => ticket'[p].user = ticket[p].user /\ ticket'[p].reply = ticket[p].reply
    BY <1>4, <1>5, <2>1, <2>2, <2>5, <2>6, <2>7 DEF DeskRows, Exists
  <2>9. DeskRows'
    <3>1. ticket' \in [Tickets -> TicketRows \cup {None}]
      BY <1>4, <2>5, <2>7 DEF DeskRows
    <3>2. \A m \in messages' : Exists(m.ticket)' /\ m.id < nextId'
      BY <1>3, <1>4, <2>8 DEF DeskRows
    <3>3. \A p \in Tickets : Exists(p)' => \E m : Newest(p, m)'
      BY <1>3, <1>4, <2>8 DEF DeskRows, Newest, Of
    <3> QED BY <1>3, <1>4, <3>1, <3>2, <3>3 DEF DeskRows
  <2>10. Writes(c.owner, c)
    <3>1. nextId' >= nextId
      BY <1>3, <1>4 DEF DeskRows
    <3>2. \A p \in Tickets : ticket'[p] # ticket[p] =>
            (Exists(p) => ticket[p].user = c.owner) /\ ticket'[p].user = c.owner
      BY <1>5, <2>5, <2>8
    <3> QED BY <1>3, <2>8, <3>1, <3>2 DEF Writes
  <2>11. c.owner \notin raced => UserOK(c.owner)'
    <3> DEFINE u == c.owner
    <3>1. SUFFICES ASSUME UserOK(u) PROVE UserOK(u)'
      BY <1>1, <1>3, <1>4 DEF DeskInv, DeskOK
    <3>2. \A p \in OpenTickets(u)' \ reopened' : p \in OpenTickets(u) \ reopened
      BY <1>3, <2>5, <2>8 DEF OpenTickets
    <3>3. \A p, o \in OpenTickets(u)' \ reopened' : p = o
      BY <3>1, <3>2 DEF UserOK
    <3>4. ASSUME NEW p \in Tickets, Exists(p)', ticket'[p].user = u
          PROVE  /\ \A x, y \in Of(p)' : x.author = u /\ y.author = u /\ y.id > x.id =>
                      \E z \in Of(p)' : z.author # u /\ x.id < z.id /\ z.id < y.id
                 /\ \A x : Newest(p, x)' => (ticket'[p].reply = 0 <=> x.author = u)
      <4>1. Exists(p) /\ ticket[p].user = u /\ ticket'[p].reply = ticket[p].reply /\ Of(p)' = Of(p)
        BY <1>3, <2>8, <3>4 DEF Of
      <4>2. /\ \A x, y \in Of(p) : x.author = u /\ y.author = u /\ y.id > x.id =>
                    \E z \in Of(p) : z.author # u /\ x.id < z.id /\ z.id < y.id
            /\ \A x : Newest(p, x) => (ticket[p].reply = 0 <=> x.author = u)
        BY <3>1, <4>1 DEF UserOK
      <4> QED BY <4>1, <4>2 DEF Newest
    <3> QED BY <3>3, <3>4 DEF UserOK
  <2> QED BY <1>1, <1>3, <2>9, <2>10, <2>11, DeskCommits
<1> QED BY <1>6, <1>7

\* A step inside a transaction.
LEMMA GoesOnAs ==
  ASSUME DeskInv, NEW s \in Desks, NEW c, c = desk[s], c # None, NEW d, desk' = [desk EXCEPT ![s] = d],
         d = [step |-> d.step, owner |-> c.owner, author |-> c.author, ticket |-> c.ticket,
              read |-> c.read, id |-> d.id, to |-> c.to, stale |-> c.stale],
         d.step \in {"insert", "reply"}, c.step \in {"turn", "insert"},
         UNCHANGED <<ticket, messages, raced, reopened>>, nextId' \in Nat, nextId <= nextId',
         Fresh(c) /\ c.author = c.owner => \A m : Newest(c.ticket, m) => m.author # c.owner,
         d.step = "reply" => d.id = nextId /\ nextId < nextId'
  PROVE  DeskInv'
<1>1. PICK step : step = d.step
  OBVIOUS
<1>2. PICK id : id = d.id
  OBVIOUS
<1>3. d = [step |-> step, owner |-> c.owner, author |-> c.author, ticket |-> c.ticket,
           read |-> c.read, id |-> id, to |-> c.to, stale |-> c.stale]
  BY <1>1, <1>2
<1>4. /\ d.step = step /\ d.owner = c.owner /\ d.author = c.author /\ d.ticket = c.ticket
      /\ d.read = c.read /\ d.id = id /\ d.to = c.to /\ d.stale = c.stale
  BY <1>3
<1>5. DeskOK(c) /\ (Fresh(c) \/ c.stale)
  BY DEF DeskInv
<1>6. /\ c.ticket \in Tickets /\ Exists(c.ticket) /\ ticket[c.ticket].user = c.owner
      /\ c.read \in TicketRows /\ c.read.user = c.owner
      /\ c.author \in Clients /\ (c.author = c.owner \/ c.author \in Team) /\ c.owner \in Clients
  BY <1>5 DEF DeskOK, OnTicket
<1>7. \A m \in messages : m.id \in Nat /\ m.id < nextId
  BY DEF DeskInv, DeskRows
<1>8. nextId \in Nat
  BY DEF DeskInv, DeskRows
<1>9. DeskOK(d)'
  <2>1. d = [step |-> d.step, owner |-> d.owner, author |-> d.author, ticket |-> d.ticket,
             read |-> d.read, id |-> d.id, to |-> d.to, stale |-> d.stale]
    BY <1>3, <1>4
  <2>2. step = "reply" => id \in Nat /\ id < nextId' /\ \A m \in messages : m.id # id
    BY <1>4, <1>7, <1>8
  <2> QED BY <1>4, <1>6, <2>1, <2>2 DEF DeskOK, Exists
<1>10. Fresh(d) \/ d.stale
  <2>1. ASSUME Fresh(c) PROVE Fresh(d)
    <3>1. ticket[d.ticket] = d.read
      BY <1>4, <2>1 DEF Fresh, OnTicket
    <3>2. step = "reply" => \A m \in messages : m.id < d.id
      BY <1>4, <1>7
    <3> QED BY <1>4, <2>1, <3>1, <3>2 DEF Fresh
  <2> QED BY <1>4, <1>5, <2>1
<1>11. d.step = "reply" => d.id >= nextId
  BY <1>8
<1> QED BY <1>9, <1>10, <1>11, DeskGoesOn

\* reply_user_ticket: the newest message is not the user's own; _reply: the
\* message takes the next key.
LEMMA TurnsOK ==
  ASSUME DeskInv, NEW s \in Desks, CheckTurn(s) \/ InsertMessage(s)
  PROVE  DeskInv'
<1>1. PICK c : c = desk[s]
  OBVIOUS
<1>2. nextId \in Nat /\ DeskRows
  BY DEF DeskInv, DeskRows
<1>3. CASE CheckTurn(s)
  <2>1. /\ c # None /\ c.step = "turn" /\ desk' = [desk EXCEPT ![s].step = "insert"]
        /\ Of(c.ticket) # {} => Last(c.ticket).author # c.author
        /\ UNCHANGED <<ticket, messages, nextId, raced, reopened>>
    BY <1>1, <1>3 DEF CheckTurn, GoOn
  <2>2. DeskOK(c)
    BY <1>1, <2>1 DEF DeskInv
  <2>3. c.ticket \in Tickets
    BY <2>1, <2>2 DEF DeskOK, OnTicket
  <2>4. ASSUME NEW m, Newest(c.ticket, m), c.author = c.owner PROVE m.author # c.owner
    <3>1. Last(c.ticket) = m
      BY <1>2, <2>3, <2>4, LastIsNewest
    <3>2. Of(c.ticket) # {}
      BY <2>4 DEF Newest
    <3> QED BY <2>1, <2>4, <3>1, <3>2
  <2>5. c = [step |-> c.step, owner |-> c.owner, author |-> c.author, ticket |-> c.ticket,
             read |-> c.read, id |-> c.id, to |-> c.to, stale |-> c.stale]
    BY <2>2 DEF DeskOK
  <2>6. PICK d : d = [c EXCEPT !.step = "insert"]
    OBVIOUS
  <2>7. desk' = [desk EXCEPT ![s] = d]
    BY <1>1, <2>1, <2>6
  <2>8. d = [step |-> "insert", owner |-> c.owner, author |-> c.author, ticket |-> c.ticket,
             read |-> c.read, id |-> c.id, to |-> c.to, stale |-> c.stale]
    BY <2>5, <2>6
  <2>9. d.step = "insert" /\ d.id = c.id
    BY <2>8
  <2>10. d = [step |-> d.step, owner |-> c.owner, author |-> c.author, ticket |-> c.ticket,
              read |-> c.read, id |-> d.id, to |-> c.to, stale |-> c.stale]
    BY <2>8, <2>9
  <2>11. nextId' \in Nat /\ nextId <= nextId'
    BY <1>2, <2>1
  <2>12. Fresh(c) /\ c.author = c.owner => \A m : Newest(c.ticket, m) => m.author # c.owner
    BY <2>4
  <2>13. d.step \in {"insert", "reply"} /\ c.step \in {"turn", "insert"} /\ d.step # "reply"
    BY <2>1, <2>9
  <2>14. c = desk[s] /\ c # None /\ UNCHANGED <<ticket, messages, raced, reopened>>
    BY <1>1, <2>1
  <2> QED BY <2>7, <2>10, <2>11, <2>12, <2>13, <2>14, GoesOnAs
<1>4. CASE InsertMessage(s)
  <2>0. PICK next : next = nextId
    OBVIOUS
  <2>1. /\ c # None /\ c.step = "insert"
        /\ desk' = [desk EXCEPT ![s] = [c EXCEPT !.step = "reply", !.id = next]]
        /\ nextId' = nextId + 1 /\ UNCHANGED <<ticket, messages, raced, reopened>>
    BY <1>1, <1>4, <2>0 DEF InsertMessage
  <2>2. nextId' \in Nat /\ nextId <= nextId' /\ nextId < nextId'
    BY <1>2, <2>1
  <2>3. Fresh(c) /\ c.author = c.owner => \A m : Newest(c.ticket, m) => m.author # c.owner
    BY <2>1 DEF Fresh
  <2>5. c = [step |-> c.step, owner |-> c.owner, author |-> c.author, ticket |-> c.ticket,
             read |-> c.read, id |-> c.id, to |-> c.to, stale |-> c.stale]
    BY <1>1, <2>1 DEF DeskInv, DeskOK
  <2>6. PICK d : d = [c EXCEPT !.step = "reply", !.id = next]
    OBVIOUS
  <2>8. d = [step |-> "reply", owner |-> c.owner, author |-> c.author, ticket |-> c.ticket,
             read |-> c.read, id |-> next, to |-> c.to, stale |-> c.stale]
    BY <2>5, <2>6
  <2>9. d.step = "reply" /\ d.id = nextId
    BY <2>0, <2>8
  <2>10. d = [step |-> d.step, owner |-> c.owner, author |-> c.author, ticket |-> c.ticket,
              read |-> c.read, id |-> d.id, to |-> c.to, stale |-> c.stale]
    BY <2>0, <2>8, <2>9
  <2>12. desk' = [desk EXCEPT ![s] = d]
    BY <2>1, <2>6
  <2>13. d.step \in {"insert", "reply"} /\ c.step \in {"turn", "insert"}
    BY <2>1, <2>9
  <2>14. c = desk[s] /\ c # None /\ UNCHANGED <<ticket, messages, raced, reopened>>
    BY <1>1, <2>1
  <2> QED BY <2>2, <2>3, <2>9, <2>10, <2>12, <2>13, <2>14, GoesOnAs
<1> QED BY <1>3, <1>4

\* At the start there is no ticket.
LEMMA DeskInvHolds == DeskSpec => []DeskInv
<1>1. DeskInit => DeskInv
  <2> SUFFICES ASSUME DeskInit PROVE DeskInv
    OBVIOUS
  <2>1. DeskRows
    BY DEF DeskInit, DeskRows, Exists
  <2>2. \A u \in Clients : UserOK(u)
    BY DEF DeskInit, UserOK, OpenTickets, Exists
  <2> QED BY <2>1, <2>2 DEF DeskInit, DeskInv
<1>2. DeskInv /\ [DeskNext]_deskVars => DeskInv'
  <2> SUFFICES ASSUME DeskInv, [DeskNext]_deskVars PROVE DeskInv'
    OBVIOUS
  <2>1. CASE UNCHANGED deskVars
    BY <2>1 DEF deskVars, DeskInv, DeskRows, UserOK, DeskOK, Fresh, OpenTickets, Exists, Newest, Of
  <2>2. ASSUME NEW s \in Desks, DeskStep(s) PROVE DeskInv'
    <3>1. CASE CommitBind(s)
      <4>1. desk[s] # None /\ CommitDesk(s) /\ UNCHANGED <<ticket, messages, nextId, reopened>>
        BY <3>1 DEF CommitBind
      <4> QED BY <4>1, ChatCommits
    <3>2. CASE CommitUnbind(s)
      <4>1. desk[s] # None /\ CommitDesk(s) /\ UNCHANGED <<ticket, messages, nextId, reopened>>
        BY <3>2 DEF CommitUnbind
      <4> QED BY <4>1, ChatCommits
    <3>3. CASE Refuse(s)
      <4>1. desk' = [desk EXCEPT ![s] = None] /\ UNCHANGED <<ticket, messages, nextId, chat, raced, reopened>>
        BY <3>3 DEF Refuse
      <4>2. nextId' \in Nat /\ nextId <= nextId'
        BY <4>1 DEF DeskInv, DeskRows
      <4> QED BY <4>1, <4>2, DeskGoesOn
    <3> QED BY <2>2, <3>1, <3>2, <3>3, InsertTicketOK, TurnsOK, CommitReplyOK, CommitCloseOK DEF DeskStep
  <2> QED BY <2>1, <2>2, TicketStartOK, ChatStartOK DEF DeskNext
<1> QED BY <1>1, <1>2, PTL DEF DeskSpec

\* create_ticket, reply_user_ticket, _reply: whatever the staff answers, closes
\* and opens again, a user whose requests did not overlap has one open ticket,
\* takes turns with the staff, and reply_status tells who wrote last.
THEOREM TicketsHold == DeskSpec => []TicketsKept
<1>1. DeskInv => TicketsKept
  <2> SUFFICES ASSUME DeskInv PROVE TicketsKept
    OBVIOUS
  <2>1. OneOpenTicket
    <3> SUFFICES ASSUME NEW u \in Clients \ raced PROVE Cardinality(OpenTickets(u) \ reopened) <= 1
      BY DEF OneOpenTicket
    <3>1. \A t, o \in OpenTickets(u) \ reopened : t = o
      BY DEF DeskInv, UserOK
    <3>2. CASE OpenTickets(u) \ reopened = {}
      BY <3>2, FS_EmptySet
    <3>3. CASE OpenTickets(u) \ reopened # {}
      <4>1. PICK t : t \in OpenTickets(u) \ reopened
        BY <3>3
      <4>2. OpenTickets(u) \ reopened = {t}
        BY <3>1, <4>1
      <4> QED BY <4>2, FS_Singleton
    <3> QED BY <3>2, <3>3
  <2>2. TurnsAlternate
    <3> SUFFICES ASSUME NEW t \in Tickets, NEW m \in messages, Exists(t), m \in Of(t), ticket[t].user \notin raced,
                        m.author = ticket[t].user, NEW x \in Of(t), x.id > m.id, x.author = m.author
                 PROVE  \E y \in Of(t) : y.author # m.author /\ m.id < y.id /\ y.id < x.id
      BY DEF TurnsAlternate
    <3>1. ticket[t].user \in Clients
      BY DEF DeskInv, DeskRows, Exists, TicketRows
    <3> QED BY <3>1 DEF DeskInv, UserOK
  <2>3. ReplyStatusTells
    <3> SUFFICES ASSUME NEW t \in Tickets, Exists(t), ticket[t].user \notin raced
                 PROVE  ticket[t].reply = 0 <=> Last(t).author = ticket[t].user
      BY DEF ReplyStatusTells
    <3>1. ticket[t].user \in Clients /\ DeskRows
      BY DEF DeskInv, DeskRows, Exists, TicketRows
    <3>2. PICK m : Newest(t, m)
      BY <3>1 DEF DeskRows
    <3>3. Last(t) = m
      BY <3>1, <3>2, LastIsNewest
    <3> QED BY <3>1, <3>2, <3>3 DEF DeskInv, UserOK
  <2> QED BY <2>1, <2>2, <2>3 DEF TicketsKept
<1> QED BY <1>1, DeskInvHolds, PTL

(***************************************************************************)
(* Chats.  Until another session of the account commits, the account that  *)
(* a session is about to bind has no chat.                                 *)
(***************************************************************************)
BindOK(c) ==
  c # None /\ c.step = "bind" => c.owner \in Clients /\ (chat[c.owner] = None \/ c.stale)

ChatInv ==
  /\ DOMAIN chat = Clients /\ DOMAIN desk = Desks
  /\ \A s \in Desks : BindOK(desk[s])

\* A step of one session that leaves the chats alone.
LEMMA ChatGoesOn ==
  ASSUME ChatInv, chat' = chat, NEW s \in Desks, NEW c, desk' = [desk EXCEPT ![s] = c], BindOK(c)
  PROVE  ChatInv'
<1>1. ASSUME NEW r \in Desks PROVE BindOK(desk[r])'
  <2>1. desk'[r] = IF r = s THEN c ELSE desk[r]
    BY DEF ChatInv
  <2>2. BindOK(desk'[r])
    BY <2>1 DEF ChatInv
  <2> QED BY <2>2 DEF BindOK
<1> QED BY <1>1 DEF ChatInv

\* A commit makes the other sessions of its owner stale, and no other account
\* has its chat changed.
LEMMA ChatCommitted ==
  ASSUME ChatInv, DeskInv, NEW s \in Desks, desk[s] # None, CommitDesk(s), DOMAIN chat' = Clients,
         \A u \in Clients : u # desk[s].owner => chat'[u] = chat[u]
  PROVE  ChatInv'
<1> DEFINE owner == desk[s].owner
<1>1. desk' = [x \in Desks |-> IF x = s THEN None
                  ELSE IF desk[x] # None /\ desk[x].owner = owner
                       THEN [desk[x] EXCEPT !.stale = TRUE] ELSE desk[x]]
  BY DEF CommitDesk
<1>2. ASSUME NEW r \in Desks, desk'[r] # None, desk'[r].step = "bind"
      PROVE  desk'[r].owner \in Clients /\ (chat'[desk'[r].owner] = None \/ desk'[r].stale)
  <2>1. PICK c : c = desk[r]
    OBVIOUS
  <2>2. r # s /\ c # None
    BY <1>1, <1>2, <2>1
  <2>3. CASE c.owner = owner
    <3>1. c = [step |-> c.step, owner |-> c.owner, author |-> c.author, ticket |-> c.ticket,
               read |-> c.read, id |-> c.id, to |-> c.to, stale |-> c.stale]
          /\ c.owner \in Clients
      BY <2>1, <2>2 DEF DeskInv, DeskOK
    <3>2. desk'[r] = [c EXCEPT !.stale = TRUE]
      BY <1>1, <2>1, <2>2, <2>3
    <3>3. desk'[r] = [step |-> c.step, owner |-> c.owner, author |-> c.author, ticket |-> c.ticket,
                      read |-> c.read, id |-> c.id, to |-> c.to, stale |-> TRUE]
      BY <3>1, <3>2
    <3> QED BY <3>1, <3>3
  <2>4. CASE c.owner # owner
    <3>1. desk'[r] = c
      BY <1>1, <2>1, <2>2, <2>4
    <3>2. c.owner \in Clients /\ (chat[c.owner] = None \/ c.stale)
      BY <1>2, <2>1, <2>2, <3>1 DEF ChatInv, BindOK
    <3> QED BY <2>4, <3>1, <3>2
  <2> QED BY <2>3, <2>4
<1> QED BY <1>1, <1>2 DEF ChatInv, BindOK

\* A transaction that BeginAt or GoOn leads to is no binding.
LEMMA ChatUntouched ==
  ASSUME ChatInv, DeskInv, NEW s \in Desks, chat' = chat,
         \/ Refuse(s)
         \/ CheckTurn(s) \/ InsertMessage(s)
         \/ \E step \in {"create", "turn", "insert", "close", "unbind"} : \E owner, author, t :
              BeginAt(s, step, owner, author, t)
  PROVE  ChatInv'
<1>1. CASE Refuse(s)
  <2>1. desk' = [desk EXCEPT ![s] = None] /\ BindOK(None)
    BY <1>1 DEF Refuse, BindOK
  <2> QED BY <2>1, ChatGoesOn
<1>2. CASE CheckTurn(s) \/ InsertMessage(s)
  <2>1. PICK c : c = desk[s]
    OBVIOUS
  <2>2. c # None /\ (desk' = [desk EXCEPT ![s] = [c EXCEPT !.step = "insert"]]
                     \/ desk' = [desk EXCEPT ![s] = [c EXCEPT !.step = "reply", !.id = nextId]])
    BY <1>2, <2>1 DEF CheckTurn, InsertMessage, GoOn
  <2>3. c = [step |-> c.step, owner |-> c.owner, author |-> c.author, ticket |-> c.ticket,
             read |-> c.read, id |-> c.id, to |-> c.to, stale |-> c.stale]
    BY <2>1, <2>2 DEF DeskInv, DeskOK
  <2>4. CASE desk' = [desk EXCEPT ![s] = [c EXCEPT !.step = "insert"]]
    <3>1. PICK d : d = [c EXCEPT !.step = "insert"]
      OBVIOUS
    <3>2. d = [step |-> "insert", owner |-> c.owner, author |-> c.author, ticket |-> c.ticket,
               read |-> c.read, id |-> c.id, to |-> c.to, stale |-> c.stale]
      BY <2>3, <3>1
    <3>3. BindOK(d)
      BY <3>2 DEF BindOK
    <3> QED BY <2>4, <3>1, <3>3, ChatGoesOn
  <2>5. CASE desk' = [desk EXCEPT ![s] = [c EXCEPT !.step = "reply", !.id = nextId]]
    <3>1. PICK d : d = [c EXCEPT !.step = "reply", !.id = nextId]
      OBVIOUS
    <3>2. d = [step |-> "reply", owner |-> c.owner, author |-> c.author, ticket |-> c.ticket,
               read |-> c.read, id |-> nextId, to |-> c.to, stale |-> c.stale]
      BY <2>3, <3>1
    <3>3. BindOK(d)
      BY <3>2 DEF BindOK
    <3> QED BY <2>5, <3>1, <3>3, ChatGoesOn
  <2> QED BY <2>2, <2>4, <2>5
<1>3. ASSUME NEW step \in {"create", "turn", "insert", "close", "unbind"}, NEW owner, NEW author, NEW t,
             BeginAt(s, step, owner, author, t)
      PROVE  ChatInv'
  <2>1. PICK c : desk' = [desk EXCEPT ![s] = c] /\ c.step = step
    BY <1>3, BeginsAs
  <2>2. BindOK(c)
    BY <2>1 DEF BindOK
  <2> QED BY <2>1, <2>2, ChatGoesOn
<1> QED BY <1>1, <1>2, <1>3

\* Every step of the desk.
LEMMA ChatStep == ASSUME ChatInv, DeskInv, [DeskNext]_deskVars PROVE ChatInv'
<1>1. CASE UNCHANGED deskVars
  BY <1>1 DEF deskVars, ChatInv, BindOK
<1>2. ASSUME NEW s \in Desks, InsertTicket(s) \/ CommitReply(s) \/ CommitClose(s) PROVE ChatInv'
  <2>1. desk[s] # None /\ CommitDesk(s) /\ chat' = chat
    BY <1>2 DEF InsertTicket, CommitReply, CommitClose
  <2> QED BY <2>1, ChatCommitted DEF ChatInv
<1>3. ASSUME NEW s \in Desks, CommitBind(s) \/ CommitUnbind(s) PROVE ChatInv'
  <2>1. /\ desk[s] # None /\ CommitDesk(s)
        /\ \E to : chat' = [chat EXCEPT ![desk[s].owner] = to]
    BY <1>3 DEF CommitBind, CommitUnbind
  <2> QED BY <2>1, ChatCommitted DEF ChatInv
<1>4. ASSUME NEW s \in Desks, CheckTurn(s) \/ InsertMessage(s) \/ Refuse(s) PROVE ChatInv'
  BY <1>4, ChatUntouched DEF CheckTurn, InsertMessage, Refuse
<1>5. ASSUME NEW s \in Desks, TicketStart(s) PROVE ChatInv'
  <2>1. chat' = chat /\ \E step \in {"create", "turn", "insert", "close", "unbind"} : \E owner, author, t :
                          BeginAt(s, step, owner, author, t)
    BY <1>5 DEF TicketStart, CreateTicket, CreateWithdraw, ReplyUser, CloseTicket, ReplyAdmin, ReplyTicket
  <2> QED BY <2>1, ChatUntouched
<1>6. ASSUME NEW s \in Desks, NEW c \in Chats, Unbind(s, c) PROVE ChatInv'
  BY <1>6, ChatUntouched DEF Unbind
<1>7. ASSUME NEW s \in Desks, NEW u \in Clients, UnbindTelegram(s, u) PROVE ChatInv'
  BY <1>7, ChatUntouched DEF UnbindTelegram
<1>8. ASSUME NEW s \in Desks, NEW u \in Clients, NEW to \in Chats, Bind(s, u, to) PROVE ChatInv'
  <2>1. PICK c : c = [step |-> "bind", owner |-> u, author |-> u, ticket |-> None,
                      read |-> None, id |-> 0, to |-> to, stale |-> FALSE]
    OBVIOUS
  <2>2. desk' = [desk EXCEPT ![s] = c] /\ chat' = chat /\ chat[u] = None
    BY <1>8, <2>1 DEF Bind, Bindable
  <2>3. BindOK(c)
    BY <2>1, <2>2 DEF BindOK
  <2> QED BY <2>2, <2>3, ChatGoesOn
<1> QED BY <1>1, <1>2, <1>3, <1>4, <1>5, <1>6, <1>7, <1>8 DEF DeskNext, DeskStep, TicketStart, ChatStart

\* _bind: the chat of an account stays until the account is unbound, whatever
\* commands with its token overlap, unless one of them wrote on a stale read.
THEOREM ChatStays == DeskSpec => ChatKept
<1>1. DeskInit => ChatInv
  BY DeskAssumption DEF DeskInit, ChatInv, BindOK
<1>2. ChatInv /\ DeskInv /\ [DeskNext]_deskVars =>
        [\A u \in Clients : chat[u] # None /\ chat'[u] \notin {None, chat[u]} => u \in raced']_chat
  <2> SUFFICES ASSUME ChatInv, DeskInv, [DeskNext]_deskVars, chat' # chat,
                      NEW u \in Clients, chat[u] # None, chat'[u] \notin {None, chat[u]}
               PROVE  u \in raced'
    OBVIOUS
  <2>1. PICK s \in Desks : CommitBind(s) \/ CommitUnbind(s)
    BY DEF deskVars, DeskNext, DeskStep, TicketStart, ChatStart, InsertTicket, CheckTurn, InsertMessage, CommitReply,
           CommitClose, Refuse, CreateTicket, CreateWithdraw, ReplyUser, CloseTicket, ReplyAdmin, ReplyTicket,
           UnbindTelegram, Bind, Unbind
  <2>2. /\ desk[s] # None /\ CommitDesk(s)
        /\ \/ desk[s].step = "bind" /\ chat' = [chat EXCEPT ![desk[s].owner] = desk[s].to]
           \/ chat' = [chat EXCEPT ![desk[s].owner] = None]
    BY <2>1 DEF CommitBind, CommitUnbind
  <2>3. u = desk[s].owner /\ desk[s].step = "bind"
    BY <2>2 DEF ChatInv
  <2>4. desk[s].stale
    BY <2>2, <2>3 DEF ChatInv, BindOK
  <2> QED BY <2>2, <2>3, <2>4 DEF CommitDesk
<1>3. ChatInv /\ DeskInv /\ [DeskNext]_deskVars => ChatInv'
  BY ChatStep
<1> QED BY <1>1, <1>2, <1>3, DeskInvHolds, PTL DEF DeskSpec, ChatKept
=============================================================================
