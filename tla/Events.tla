------------------------------- MODULE Events -------------------------------
(***************************************************************************)
(* Mail and the log of events.  A mail is sent by a job of the queue, which *)
(* is tried again when it raises, or by an administrator's request, which   *)
(* is not.  Every attempt writes an event of its own.  Events are kept for  *)
(* a time that depends on their category, removed by a daily job and by     *)
(* administrators, and some may not be removed at all.                      *)
(***************************************************************************)
EXTENDS Naturals, FiniteSets

CONSTANTS
  Mails, Direct,  \* mails, and those of them a request sends itself
  Categories,     \* the categories of LOG_EVENT_RETENTION_POLICIES
  Protected,      \* those with protected=True: kept for good
  Retention,      \* retention_days of the others
  MaxTries,       \* queue_max_tries
  MaxEvents,      \* bound: events that can be written
  MaxDay          \* bound: the clock

ASSUME EventAssumption ==
  /\ Direct \subseteq Mails /\ Protected \subseteq Categories
  /\ {"access", "mail", "system"} \subseteq Categories \ Protected
  /\ Retention \in [Categories \ Protected -> Nat]
  /\ MaxTries \in Nat \ {0} /\ MaxEvents \in Nat /\ MaxDay \in Nat

VARIABLES
  day,        \* the clock
  log,        \* rows of log_event: id, category, created_at
  nextEvent,  \* the sequence of log_event.id
  mail,       \* what the sender of each mail does next
  error,      \* the exception of the current attempt: none, silent or with a text
  tries,      \* attempts begun
  delivered,  \* history: times the mail reached the mail server
  told        \* history: mail.sent events after a success and after a silent
              \* exception, mail.failed events, events lost

eventVars == <<day, log, nextEvent, mail, error, tries, delivered, told>>
mailVars == <<mail, error, tries, delivered, told>>

EventsInit ==
  /\ day = 0 /\ log = {} /\ nextEvent = 1
  /\ mail = [m \in Mails |-> "new"] /\ error = [m \in Mails |-> "none"]
  /\ tries = [m \in Mails |-> 0] /\ delivered = [m \in Mails |-> 0]
  /\ told = [m \in Mails |-> [sent |-> 0, silent |-> 0, failed |-> 0, lost |-> 0]]

\* create_log_event
Written(category) ==
  /\ nextEvent <= MaxEvents
  /\ log' = log \cup {[id |-> nextEvent, category |-> category, at |-> day]}
  /\ nextEvent' = nextEvent + 1

(***************************************************************************)
(* Mail                                                                    *)
(***************************************************************************)
StartMail(m) ==
  /\ mail[m] \in {"new", "again"} /\ tries[m] < MaxTries
  /\ mail' = [mail EXCEPT ![m] = "send"]
  /\ tries' = [tries EXCEPT ![m] = @ + 1]
  /\ UNCHANGED <<day, log, nextEvent, error, delivered, told>>

\* The settings and the template are complete, and the server accepts the mail
\* or not; the connection may fail after it has.  What is kept of an exception is
\* its text, which may be empty (a bare TimeoutError has none).
SendSync(m) ==
  /\ mail[m] = "send"
  /\ \E accepted \in BOOLEAN, exception \in {"none", "silent", "text"} :
       /\ accepted \/ exception # "none"
       /\ delivered' = [delivered EXCEPT ![m] = IF accepted THEN @ + 1 ELSE @]
       /\ error' = [error EXCEPT ![m] = exception]
  /\ mail' = [mail EXCEPT ![m] = "log"]
  /\ UNCHANGED <<day, log, nextEvent, tries, told>>

\* The event is committed, by the job before it raises, by get_db for a request:
\* mail.failed if there is a text, mail.sent if there is none.
LogMail(m) ==
  /\ mail[m] = "log"
  /\ Written("mail")
  /\ told' = CASE error[m] = "text" -> [told EXCEPT ![m].failed = @ + 1]
               [] error[m] = "silent" -> [told EXCEPT ![m].silent = @ + 1]
               [] error[m] = "none" -> [told EXCEPT ![m].sent = @ + 1]
  /\ mail' = [mail EXCEPT ![m] = "answer"]
  /\ UNCHANGED <<day, error, tries, delivered>>

\* The event cannot be written: the job raises for that reason, the request
\* answers with an error.
LogLost(m) ==
  /\ mail[m] = "log"
  /\ told' = [told EXCEPT ![m].lost = @ + 1]
  /\ error' = [error EXCEPT ![m] = "text"]
  /\ mail' = [mail EXCEPT ![m] = "answer"]
  /\ UNCHANGED <<day, log, nextEvent, tries, delivered>>

\* Mutant: the job raises whatever the result was.
RaisesAlways(m) == m \notin Direct
\* send_mail raises the text it has logged.
Raises(m) == m \notin Direct /\ error[m] = "text"
\* MailService.send answers whether there was no exception, with a text or without.
Refuses(m) == m \in Direct /\ error[m] # "none"

\* The worker tries a job again that has raised, up to queue_max_tries.
Answer(m) ==
  /\ mail[m] = "answer"
  /\ mail' = [mail EXCEPT ![m] = IF Raises(m) /\ tries[m] < MaxTries THEN "again"
                                 ELSE IF Raises(m) \/ Refuses(m) THEN "failed" ELSE "done"]
  /\ UNCHANGED <<day, log, nextEvent, error, tries, delivered, told>>

\* The worker or the request dies; nothing tries a job again that was running.
MailLost(m) ==
  /\ mail[m] \in {"send", "log", "answer"}
  /\ mail' = [mail EXCEPT ![m] = "dead"]
  /\ UNCHANGED <<day, log, nextEvent, error, tries, delivered, told>>

MailNext ==
  \E m \in Mails : StartMail(m) \/ SendSync(m) \/ LogMail(m) \/ LogLost(m) \/ Answer(m) \/ MailLost(m)

(***************************************************************************)
(* The log                                                                 *)
(***************************************************************************)
\* request_logging_middleware writes an access event of its own for every
\* request below /api, /notify and /admin but the view of the log itself, and
\* swallows what goes wrong; the others are written with the change they tell
\* of: openings, gift cards, commissions, failed jobs.
Record(category) ==
  /\ category \notin {"mail", "system"}
  /\ Written(category)
  /\ UNCHANGED <<day, mailVars>>

\* cleanup_log_events_by_retention
ExpiredEvents(at) ==
  {e \in log : e.category \in DOMAIN Retention /\ e.at + Retention[e.category] < at}

\* cleanup_log_events: the deletions and an event about them, in one transaction.
CleanupLogEvents ==
  /\ nextEvent <= MaxEvents
  /\ log' = (log \ ExpiredEvents(day))
              \cup {[id |-> nextEvent, category |-> "system", at |-> day]}
  /\ nextEvent' = nextEvent + 1
  /\ UNCHANGED <<day, mailVars>>

\* is_protected_log_category
MayDelete(e) == e.category \notin Protected

DeleteLog(e) ==
  /\ MayDelete(e)
  /\ log' = log \ {e}
  /\ UNCHANGED <<day, nextEvent, mailVars>>

NextDay ==
  /\ day < MaxDay
  /\ day' = day + 1
  /\ UNCHANGED <<log, nextEvent, mailVars>>

LogNext ==
  \/ \E category \in Categories : Record(category)
  \/ \E e \in log : DeleteLog(e)
  \/ CleanupLogEvents \/ NextDay

EventsNext == MailNext \/ LogNext

EventsSpec == EventsInit /\ [][EventsNext]_eventVars

(***************************************************************************)
(* Properties                                                              *)
(***************************************************************************)
\* send_mail and MailService.send: a mail is reported as sent at most once and is
\* not sent again after that, and it did reach the mail server, but for an
\* exception without a text, which is reported as sent too.  A job that ends well
\* has reported the mail as sent, one that fails for good never has, a request is
\* answered "sent" only for a mail that was, and every attempt is accounted for.
MailTold ==
  \A m \in Mails :
    LET reported == told[m].sent + told[m].silent
    IN /\ reported <= 1 /\ told[m].sent <= delivered[m]
       /\ mail[m] = "done" => reported = 1 /\ (m \in Direct => told[m].silent = 0)
       /\ mail[m] \in {"again", "failed"} => told[m].sent = 0 /\ (m \notin Direct => reported = 0)
       /\ mail[m] \in {"again", "failed", "done"} => reported + told[m].failed + told[m].lost = tries[m]
=============================================================================
