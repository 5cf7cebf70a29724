-------------------------------- MODULE Desk --------------------------------
(***************************************************************************)
(* Tickets and the Telegram bot: users open, answer and close tickets,     *)
(* staff answers them from the administration or from a chat, accounts are *)
(* bound to chats.  A session reads in one statement and writes in later   *)
(* ones, without locks; its INSERT takes the next primary key at once and  *)
(* shows when it commits.  An UPDATE writes a column only where it differs *)
(* from what the session had read.                                         *)
(***************************************************************************)
EXTENDS Null, Naturals, FiniteSets

CONSTANTS
  Desks,         \* sessions: requests and webhook calls at work
  Clients, Team, \* users, and those of them that are administrators or staff
  Payers,        \* users with an opened order
  Earners,       \* users whose commission reaches the withdrawal limit
  Chats,         \* Telegram chats
  WideChats,     \* chats whose id does not fit the INTEGER column
  StartChat,     \* the chat of each account, at the start
  TicketStatus,  \* setting ticket_status: 0 all, 1 payers only, 2 nobody
  Tickets,       \* bound: tickets that can still be opened
  MaxMessages    \* bound: messages that can be written

ASSUME DeskAssumption ==
  /\ Team \subseteq Clients /\ Payers \subseteq Clients /\ Earners \subseteq Clients
  /\ WideChats \subseteq Chats /\ DOMAIN StartChat = Clients
  /\ TicketStatus \in 0..2 /\ MaxMessages \in Nat
  /\ None \notin Tickets /\ \A row \in [user : Clients, status : 0..1, reply : 0..1] : row # None

VARIABLES
  ticket,    \* rows of ticket
  messages,  \* committed rows of ticket_message
  nextId,    \* the sequence of ticket_message.id
  chat,      \* users.telegram_id
  desk,      \* the transaction of each session, or None
  raced,     \* history: users some of whose rows were written on a stale read
  reopened   \* history: tickets an answer of the staff has opened again

deskVars == <<ticket, messages, nextId, chat, desk, raced, reopened>>

DeskInit ==
  /\ ticket = [t \in Tickets |-> None]
  /\ messages = {} /\ nextId = 1
  /\ chat = StartChat
  /\ desk = [s \in Desks |-> None]
  /\ raced = {} /\ reopened = {}

Exists(t) == ticket[t] # None
OpenTickets(u) == {t \in Tickets : Exists(t) /\ ticket[t].user = u /\ ticket[t].status = 0}
Of(t) == {m \in messages : m.ticket = t}
\* get_last_by_ticket
Last(t) == CHOOSE m \in Of(t) : \A x \in Of(t) : x.id <= m.id

(***************************************************************************)
(* Transactions                                                            *)
(***************************************************************************)
\* owner is the user whose rows are read and written; the transaction is
\* stale once another one has written to them.
BeginAt(s, step, owner, author, t) ==
  /\ desk[s] = None
  /\ desk' = [desk EXCEPT ![s] =
       [step |-> step, owner |-> owner, author |-> author, ticket |-> t,
        read |-> IF t = None THEN None ELSE ticket[t], id |-> 0, to |-> None, stale |-> FALSE]]

GoOn(s, step) == desk' = [desk EXCEPT ![s].step = step]

\* The end of a transaction that wrote rows of its owner.
CommitDesk(s) ==
  LET owner == desk[s].owner
  IN /\ desk' = [x \in Desks |-> IF x = s THEN None
                    ELSE IF desk[x] # None /\ desk[x].owner = owner
                         THEN [desk[x] EXCEPT !.stale = TRUE] ELSE desk[x]]
     /\ raced' = IF desk[s].stale THEN raced \cup {owner} ELSE raced

\* A refusal or a lost request: get_db rolls back.
Refuse(s) ==
  /\ desk[s] # None
  /\ desk' = [desk EXCEPT ![s] = None]
  /\ UNCHANGED <<ticket, messages, nextId, chat, raced, reopened>>

(***************************************************************************)
(* Tickets                                                                 *)
(***************************************************************************)
\* The setting, with has_paid_order.
Admits(u) == TicketStatus = 0 \/ (TicketStatus = 1 /\ u \in Payers)

\* count_open_by_user
NoneOpen(u) == OpenTickets(u) = {}

\* create_ticket looks for an open ticket and at the setting.
CreateTicket(s, u) ==
  /\ NoneOpen(u) /\ Admits(u)
  /\ BeginAt(s, "create", u, u, None)
  /\ UNCHANGED <<ticket, messages, nextId, chat, raced, reopened>>

\* A withdrawal is a ticket of somebody whose commission reaches the limit; no
\* commission is taken for it.
CreateWithdraw(s, u) == u \in Earners /\ CreateTicket(s, u)

\* The ticket and its first message are inserted.
InsertTicket(s) ==
  /\ desk[s] # None /\ desk[s].step = "create" /\ nextId <= MaxMessages
  /\ \E t \in Tickets :
       /\ ~Exists(t)
       /\ ticket' = [ticket EXCEPT ![t] = [user |-> desk[s].owner, status |-> 0, reply |-> 0]]
       /\ messages' = messages \cup {[id |-> nextId, ticket |-> t, author |-> desk[s].author]}
  /\ nextId' = nextId + 1
  /\ CommitDesk(s)
  /\ UNCHANGED <<chat, reopened>>

\* reply_user_ticket: the ticket is read, ...
ReplyUser(s, t) ==
  /\ Exists(t) /\ ticket[t].status = 0
  /\ BeginAt(s, "turn", ticket[t].user, ticket[t].user, t)
  /\ UNCHANGED <<ticket, messages, nextId, chat, raced, reopened>>

\* ... and the last message, which must not be the user's own.
CheckTurn(s) ==
  /\ desk[s] # None /\ desk[s].step = "turn"
  /\ Of(desk[s].ticket) # {} => Last(desk[s].ticket).author # desk[s].author
  /\ GoOn(s, "insert")
  /\ UNCHANGED <<ticket, messages, nextId, chat, raced, reopened>>

\* reply_admin_ticket, by an administrator.
ReplyAdmin(s, a, t) ==
  /\ Exists(t)
  /\ BeginAt(s, "insert", ticket[t].user, a, t)
  /\ UNCHANGED <<ticket, messages, nextId, chat, raced, reopened>>

\* _reply: the message takes its key, ...
InsertMessage(s) ==
  /\ desk[s] # None /\ desk[s].step = "insert" /\ nextId <= MaxMessages
  /\ desk' = [desk EXCEPT ![s] = [@ EXCEPT !.step = "reply", !.id = nextId]]
  /\ nextId' = nextId + 1
  /\ UNCHANGED <<ticket, messages, chat, raced, reopened>>

\* Mutant: the answer of the staff is not recorded in reply_status.
AnsweredForUser(row, read, author) ==
  [row EXCEPT !.reply = IF author = read.user THEN 0 ELSE @,
              !.status = IF author = read.user THEN @ ELSE 0]
\* ... and the ticket its new columns, where they differ from what was read;
\* an answer that is not the user's opens the ticket again.
Answered(row, read, author) ==
  LET reply == IF author = read.user THEN 0 ELSE 1
      open == IF author = read.user THEN read.status ELSE 0
  IN [row EXCEPT !.reply = IF reply = read.reply THEN @ ELSE reply,
                 !.status = IF open = read.status THEN @ ELSE open]
CommitReply(s) ==
  /\ desk[s] # None /\ desk[s].step = "reply"
  /\ LET t == desk[s].ticket
         after == Answered(ticket[t], desk[s].read, desk[s].author)
     IN /\ ticket' = [ticket EXCEPT ![t] = after]
        /\ messages' = messages \cup {[id |-> desk[s].id, ticket |-> t, author |-> desk[s].author]}
        /\ reopened' = IF ticket[t].status = 1 /\ after.status = 0 THEN reopened \cup {t} ELSE reopened
  /\ CommitDesk(s)
  /\ UNCHANGED <<nextId, chat>>

\* close_user_ticket and close_admin_ticket, the latter for any ticket.
CloseTicket(s, t) ==
  /\ Exists(t)
  /\ BeginAt(s, "close", ticket[t].user, ticket[t].user, t)
  /\ UNCHANGED <<ticket, messages, nextId, chat, raced, reopened>>

CommitClose(s) ==
  /\ desk[s] # None /\ desk[s].step = "close"
  /\ ticket' = IF desk[s].read.status = 0 THEN [ticket EXCEPT ![desk[s].ticket].status = 1] ELSE ticket
  /\ CommitDesk(s)
  /\ UNCHANGED <<messages, nextId, chat, reopened>>

(***************************************************************************)
(* The bot.  get_by_telegram_id raises when two accounts have the chat.    *)
(***************************************************************************)
Accounts(c) == {u \in Clients : chat[u] = c}
Account(c) == IF Cardinality(Accounts(c)) = 1 THEN CHOOSE u \in Accounts(c) : TRUE ELSE None

\* Mutant: an account may be bound again.
BindableAgain(u, c) == chat[u] # c
\* The account has no chat.
Bindable(u, c) == chat[u] = None

\* /bind with the token of an account.  Nothing asks whether the chat has an
\* account already, and no index does.
Bind(s, u, c) ==
  /\ Bindable(u, c)
  /\ desk[s] = None
  /\ desk' = [desk EXCEPT ![s] = [step |-> "bind", owner |-> u, author |-> u, ticket |-> None,
                                  read |-> None, id |-> 0, to |-> c, stale |-> FALSE]]
  /\ UNCHANGED <<ticket, messages, nextId, chat, raced, reopened>>

\* A chat id that is too wide for the column makes the UPDATE fail; the error
\* goes to the chat and nothing is committed (Refuse).
CommitBind(s) ==
  /\ desk[s] # None /\ desk[s].step = "bind" /\ desk[s].to \notin WideChats
  /\ chat' = [chat EXCEPT ![desk[s].owner] = desk[s].to]
  /\ CommitDesk(s)
  /\ UNCHANGED <<ticket, messages, nextId, reopened>>

\* /unbind from the chat, or unbind_telegram and the reset by the account's
\* own page: one read and one write of the row.
Unbind(s, c) ==
  /\ Account(c) # None
  /\ BeginAt(s, "unbind", Account(c), Account(c), None)
  /\ UNCHANGED <<ticket, messages, nextId, chat, raced, reopened>>

UnbindTelegram(s, u) ==
  /\ chat[u] # None
  /\ BeginAt(s, "unbind", u, u, None)
  /\ UNCHANGED <<ticket, messages, nextId, chat, raced, reopened>>

CommitUnbind(s) ==
  /\ desk[s] # None /\ desk[s].step = "unbind"
  /\ chat' = [chat EXCEPT ![desk[s].owner] = None]
  /\ CommitDesk(s)
  /\ UNCHANGED <<ticket, messages, nextId, reopened>>

\* _reply_ticket: an answer to a notification, from a chat of the staff.  A
\* message that Telegram delivers again is handled again.
ReplyTicket(s, c, t) == Account(c) \in Team /\ ReplyAdmin(s, Account(c), t)

DeskStep(s) ==
  \/ InsertTicket(s) \/ CheckTurn(s) \/ InsertMessage(s) \/ CommitReply(s)
  \/ CommitClose(s) \/ CommitBind(s) \/ CommitUnbind(s) \/ Refuse(s)

TicketStart(s) ==
  \/ \E u \in Clients \ Team : CreateTicket(s, u) \/ CreateWithdraw(s, u)
  \/ \E t \in Tickets : ReplyUser(s, t) \/ CloseTicket(s, t)
  \/ \E a \in Team, t \in Tickets : ReplyAdmin(s, a, t)
  \/ \E c \in Chats, t \in Tickets : ReplyTicket(s, c, t)

ChatStart(s) ==
  \/ \E u \in Clients : UnbindTelegram(s, u) \/ \E c \in Chats : Bind(s, u, c)
  \/ \E c \in Chats : Unbind(s, c)

DeskNext == \E s \in Desks : DeskStep(s) \/ TicketStart(s) \/ ChatStart(s)

DeskSpec == DeskInit /\ [][DeskNext]_deskVars

(***************************************************************************)
(* Properties                                                              *)
(***************************************************************************)
\* create_ticket: a user has one open ticket.  A second one takes two
\* overlapping requests, or an answer that opens a closed ticket again.
OneOpenTicket ==
  \A u \in Clients \ raced : Cardinality(OpenTickets(u) \ reopened) <= 1

\* reply_user_ticket: a user waits for the staff before writing again, in
\* whatever order the staff answers, closes and reopens.
TurnsAlternate ==
  \A t \in Tickets, m \in messages :
    Exists(t) /\ m \in Of(t) /\ ticket[t].user \notin raced /\ m.author = ticket[t].user =>
      \A x \in Of(t) : x.id > m.id /\ x.author = m.author =>
        \E y \in Of(t) : y.author # m.author /\ m.id < y.id /\ y.id < x.id

\* reply_status, by which the staff finds what is still unanswered, names the
\* author of the newest message.
ReplyStatusTells ==
  \A t \in Tickets :
    Exists(t) /\ Of(t) # {} /\ ticket[t].user \notin raced =>
      (ticket[t].reply = 0 <=> Last(t).author = ticket[t].user)

\* The three rules of a conversation, for users whose requests did not overlap
\* (create_ticket, reply_user_ticket, admin_reply, _reply_ticket).
TicketsKept == OneOpenTicket /\ TurnsAlternate /\ ReplyStatusTells

\* _bind: the chat of an account, which gets its notifications and for the staff
\* answers tickets, stays until it is unbound: nobody who has the token puts
\* another in its place, unless two commands or requests of the account overlap.
\* (Of a chat with two accounts nothing is promised.)
ChatKept ==
  [][\A u \in Clients : chat[u] # None /\ chat'[u] \notin {None, chat[u]} => u \in raced']_chat
=============================================================================
