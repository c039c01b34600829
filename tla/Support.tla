------------------------------ MODULE Support ------------------------------
(***************************************************************************)
(* Support tickets: the customers of a workspace who open and answer them, *)
(* the operators who reply, take notes and move them.                      *)
(*                                                                         *)
(* Messages are appended in a Firestore transaction, one action here.  An  *)
(* operator's update reads the ticket, edits its copy and later stores all *)
(* of it: two actions, and anything may happen between them.               *)
(*                                                                         *)
(* A ticket's priority and assignee are edited and stored exactly like its *)
(* status and are left out.  Of a thread the model keeps the messages and  *)
(* who wrote the last one the customer can see; asked (history) tells a    *)
(* status that an update asked for from one that a message brought.        *)
(***************************************************************************)
EXTENDS Naturals

CONSTANTS
  Customers,     \* members who write to support
  Operators,     \* platform administrators
  SupportAgents, \* the operators CG_SUPPORT_AGENTS lets reply
  Tickets,       \* ticket ids (uuid4: each request takes a fresh one)
  Messages,      \* message ids (uuid4)
  Moves,         \* the statuses updates ask for; "keep" asks for none
  NoTicket, NoMessage

Statuses == {"new", "open", "in_progress", "waiting_for_user", "resolved", "closed"}
Senders  == {"customer", "support"}
Message  == [id : Messages, sender : Senders, internal : BOOLEAN]
Ticket   == [reference : Nat, status : Statuses, thread : SUBSET Message,
             lastPublic : Senders, asked : BOOLEAN]

ASSUME SupportAssumption ==
  /\ Moves \subseteq Statuses \cup {"keep"}
  /\ Customers \cap Operators = {}
  /\ SupportAgents \subseteq Operators
  /\ NoTicket \notin Ticket /\ NoTicket \notin Tickets
  /\ NoMessage \notin Message

VARIABLES
  counter,      \* the support_tickets counter document
  ticket,       \* per id: the stored SupportTicket, or NoTicket
  treq,         \* per person: the request in flight
  usedMessages, \* message ids handed out
  trail         \* the support.* rows of the audit log

ticketVars == <<counter, ticket, treq, usedMessages, trail>>

People == Customers \cup Operators
Events == {"ticket_created", "customer_replied", "support_replied",
           "internal_note_added", "ticket_updated"}
Row    == [ticket : Tickets, event : Events, actor : People]

NoRequest == [op |-> "idle", id |-> NoTicket, msg |-> NoMessage, copy |-> NoTicket]

TicketRequest == {NoRequest}
  \cup [op : {"create", "update"}, id : Tickets, msg : {NoMessage}, copy : Ticket]
  \cup [op : {"reply"}, id : Tickets, msg : Message, copy : {NoTicket}]
  \cup [op : {"respond"}, id : Tickets, msg : Message \cup {NoMessage},
        copy : Ticket \cup {NoTicket}]

TicketTypeOK ==
  /\ counter \in Nat
  /\ ticket \in [Tickets -> Ticket \cup {NoTicket}]
  /\ treq \in [People -> TicketRequest]
  /\ usedMessages \subseteq Messages
  /\ trail \subseteq Row

TicketInit ==
  /\ counter = 0
  /\ ticket = [t \in Tickets |-> NoTicket]
  /\ treq = [p \in People |-> NoRequest]
  /\ usedMessages = {}
  /\ trail = {}

-----------------------------------------------------------------------------
Idle(p) == treq[p].op = "idle"

InFlight(p, op, t, msg, copy) ==
  treq' = [treq EXCEPT ![p] = [op |-> op, id |-> t, msg |-> msg, copy |-> copy]]

EndRequest(p) == treq' = [treq EXCEPT ![p] = NoRequest]

NewMessage(sender, internal) ==
  [id |-> CHOOSE m \in Messages : m \notin usedMessages,
   sender |-> sender, internal |-> internal]

Sends(msg) ==
  /\ usedMessages # Messages
  /\ usedMessages' = usedMessages \cup {msg.id}

Exists(t) == ticket[t] # NoTicket     \* get_ticket: 404 otherwise

(* Opening a ticket: a number from the counter (a transaction), the        *)
(* record, the audit row.  A request that dies keeps its number.           *)
NextReference == counter + 1

OpenNumber(p, t) ==
  /\ p \in Customers /\ Idle(p)
  /\ ~Exists(t) /\ \A q \in People : treq[q].id # t
  /\ counter' = NextReference
  /\ LET msg == NewMessage("customer", FALSE)
     IN /\ Sends(msg)
        /\ InFlight(p, "create", t, NoMessage,
                    [reference |-> NextReference, status |-> "new", thread |-> {msg},
                     lastPublic |-> "customer", asked |-> FALSE])
  /\ UNCHANGED <<ticket, trail>>

(* An operator's update: the read with the edits, and upsert_ticket, which *)
(* the opening of a ticket ends in as well.                                *)
UpdateRead(p, t) ==
  /\ p \in Operators /\ Idle(p) /\ Exists(t)
  /\ \E move \in Moves :
       InFlight(p, "update", t, NoMessage,
                IF move = "keep" THEN ticket[t]
                ELSE [ticket[t] EXCEPT !.status = move, !.asked = TRUE])
  /\ UNCHANGED <<counter, ticket, usedMessages, trail>>

StoreTicket(p) ==
  /\ treq[p].op \in {"create", "update"}
  /\ ticket' = [ticket EXCEPT ![treq[p].id] = treq[p].copy]
  /\ InFlight(p, "respond", treq[p].id, NoMessage, treq[p].copy)
  /\ UNCHANGED <<counter, usedMessages, trail>>

-----------------------------------------------------------------------------
(* Replies.  The status a message moves the ticket to; a note moves it to  *)
(* none.                                                                   *)

(* Fault: a customer's answer leaves the status alone.                     *)
QuietStatus(msg, status) ==
  IF msg.internal \/ msg.sender = "customer" THEN status ELSE "waiting_for_user"

(* Fault: the reply names a status the schema does not know.               *)
Misspelt(msg, status) ==
  IF msg.internal THEN status ELSE "waiting_for_customer"

StatusAfter(msg, status) ==
  IF msg.internal THEN status
  ELSE IF msg.sender = "customer" THEN "open" ELSE "waiting_for_user"

(* Fault: the list of messages is replaced instead of extended.            *)
Replaced(tk, msg) ==
  [tk EXCEPT !.thread = {msg},
             !.status = StatusAfter(msg, @),
             !.lastPublic = IF msg.internal THEN @ ELSE msg.sender,
             !.asked = @ /\ msg.internal]

Appended(tk, msg) ==
  [tk EXCEPT !.thread = @ \cup {msg},
             !.status = StatusAfter(msg, @),
             !.lastPublic = IF msg.internal THEN @ ELSE msg.sender,
             !.asked = @ /\ msg.internal]

AppendMessage(p, t, msg) ==
  /\ Exists(t)
  /\ ticket' = [ticket EXCEPT ![t] = Appended(@, msg)]
  /\ InFlight(p, "respond", t, msg, NoTicket)

(* The customer's ticket is looked up first, for the tenant it belongs to. *)
ReplyScope(p, t) ==
  /\ p \in Customers /\ Idle(p) /\ Exists(t)
  /\ LET msg == NewMessage("customer", FALSE)
     IN Sends(msg) /\ InFlight(p, "reply", t, msg, NoTicket)
  /\ UNCHANGED <<counter, ticket, trail>>

ReplyAppend(p) ==
  /\ treq[p].op = "reply"
  /\ AppendMessage(p, treq[p].id, treq[p].msg)
  /\ UNCHANGED <<counter, usedMessages, trail>>

SupportReply(p, t) ==
  /\ p \in SupportAgents /\ Idle(p)
  /\ \E internal \in BOOLEAN :
       LET msg == NewMessage("support", internal)
       IN Sends(msg) /\ AppendMessage(p, t, msg)
  /\ UNCHANGED <<counter, trail>>

-----------------------------------------------------------------------------
(* The end of a request: the audit row, whose failure is swallowed, and    *)
(* the response.  append_ticket_message leaves a plain string in the       *)
(* status it was asked to set, so reading status.value for the row raises: *)
(* the row of a public reply is never written (and its response, built     *)
(* from the same field, is a 500).                                         *)
EventOf(p, r) ==
  IF r.msg = NoMessage
  THEN IF p \in Customers THEN "ticket_created" ELSE "ticket_updated"
  ELSE IF r.msg.internal THEN "internal_note_added"
  ELSE IF r.msg.sender = "customer" THEN "customer_replied" ELSE "support_replied"

StatusIsEnum(r) == r.msg # NoMessage => r.msg.internal

Respond(p) ==
  /\ treq[p].op = "respond"
  /\ \/ /\ StatusIsEnum(treq[p])
        /\ trail' = trail \cup
             {[ticket |-> treq[p].id, event |-> EventOf(p, treq[p]), actor |-> p]}
     \/ UNCHANGED trail
  /\ EndRequest(p)
  /\ UNCHANGED <<counter, ticket, usedMessages>>

TicketRequestDies(p) ==
  /\ ~Idle(p)
  /\ EndRequest(p)
  /\ UNCHANGED <<counter, ticket, usedMessages, trail>>

TicketStep(p) ==
  \/ \E t \in Tickets :
       OpenNumber(p, t) \/ UpdateRead(p, t) \/ ReplyScope(p, t) \/ SupportReply(p, t)
  \/ StoreTicket(p) \/ ReplyAppend(p) \/ Respond(p) \/ TicketRequestDies(p)

TicketNext == \E p \in People : TicketStep(p)

TicketSpec == TicketInit /\ [][TicketNext]_ticketVars

-----------------------------------------------------------------------------
(* No two tickets share a reference (the counter's transaction: "a count   *)
(* of existing tickets would collide the moment two arrive at once").      *)
ReferencesUnique ==
  \A t, u \in Tickets :
    t # u /\ Exists(t) /\ Exists(u)
      => ticket[t].reference # ticket[u].reference

(* A ticket waits for the customer only when support spoke last, or when   *)
(* an operator asked for that since: a customer's answer always reopens it *)
(* and an internal note never hands the turn on, whatever stale copy an    *)
(* operator's other updates store.                                         *)
Answered(tk) ==
  tk.status = "waiting_for_user" => tk.lastPublic = "support" \/ tk.asked

WaitingMeansAnswered == \A t \in Tickets : Exists(t) => Answered(ticket[t])

(* The trail has no row of a ticket that was not stored.  (That it has one *)
(* of every event, as the docstring of _audit says, is not so: see         *)
(* StatusIsEnum.)                                                          *)
RowsHaveTickets == \A r \in trail : Exists(r.ticket)

(* What a reader of the tickets may rely on, in one invariant.             *)
TicketsSound == ReferencesUnique /\ WaitingMeansAnswered /\ RowsHaveTickets

(* A message that was stored disappears only when an operator's update     *)
(* stores a copy read before it (update_ticket's upsert), never through    *)
(* another reply: append_ticket_message's transaction.                     *)
Thread(tk) == IF tk = NoTicket THEN {} ELSE tk.thread

MessagesLostOnlyToUpdates ==
  [][\A t \in Tickets :
       ~(Thread(ticket[t]) \subseteq Thread(ticket'[t])) =>
         \E p \in Operators : /\ treq[p].op = "update" /\ treq[p].id = t
                              /\ ticket'[t] = treq[p].copy]_ticketVars

=============================================================================
