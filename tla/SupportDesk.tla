----------------------------- MODULE SupportDesk -----------------------------
\* Tickets and safety reports (modules/support/support.go): users write, close
\* and report, agents answer and decide.  A message is one transaction that
\* locks the ticket, looks whether it is closed, inserts and moves the status;
\* Close and AgentUpdate are single UPDATEs, which wait for that lock.
EXTENDS Naturals, Sequences

CONSTANTS Tickets,
          SafetyTickets,   \* those that ReportSafety opens
          Writers,         \* requests that write a message
          NoTicket,
          MaxMessages      \* bound, per ticket

ASSUME SupportAssumption ==
    NoTicket \notin Tickets /\ SafetyTickets \subseteq Tickets /\ MaxMessages \in Nat \ {0}

VARIABLES tickets,    \* the status of each
          safety,     \* the status of a ticket's safety report
          messages,   \* of each ticket, the authors' roles
          writing,    \* the transactions of Reply and AgentReply
          lastWords   \* ghost: of a closed ticket, its messages when it was closed

supportVars == <<tickets, safety, messages, writing, lastWords>>

TicketStatuses == {"open", "pending_user", "resolved", "closed"}

NotWriting == [ticket |-> NoTicket, role |-> "user"]

SupportInit ==
    /\ tickets = [t \in Tickets |-> "none"]
    /\ safety = [t \in SafetyTickets |-> "none"]
    /\ messages = [t \in Tickets |-> <<>>]
    /\ writing = [w \in Writers |-> NotWriting]
    /\ lastWords = [t \in Tickets |-> 0]

\* The ticket and its first message, in one transaction.
OpenTicket(t) ==
    /\ tickets[t] = "none"
    /\ tickets' = [tickets EXCEPT ![t] = "open"]
    /\ messages' = [messages EXCEPT ![t] = <<"user">>]
    /\ UNCHANGED <<writing, lastWords>>

CreateTicket(t) == t \notin SafetyTickets /\ OpenTicket(t) /\ UNCHANGED safety

\* The report of a matter of safety goes with its ticket.
ReportSafety(t) ==
    /\ t \in SafetyTickets
    /\ OpenTicket(t)
    /\ safety' = [safety EXCEPT ![t] = "open"]

\* Mutant: the ticket is read without FOR UPDATE.
NobodyLocks(t) == t \in Tickets

TicketUnlocked(t) == \A w \in Writers : writing[w].ticket # t

\* Reply and AgentReply up to the look at the status.
BeginMessage(w, t, role) ==
    /\ writing[w] = NotWriting
    /\ tickets[t] \notin {"none", "closed"}
    /\ TicketUnlocked(t)
    /\ writing' = [writing EXCEPT ![w] = [ticket |-> t, role |-> role]]
    /\ UNCHANGED <<tickets, safety, messages, lastWords>>

\* The user's word reopens what waited for him or was resolved, an agent's
\* hands the ticket back.
StatusAfter(status, role) ==
    CASE role = "support" -> "pending_user"
      [] role = "user" /\ status \in {"pending_user", "resolved"} -> "open"
      [] OTHER -> status

CommitMessage(w) ==
    LET t == writing[w].ticket
        role == writing[w].role IN
    /\ writing[w] # NotWriting
    /\ Len(messages[t]) < MaxMessages
    /\ messages' = [messages EXCEPT ![t] = Append(@, role)]
    /\ tickets' = [tickets EXCEPT ![t] = StatusAfter(@, role)]
    /\ writing' = [writing EXCEPT ![w] = NotWriting]
    /\ UNCHANGED <<safety, lastWords>>

MessageFails(w) ==
    /\ writing[w] # NotWriting
    /\ writing' = [writing EXCEPT ![w] = NotWriting]
    /\ UNCHANGED <<tickets, safety, messages, lastWords>>

Becomes(t, status) ==
    /\ tickets[t] # "none"
    /\ TicketUnlocked(t)
    /\ tickets' = [tickets EXCEPT ![t] = status]
    /\ lastWords' = IF status = "closed" /\ tickets[t] # "closed"
                    THEN [lastWords EXCEPT ![t] = Len(messages[t])] ELSE lastWords
    /\ UNCHANGED <<messages, writing>>

\* The user closes his ticket; its safety report stays as it is.
CloseTicket(t) ==
    /\ tickets[t] # "closed"
    /\ Becomes(t, "closed")
    /\ UNCHANGED safety

\* An agent sets any status; resolved and closed close the safety report.
AgentUpdate(t, status) ==
    /\ Becomes(t, status)
    /\ safety' = IF t \in SafetyTickets /\ status \in {"resolved", "closed"}
                 THEN [safety EXCEPT ![t] = "closed"] ELSE safety

SupportNext ==
    \/ \E t \in Tickets :
        \/ CreateTicket(t) \/ ReportSafety(t) \/ CloseTicket(t)
        \/ \E status \in TicketStatuses : AgentUpdate(t, status)
        \/ \E w \in Writers, role \in {"user", "support"} : BeginMessage(w, t, role)
    \/ \E w \in Writers : CommitMessage(w) \/ MessageFails(w)

SupportSpec == SupportInit /\ [][SupportNext]_supportVars

SupportTypeOK ==
    /\ tickets \in [Tickets -> TicketStatuses \cup {"none"}]
    /\ safety \in [SafetyTickets -> {"none", "open", "closed"}]
    /\ \A t \in Tickets : Len(messages[t]) \in 0 .. MaxMessages
    /\ \A w \in Writers : writing[w].ticket \in Tickets \cup {NoTicket}
    /\ \A t \in Tickets : lastWords[t] \in 0 .. MaxMessages

\* A closed ticket takes no message (support.go:259, 446): whoever writes while
\* it is being closed, as long as it is closed it holds the messages that it had
\* when it was last closed.
ClosedTicketsStaySilent ==
    \A t \in Tickets : tickets[t] = "closed" => Len(messages[t]) = lastWords[t]
=============================================================================
