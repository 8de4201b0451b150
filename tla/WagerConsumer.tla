---------------------------- MODULE WagerConsumer ----------------------------
(***************************************************************************)
(* Operations that arrive by queue: consumers that run at once receive     *)
(* batches of the FIFO queue, take each message in through the inbox and   *)
(* ProcessWager within one database transaction, and then delete it or     *)
(* send it to the dead letter queue.                                       *)
(*                                                                         *)
(* The queue hides a received message until its visibility runs out, which *)
(* may happen while it is still being handled: then another consumer has   *)
(* it too.  Settlement models what ProcessWager does in the wallet; here   *)
(* it either finds the operation recorded, refuses it or records it, under *)
(* the lock of the wallet.                                                 *)
(***************************************************************************)
EXTENDS Integers, Sequences, FiniteSets

CONSTANTS
  Consumers,     \* consumer goroutines
  Messages,      \* messages, 1..n in the order they are sent
  Queues,        \* the sets of messages that may be in the queue
  Envelope,      \* Envelope[m]: [valid, id, wallet, key, content]; the content is
                 \* what the payload hash covers: all but the key, the external
                 \* identifier included
  OpenWallets,   \* the wallets that exist
  BatchSize,     \* messages per receive at most
  MaxReceives    \* maxReceiveCount of the queue

ASSUME ConsumerAssumption ==
  /\ Messages \subseteq Nat /\ IsFiniteSet(Messages)
  /\ Queues \subseteq SUBSET Messages
  /\ BatchSize \in Nat \ {0}
  /\ MaxReceives \in Nat \ {0}
  \* an idempotency key names an operation of one wallet: the races of one key
  \* in two wallets are those of Settlement
  /\ \A m, n \in Messages :
       Envelope[m].key = Envelope[n].key => Envelope[m].wallet = Envelope[n].wallet

VARIABLES
  place,       \* place[m]: where the queue has the message
  receives,    \* receives[m]: its receive count
  deadLetters, \* the dead letter queue: [message, reason]
  inbox,       \* inbox_messages: [id, content, key]
  operations,  \* operations recorded: [key, content]
  movements,   \* movements[k]: how many times operation k was applied
  pc, batch,   \* the consumer's next step and the messages it still holds
  reason,      \* why it gives up on its message, "none" while it does not
  applying     \* whether its transaction applies the operation or replays it

vars == <<place, receives, deadLetters, inbox, operations, movements,
          pc, batch, reason, applying>>
queue == <<place, receives, deadLetters>>
database == <<inbox, operations, movements>>

-----------------------------------------------------------------------------

Keys == {Envelope[m].key : m \in Messages}
Reasons == {"malformed", "conflict", "walletNotFound", "database"}
Steps == {"idle", "Parse", "Find", "Settle", "Record", "Commit", "DeadLetter", "Delete"}

TypeOK ==
  /\ place \in [Messages -> {"unsent", "visible", "inFlight", "gone"}]
  /\ receives \in [Messages -> 0..MaxReceives]
  /\ deadLetters \subseteq [message : Messages, reason : Reasons \cup {"redrive"}]
  /\ inbox \subseteq {[id |-> Envelope[m].id, content |-> Envelope[m].content,
                       key |-> Envelope[m].key] : m \in Messages}
  /\ operations \subseteq {[key |-> Envelope[m].key, content |-> Envelope[m].content] :
                             m \in Messages}
  /\ movements \in [Keys -> Nat]
  /\ pc \in [Consumers -> Steps]
  /\ batch \in [Consumers -> Seq(Messages)]
  /\ reason \in [Consumers -> Reasons \cup {"none"}]
  /\ applying \in [Consumers -> BOOLEAN]

Current(c) == Envelope[Head(batch[c])]
Taken(e) == [id |-> e.id, content |-> e.content, key |-> e.key]
Operation(e) == [key |-> e.key, content |-> e.content]

SameGroup(m, n) == Envelope[m].wallet = Envelope[n].wallet

\* The consumers inside a transaction that holds the lock of the wallet.
LockHolders(w) ==
  {c \in Consumers : pc[c] \in {"Record", "Commit"} /\ Current(c).wallet = w}

-----------------------------------------------------------------------------
(* The queue *)

\* What one receive may return: for each group none, or its oldest messages,
\* while none of the group is in flight.
Receivable(ms) ==
  /\ ms # {}
  /\ Cardinality(ms) <= BatchSize
  /\ \A m \in ms :
       /\ place[m] = "visible"
       /\ receives[m] < MaxReceives
       /\ \A n \in Messages : SameGroup(m, n) =>
            /\ place[n] # "inFlight"
            /\ n < m /\ place[n] = "visible" => n \in ms

InOrder(ms) ==
  {s \in [1..Cardinality(ms) -> ms] :
     \A i, j \in 1..Cardinality(ms) : i < j => s[i] < s[j]}

Receive(c) ==
  /\ pc[c] = "idle"
  /\ \E ms \in SUBSET Messages :
       /\ Receivable(ms)
       /\ place' = [m \in Messages |-> IF m \in ms THEN "inFlight" ELSE place[m]]
       /\ receives' = [m \in Messages |-> receives[m] + (IF m \in ms THEN 1 ELSE 0)]
       /\ \E s \in InOrder(ms) : batch' = [batch EXCEPT ![c] = s]
  /\ pc' = [pc EXCEPT ![c] = "Parse"]
  /\ UNCHANGED <<deadLetters, database, reason, applying>>

\* The visibility of a message runs out, whoever still works on it.
Expire(m) ==
  /\ place[m] = "inFlight"
  /\ place' = [place EXCEPT ![m] = "visible"]
  /\ UNCHANGED <<receives, deadLetters, database, pc, batch, reason, applying>>

\* The redrive policy of the queue.
Redrive(m) ==
  /\ place[m] = "visible"
  /\ receives[m] = MaxReceives
  /\ place' = [place EXCEPT ![m] = "gone"]
  /\ deadLetters' = deadLetters \cup {[message |-> m, reason |-> "redrive"]}
  /\ UNCHANGED <<receives, database, pc, batch, reason, applying>>

-----------------------------------------------------------------------------
(* Handling one message *)

Goto(c, step) == /\ pc' = [pc EXCEPT ![c] = step]
                 /\ UNCHANGED <<batch, reason, applying>>

\* The error is permanent: the transaction, if any, rolls back.
GiveUp(c, why) ==
  /\ pc' = [pc EXCEPT ![c] = "DeadLetter"]
  /\ reason' = [reason EXCEPT ![c] = why]
  /\ applying' = [applying EXCEPT ![c] = FALSE]
  /\ UNCHANGED batch

\* On to the next message of the batch.
NextMessage(c) ==
  /\ pc' = [pc EXCEPT ![c] = IF Len(batch[c]) = 1 THEN "idle" ELSE "Parse"]
  /\ batch' = [batch EXCEPT ![c] = Tail(@)]
  /\ reason' = [reason EXCEPT ![c] = "none"]
  /\ applying' = [applying EXCEPT ![c] = FALSE]

\* toInboundMessage
Parse(c) ==
  /\ pc[c] = "Parse"
  /\ IF Current(c).valid THEN Goto(c, "Find") ELSE GiveUp(c, "malformed")
  /\ UNCHANGED <<queue, database>>

\* inbox.Find: a redelivery applies nothing.
Find(c) ==
  /\ pc[c] = "Find"
  /\ LET recorded == {r \in inbox : r.id = Current(c).id}
     IN  \/ recorded = {} /\ Goto(c, "Settle")
         \/ /\ \E r \in recorded : r.content = Current(c).content
            /\ Goto(c, "Delete")
         \/ /\ \E r \in recorded : r.content # Current(c).content
            /\ GiveUp(c, "conflict")
  /\ UNCHANGED <<queue, database>>

\* ProcessWager.Execute joined to the transaction: locks the wallet, then finds
\* the operation recorded or applies it.
SettleForgetful(c) ==
  /\ pc[c] = "Settle"
  /\ LockHolders(Current(c).wallet) = {}
  /\ \/ /\ Current(c).wallet \notin OpenWallets
        /\ GiveUp(c, "walletNotFound")
     \/ /\ Current(c).wallet \in OpenWallets
        /\ pc' = [pc EXCEPT ![c] = "Record"]
        /\ applying' = [applying EXCEPT ![c] = TRUE]
        /\ UNCHANGED <<batch, reason>>
  /\ UNCHANGED <<queue, database>>
Settle(c) ==
  /\ pc[c] = "Settle"
  /\ LockHolders(Current(c).wallet) = {}
  /\ LET known == {o \in operations : \/ o.key = Current(c).key
                                      \/ o.content = Current(c).content}
     IN  \/ /\ Current(c).wallet \notin OpenWallets
            /\ GiveUp(c, "walletNotFound")
         \/ /\ Current(c).wallet \in OpenWallets
            /\ known \subseteq {Operation(Current(c))}
            /\ pc' = [pc EXCEPT ![c] = "Record"]
            /\ applying' = [applying EXCEPT ![c] = (known = {})]
            /\ UNCHANGED <<batch, reason>>
         \/ /\ ~(known \subseteq {Operation(Current(c))})
            /\ GiveUp(c, "conflict")
  /\ UNCHANGED <<queue, database>>

\* inbox.Record: waits for an uncommitted row with the identifier, and a row
\* already there is a conflict.
RecordApart(c) ==
  /\ pc[c] = "Record"
  /\ inbox' = inbox \cup {Taken(Current(c))}
  /\ Goto(c, "Commit")
  /\ UNCHANGED <<queue, operations, movements>>
Record(c) ==
  /\ pc[c] = "Record"
  /\ \A other \in Consumers \ {c} :
       pc[other] = "Commit" => Current(other).id # Current(c).id
  /\ \/ /\ \A r \in inbox : r.id # Current(c).id
        /\ Goto(c, "Commit")
     \/ /\ \E r \in inbox : r.id = Current(c).id
        /\ GiveUp(c, "conflict")
  /\ UNCHANGED <<queue, database>>

\* The operation and its inbox row commit together.
Committed(c) ==
  LET e == Current(c)
  IN  /\ inbox' = inbox \cup {Taken(e)}
      /\ IF applying[c]
           THEN /\ operations' = operations \cup {Operation(e)}
                /\ movements' = [movements EXCEPT ![e.key] = @ + 1]
           ELSE UNCHANGED <<operations, movements>>

Commit(c) ==
  /\ pc[c] = "Commit"
  /\ Committed(c)
  /\ Goto(c, "Delete")
  /\ UNCHANGED queue

InTransaction == {"Find", "Settle", "Record", "Commit"}

\* The database cannot be reached or does not answer in time (ErrUnavailable):
\* the message stays where it is, and the next one is handled.
UnavailableRetrying(c) ==
  /\ pc[c] \in InTransaction
  /\ pc' = [pc EXCEPT ![c] = "Find"]
  /\ applying' = [applying EXCEPT ![c] = FALSE]
  /\ UNCHANGED <<queue, database, batch, reason>>
Unavailable(c) ==
  /\ pc[c] \in InTransaction
  /\ NextMessage(c)
  /\ UNCHANGED <<queue, database>>

\* Any other database error, such as a server that is shutting down and answers
\* so, or a connection cut in mid statement, is not ErrUnavailable.
DatabaseError(c) ==
  /\ pc[c] \in InTransaction
  /\ GiveUp(c, "database")
  /\ UNCHANGED <<queue, database>>

\* The commit took effect but its answer did not come: a timeout, or an error.
CommitUnanswered(c) ==
  /\ pc[c] = "Commit"
  /\ Committed(c)
  /\ NextMessage(c) \/ GiveUp(c, "database")
  /\ UNCHANGED queue

\* deadLetter; whether or not it succeeds, delete comes next.
DeadLetter(c) ==
  /\ pc[c] = "DeadLetter"
  /\ \/ deadLetters' = deadLetters \cup
           {[message |-> Head(batch[c]), reason |-> reason[c]]}
     \/ UNCHANGED deadLetters
  /\ Goto(c, "Delete")
  /\ UNCHANGED <<place, receives, database>>

\* delete, which may fail, for instance because the receipt ran out.
Delete(c) ==
  /\ pc[c] = "Delete"
  /\ \/ place' = [place EXCEPT ![Head(batch[c])] = "gone"]
     \/ UNCHANGED place
  /\ NextMessage(c)
  /\ UNCHANGED <<receives, deadLetters, database>>

Crash(c) ==
  /\ pc[c] # "idle"
  /\ pc' = [pc EXCEPT ![c] = "idle"]
  /\ batch' = [batch EXCEPT ![c] = << >>]
  /\ reason' = [reason EXCEPT ![c] = "none"]
  /\ applying' = [applying EXCEPT ![c] = FALSE]
  /\ UNCHANGED <<queue, database>>

\* The provider sends the operation of a message over HTTP as well.
HttpRequest(m) ==
  LET e == Envelope[m]
  IN  /\ place[m] # "unsent"
      /\ e.valid /\ e.wallet \in OpenWallets
      /\ LockHolders(e.wallet) = {}
      /\ \A o \in operations : o.key # e.key /\ o.content # e.content
      /\ operations' = operations \cup {Operation(e)}
      /\ movements' = [movements EXCEPT ![e.key] = @ + 1]
      /\ UNCHANGED <<queue, inbox, pc, batch, reason, applying>>

-----------------------------------------------------------------------------

Init ==
  /\ \E sent \in Queues :
       place = [m \in Messages |-> IF m \in sent THEN "visible" ELSE "unsent"]
  /\ receives = [m \in Messages |-> 0]
  /\ deadLetters = {}
  /\ inbox = {}
  /\ operations = {}
  /\ movements = [k \in Keys |-> 0]
  /\ pc = [c \in Consumers |-> "idle"]
  /\ batch = [c \in Consumers |-> << >>]
  /\ reason = [c \in Consumers |-> "none"]
  /\ applying = [c \in Consumers |-> FALSE]

Handling(c) ==
  \/ Parse(c)
  \/ Find(c)
  \/ Settle(c)
  \/ Record(c)
  \/ Commit(c)
  \/ DeadLetter(c)
  \/ Delete(c)

Next ==
  \/ \E c \in Consumers : Receive(c)
  \/ \E c \in Consumers : Handling(c)
  \/ \E c \in Consumers :
       \/ Unavailable(c)
       \/ DatabaseError(c)
       \/ CommitUnanswered(c)
       \/ Crash(c)
  \/ \E m \in Messages : Expire(m)
  \/ \E m \in Messages : Redrive(m)
  \/ \E m \in Messages : HttpRequest(m)

Spec == Init /\ [][Next]_vars

-----------------------------------------------------------------------------
(* Safety *)

\* However often a message is delivered, by queue and over HTTP, to consumers
\* that crash or lose the answer of their commit, its operation moves money once.
AppliedOnce ==
  \A k \in Keys : movements[k] = Cardinality({o \in operations : o.key = k})
                  /\ movements[k] <= 1

\* A message counts as taken in only together with its operation, so that a
\* redelivery that is recognised can be dropped.
InboxHoldsOperations ==
  \A r \in inbox :
    /\ [key |-> r.key, content |-> r.content] \in operations
    /\ \A q \in inbox : q.id = r.id => q = r

\* A consumer about to delete a message it did not give up on has its operation
\* recorded, whoever recorded it and under whichever key: the payload hash, by
\* which the inbox tells messages apart, leaves the key out.
DeletesOnlyTheHandled ==
  \A c \in Consumers : pc[c] = "Delete" /\ reason[c] = "none" =>
    \E o \in operations : o.content = Current(c).content

-----------------------------------------------------------------------------
(* What the documentation says and the code does not keep *)

Recorded(m) == \E o \in operations : o.content = Envelope[m].content

InDeadLetters(m) == \E d \in deadLetters : d.message = m

\* A message that cannot be handled goes to the dead letter queue (consumer.go
\* on Execute), so one that left the queue is recorded or can be inspected.
NothingIsLost ==
  \A m \in Messages : place[m] = "gone" => Recorded(m) \/ InDeadLetters(m)

\* A redelivery is recognised (README on the inbox): no message is refused as a
\* conflict with its own earlier delivery.
RedeliveryIsRecognised ==
  \A d \in deadLetters :
    d.reason = "conflict" => Taken(Envelope[d.message]) \notin inbox

\* Transient failures leave the message in the queue (README).
TransientFailureKeepsMessage ==
  \A d \in deadLetters : d.reason # "database"

-----------------------------------------------------------------------------
(* Liveness *)

\* Consumers keep polling and their steps end; the queue keeps its times.
Fairness ==
  /\ WF_vars(\E c \in Consumers : Receive(c))
  /\ \A c \in Consumers : WF_vars(Handling(c))
  /\ \A m \in Messages : WF_vars(Expire(m)) /\ WF_vars(Redrive(m))

FairSpec == Spec /\ Fairness

\* No message blocks its group for ever, also when the database keeps failing or
\* consumers keep dying: the redrive policy is the last resort.
EveryMessageLeaves ==
  <>(\A m \in Messages : place[m] \in {"unsent", "gone"})
=============================================================================
