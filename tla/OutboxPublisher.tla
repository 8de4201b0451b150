--------------------------- MODULE OutboxPublisher ---------------------------
(***************************************************************************)
(* The publication of recorded events: publishers that run at once, in any *)
(* number of processes, lease the oldest unpublished event of each wallet, *)
(* send it to the FIFO queue and record the outcome.                       *)
(*                                                                         *)
(* The events of a wallet are numbered in the order they were committed,   *)
(* which Settlement shows to be the order of their sequence numbers        *)
(* (OutboxFollowsCommitOrder).  Instants are abstracted to whether a row   *)
(* is due: a lease or a backoff may run out at any moment, also while the  *)
(* publisher that took the event is still at work.  A send may be accepted *)
(* although its answer is lost, a publisher may die at any point, and the  *)
(* queue drops a repeated event only while it remembers it.                *)
(***************************************************************************)
EXTENDS Integers, Sequences, FiniteSets

CONSTANTS
  Wallets,      \* the aggregates of the events
  Publishers,   \* publisher goroutines
  BatchSize,    \* PublicationPolicy.BatchSize
  MaxEvents,    \* bound: events recorded for a wallet
  MaxFailures   \* bound: failed attempts are counted up to here

ASSUME PublicationAssumption ==
  /\ BatchSize \in Nat \ {0}
  /\ MaxEvents \in Nat \ {0}
  /\ MaxFailures \in Nat \ {0}

VARIABLES
  rows,        \* rows[w]: the outbox rows of the wallet, oldest first
  delivered,   \* delivered[w]: the events the queue ever accepted for the group
  remembered,  \* events inside the deduplication window of the queue
  batch,       \* batch[p]: events the publisher leased and did not finish with
  sending      \* sending[p]: the event it just sent and the answer, if any

vars == <<rows, delivered, remembered, batch, sending>>

-----------------------------------------------------------------------------

EventIds == Wallets \X (1..MaxEvents)

OutboxRow == [published : BOOLEAN, due : BOOLEAN, attempts : 0..MaxFailures]

Leased == [wallet : Wallets, number : 1..MaxEvents, attempts : 0..MaxFailures]

TypeOK ==
  /\ rows \in [Wallets -> Seq(OutboxRow)]
  /\ \A w \in Wallets : Len(rows[w]) <= MaxEvents
  /\ delivered \in [Wallets -> SUBSET (1..MaxEvents)]
  /\ remembered \subseteq EventIds
  /\ batch \in [Publishers -> SUBSET Leased]
  /\ sending \in [Publishers -> SUBSET [record : Leased, ok : BOOLEAN]]
  /\ \A p \in Publishers : Cardinality(sending[p]) <= 1

Unpublished(w) == {n \in DOMAIN rows[w] : ~rows[w][n].published}

\* The oldest unpublished event of the wallet, when there is one and it is due.
HeadAnyDue(w) == {n \in Unpublished(w) : rows[w][n].due}
HeadGivingUp(w) ==
  {n \in Unpublished(w) : /\ rows[w][n].due
                          /\ rows[w][n].attempts < MaxFailures
                          /\ \A m \in Unpublished(w) : n <= m}
DueHead(w) ==
  {n \in Unpublished(w) : rows[w][n].due /\ \A m \in Unpublished(w) : n <= m}

LeasedRow(w, n) == [wallet |-> w, number |-> n, attempts |-> rows[w][n].attempts]

Due == UNION {{LeasedRow(w, n) : n \in DueHead(w)} : w \in Wallets}

-----------------------------------------------------------------------------

\* A settlement commits one more event of the wallet.
RecordEvent(w) ==
  /\ Len(rows[w]) < MaxEvents
  /\ rows' = [rows EXCEPT ![w] =
                Append(@, [published |-> FALSE, due |-> TRUE, attempts |-> 0])]
  /\ UNCHANGED <<delivered, remembered, batch, sending>>

\* next_attempt_at passes: the end of a lease or of a backoff.
ComeDue(w, n) ==
  /\ n \in Unpublished(w)
  /\ ~rows[w][n].due
  /\ rows' = [rows EXCEPT ![w][n].due = TRUE]
  /\ UNCHANGED <<delivered, remembered, batch, sending>>

\* Rows that another publisher holds locked are skipped, so any of the due rows
\* may be missing from a batch.
LeasePending(p) ==
  /\ batch[p] = {} /\ sending[p] = {}
  /\ \E taken \in SUBSET Due \ {{}} :
       /\ Cardinality(taken) <= BatchSize
       /\ batch' = [batch EXCEPT ![p] = taken]
       /\ rows' = [w \in Wallets |-> [n \in DOMAIN rows[w] |->
                     IF LeasedRow(w, n) \in taken
                       THEN [rows[w][n] EXCEPT !.due = FALSE] ELSE rows[w][n]]]
  /\ UNCHANGED <<delivered, remembered, sending>>

\* The queue accepts the event, or drops it as a repetition.
Deliver(r) ==
  LET id == <<r.wallet, r.number>>
  IN  /\ remembered' = remembered \cup {id}
      /\ delivered' = [delivered EXCEPT ![r.wallet] =
                         IF id \in remembered THEN @ ELSE @ \cup {r.number}]

Answered(p, r, ok) ==
  /\ sending' = [sending EXCEPT ![p] = {[record |-> r, ok |-> ok]}]
  /\ batch' = [batch EXCEPT ![p] = @ \ {r}]
  /\ UNCHANGED rows

PublishAccepted(p, r) ==
  /\ sending[p] = {}
  /\ Deliver(r)
  /\ Answered(p, r, TRUE)

PublishUnanswered(p, r) ==
  /\ sending[p] = {}
  /\ Deliver(r)
  /\ Answered(p, r, FALSE)

PublishFailed(p, r) ==
  /\ sending[p] = {}
  /\ Answered(p, r, FALSE)
  /\ UNCHANGED <<delivered, remembered>>

\* A row already published, by another publisher after a lease ran out, stays.
MarkPublishedAnyway(p) ==
  \E sent \in sending[p] : LET r == sent.record IN
    /\ rows' = [rows EXCEPT ![r.wallet][r.number].published = TRUE]
    /\ sending' = [sending EXCEPT ![p] = {}]
    /\ UNCHANGED <<delivered, remembered, batch>>
MarkPublished(p) ==
  \E sent \in sending[p] : LET r == sent.record IN
    /\ sent.ok
    /\ rows' = [rows EXCEPT ![r.wallet][r.number].published = TRUE]
    /\ sending' = [sending EXCEPT ![p] = {}]
    /\ UNCHANGED <<delivered, remembered, batch>>

\* Counts on from what the lease read, whatever others recorded meanwhile.
ReschedulePublication(p) ==
  \E sent \in sending[p] :
    LET r == sent.record
        failures == IF r.attempts < MaxFailures THEN r.attempts + 1 ELSE MaxFailures
    IN  /\ ~sent.ok
        /\ rows' = IF rows[r.wallet][r.number].published THEN rows
                   ELSE [rows EXCEPT ![r.wallet][r.number].attempts = failures,
                                     ![r.wallet][r.number].due = FALSE]
        /\ sending' = [sending EXCEPT ![p] = {}]
        /\ UNCHANGED <<delivered, remembered, batch>>

\* The outcome could not be recorded; the rest of the batch goes on.
RecordFailed(p) ==
  /\ sending[p] # {}
  /\ sending' = [sending EXCEPT ![p] = {}]
  /\ UNCHANGED <<rows, delivered, remembered, batch>>

Crash(p) ==
  /\ batch[p] # {} \/ sending[p] # {}
  /\ batch' = [batch EXCEPT ![p] = {}]
  /\ sending' = [sending EXCEPT ![p] = {}]
  /\ UNCHANGED <<rows, delivered, remembered>>

\* The deduplication window of the event closes.
Forget(id) ==
  /\ id \in remembered
  /\ remembered' = remembered \ {id}
  /\ UNCHANGED <<rows, delivered, batch, sending>>

-----------------------------------------------------------------------------

Init ==
  /\ rows = [w \in Wallets |-> << >>]
  /\ delivered = [w \in Wallets |-> {}]
  /\ remembered = {}
  /\ batch = [p \in Publishers |-> {}]
  /\ sending = [p \in Publishers |-> {}]

Next ==
  \/ \E w \in Wallets : RecordEvent(w)
  \/ \E w \in Wallets, n \in 1..MaxEvents : ComeDue(w, n)
  \/ \E p \in Publishers :
       \/ LeasePending(p)
       \/ \E r \in batch[p] : \/ PublishAccepted(p, r)
                              \/ PublishUnanswered(p, r)
                              \/ PublishFailed(p, r)
       \/ MarkPublished(p)
       \/ ReschedulePublication(p)
       \/ RecordFailed(p)
       \/ Crash(p)
  \/ \E id \in remembered : Forget(id)

Spec == Init /\ [][Next]_vars

-----------------------------------------------------------------------------
(* Safety *)

\* The first delivery of each event follows the commit order of its wallet: what
\* the queue accepted is at any time a prefix of what the wallet recorded, also
\* when leases run out under a publisher and others take over.
FirstDeliveriesInOrder ==
  \A w \in Wallets :
    /\ delivered[w] \subseteq DOMAIN rows[w]
    /\ \A n \in delivered[w] : 1..n \subseteq delivered[w]

\* An event counts as published only once the queue has it: a lost answer, a
\* crash or a stale publisher never drops one.
PublishedWasDelivered ==
  \A w \in Wallets : \A n \in DOMAIN rows[w] :
    rows[w][n].published => n \in delivered[w]

\* Whoever holds an event of a wallet, in time or long after its lease, all the
\* earlier ones were published before it was taken.
NoPublisherOvertakes ==
  \A p \in Publishers :
    \A r \in batch[p] \cup {sent.record : sent \in sending[p]} :
      \A m \in 1..(r.number - 1) : rows[r.wallet][m].published

-----------------------------------------------------------------------------
(* Liveness *)

\* Leases and backoffs run out, pollers keep polling, and neither the queue nor
\* the database refuses for ever.
Fairness ==
  /\ \A w \in Wallets, n \in 1..MaxEvents : WF_vars(ComeDue(w, n))
  /\ \A p \in Publishers :
       /\ SF_vars(LeasePending(p))
       /\ SF_vars(MarkPublished(p))
       /\ WF_vars(ReschedulePublication(p) \/ RecordFailed(p))
       /\ \A w \in Wallets, n \in 1..MaxEvents :
            SF_vars(\E r \in batch[p] :
                      r.wallet = w /\ r.number = n /\ PublishAccepted(p, r))

FairSpec == Spec /\ Fairness

\* Events are never discarded: publication is retried until it is recorded.  As
\* the events of a run are finitely many, in the end all of them are published.
EveryEventIsPublished ==
  <>[](\A w \in Wallets : \A n \in DOMAIN rows[w] : rows[w][n].published)
=============================================================================
