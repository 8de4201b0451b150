------------------------ MODULE OutboxPublisherProofs ------------------------
(***************************************************************************)
(* Theorems about the publication of events, for every number of wallets,  *)
(* publishers and events: first deliveries follow the commit order and     *)
(* nothing is marked that the queue did not accept.                        *)
(*                                                                         *)
(* The invariant says of every event a publisher holds, also long after    *)
(* its lease ran out, that all the earlier ones of the wallet are marked.  *)
(* Marks are never taken back, so what was true at the lease stays true.   *)
(***************************************************************************)
EXTENDS OutboxPublisher, SequenceTheorems, FiniteSetTheorems, TLAPS

InHand(p) == batch[p] \cup {sent.record : sent \in sending[p]}

RowsInv ==
  /\ rows \in [Wallets -> Seq(OutboxRow)]
  /\ \A w \in Wallets : Len(rows[w]) <= MaxEvents

PublisherInv ==
  /\ batch \in [Publishers -> SUBSET Leased]
  /\ sending \in [Publishers -> SUBSET [record : Leased, ok : BOOLEAN]]
  /\ \A p \in Publishers : \A a, b \in sending[p] : a = b

QueueInv ==
  /\ delivered \in [Wallets -> SUBSET (1..MaxEvents)]
  /\ remembered \subseteq EventIds
  /\ \A w \in Wallets, n \in 1..MaxEvents :
       <<w, n>> \in remembered => n \in delivered[w]

\* All that precedes an event in hand is published.
HeadOfWallet(r) ==
  /\ r.number \in 1..Len(rows[r.wallet])
  /\ \A m \in 1..(r.number - 1) : rows[r.wallet][m].published

OrderInv ==
  /\ \A p \in Publishers : \A r \in InHand(p) : HeadOfWallet(r)
  /\ \A p \in Publishers : \A sent \in sending[p] :
       sent.ok => sent.record.number \in delivered[sent.record.wallet]
  /\ \A w \in Wallets : \A n \in 1..Len(rows[w]) :
       rows[w][n].published => n \in delivered[w]
  /\ \A w \in Wallets : \A n \in delivered[w] :
       n \in 1..Len(rows[w]) /\ 1..n \subseteq delivered[w]

Inv == RowsInv /\ PublisherInv /\ QueueInv /\ OrderInv

-----------------------------------------------------------------------------
(* Rows *)

LEMMA RowsAreRows ==
  ASSUME RowsInv, NEW w \in Wallets
  PROVE  /\ DOMAIN rows[w] = 1..Len(rows[w])
         /\ Len(rows[w]) \in Nat
         /\ \A n \in 1..Len(rows[w]) : rows[w][n] \in OutboxRow
<1>1. rows[w] \in Seq(OutboxRow)
  BY DEF RowsInv
<1> QED
  BY <1>1, LenProperties

\* One row changes.
LEMMA OneRowChanges ==
  ASSUME RowsInv, NEW w \in Wallets, NEW n \in 1..Len(rows[w]), NEW row \in OutboxRow,
         rows' = [rows EXCEPT ![w] = [rows[w] EXCEPT ![n] = row]]
  PROVE  /\ RowsInv'
         /\ \A v \in Wallets : Len(rows'[v]) = Len(rows[v])
         /\ \A v \in Wallets : \A m \in 1..Len(rows[v]) :
              rows'[v][m] = IF v = w /\ m = n THEN row ELSE rows[v][m]
<1> DEFINE changed == [rows[w] EXCEPT ![n] = row]
<1>1. rows[w] \in Seq(OutboxRow)
  BY DEF RowsInv
<1>2. /\ changed \in Seq(OutboxRow)
      /\ Len(changed) = Len(rows[w])
      /\ \A m \in 1..Len(rows[w]) : changed[m] = IF m = n THEN row ELSE rows[w][m]
  BY <1>1, ExceptSeq
<1>3. rows' = [rows EXCEPT ![w] = changed]
  OBVIOUS
<1> HIDE DEF changed
<1>4. \A v \in Wallets : rows'[v] = IF v = w THEN changed ELSE rows[v]
  BY <1>3 DEF RowsInv
<1>5. RowsInv'
  BY <1>2, <1>3, <1>4 DEF RowsInv
<1> QED
  BY <1>2, <1>4, <1>5

\* Whatever else happens, when the rows grow and keep their marks, what was the
\* head of its wallet stays so.
LEMMA HeadsStay ==
  ASSUME RowsInv, RowsInv',
         \A w \in Wallets :
           /\ Len(rows[w]) <= Len(rows'[w])
           /\ \A n \in 1..Len(rows[w]) : rows[w][n].published => rows'[w][n].published,
         NEW r \in Leased, HeadOfWallet(r)
  PROVE  HeadOfWallet(r)'
<1>1. r.wallet \in Wallets /\ r.number \in Nat
  BY DEF Leased
<1>2. Len(rows[r.wallet]) \in Nat /\ Len(rows'[r.wallet]) \in Nat
  BY <1>1, RowsAreRows, LenProperties DEF RowsInv
<1>3. r.number \in 1..Len(rows'[r.wallet])
  BY <1>1, <1>2 DEF HeadOfWallet
<1>4. \A m \in 1..(r.number - 1) : m \in 1..Len(rows[r.wallet])
  BY <1>1, <1>2 DEF HeadOfWallet
<1> QED
  BY <1>1, <1>3, <1>4 DEF HeadOfWallet

LEMMA InHandIsLeased ==
  ASSUME PublisherInv, NEW p \in Publishers, NEW r \in InHand(p)
  PROVE  r \in Leased
BY DEF PublisherInv, InHand

\* A step that changes rows, publishes nothing more and hands out nothing more.
LEMMA RowStepKeepsOrder ==
  ASSUME Inv, RowsInv',
         UNCHANGED delivered,
         \A w \in Wallets :
           /\ Len(rows[w]) <= Len(rows'[w])
           /\ \A n \in 1..Len(rows[w]) : rows[w][n].published => rows'[w][n].published
           /\ \A n \in 1..Len(rows'[w]) : rows'[w][n].published =>
                n \in 1..Len(rows[w]) /\ rows[w][n].published,
         \A p \in Publishers :
           sending'[p] \subseteq sending[p] /\ InHand(p)' \subseteq InHand(p)
  PROVE  OrderInv'
<1> USE DEF Inv
<1>1. \A p \in Publishers : \A r \in InHand(p)' : HeadOfWallet(r)'
  BY InHandIsLeased, HeadsStay DEF OrderInv
<1>2. \A p \in Publishers : \A sent \in sending'[p] :
        sent.ok => sent.record.number \in delivered'[sent.record.wallet]
  BY DEF OrderInv
<1>3. \A w \in Wallets : \A n \in 1..Len(rows'[w]) :
        rows'[w][n].published => n \in delivered'[w]
  BY DEF OrderInv
<1>4. \A w \in Wallets : \A n \in delivered'[w] :
        n \in 1..Len(rows'[w]) /\ 1..n \subseteq delivered'[w]
  <2> SUFFICES ASSUME NEW w \in Wallets, NEW n \in delivered[w]
               PROVE  n \in 1..Len(rows'[w]) /\ 1..n \subseteq delivered[w]
    OBVIOUS
  <2>1. n \in 1..Len(rows[w]) /\ 1..n \subseteq delivered[w]
    BY DEF OrderInv
  <2>2. Len(rows[w]) \in Nat /\ Len(rows'[w]) \in Nat
    BY LenProperties DEF RowsInv
  <2> QED
    BY <2>1, <2>2
<1> QED
  BY <1>1, <1>2, <1>3, <1>4 DEF OrderInv

-----------------------------------------------------------------------------
(* Actions *)

LEMMA RecordEventKeeps ==
  ASSUME Inv, NEW w \in Wallets, RecordEvent(w)
  PROVE  Inv'
<1> USE DEF Inv
<1> DEFINE row == [published |-> FALSE, due |-> TRUE, attempts |-> 0]
<1>1. rows[w] \in Seq(OutboxRow) /\ row \in OutboxRow
  <2>1. 0 \in 0..MaxFailures
    BY PublicationAssumption
  <2>2. row \in OutboxRow
    BY <2>1, Zenon DEF OutboxRow
  <2> QED
    BY <2>2 DEF RowsInv
<1>2. /\ Append(rows[w], row) \in Seq(OutboxRow)
      /\ Len(Append(rows[w], row)) = Len(rows[w]) + 1
      /\ \A n \in 1..Len(rows[w]) : Append(rows[w], row)[n] = rows[w][n]
      /\ Append(rows[w], row)[Len(rows[w]) + 1] = row
      /\ Len(rows[w]) \in Nat
  BY <1>1, AppendProperties, LenProperties
<1>3. /\ rows' = [rows EXCEPT ![w] = Append(rows[w], row)]
      /\ Len(rows[w]) < MaxEvents
      /\ UNCHANGED <<delivered, remembered, batch, sending>>
  BY DEF RecordEvent
<1>4. \A v \in Wallets : rows'[v] = IF v = w THEN Append(rows[w], row) ELSE rows[v]
  BY <1>3 DEF RowsInv
<1>5. row.published = FALSE
  OBVIOUS
<1> HIDE DEF row
<1>6. RowsInv'
  BY <1>2, <1>3, <1>4, PublicationAssumption DEF RowsInv
<1>7. \A v \in Wallets : Len(rows[v]) \in Nat
  BY LenProperties DEF RowsInv
<1>8. \A v \in Wallets :
        /\ Len(rows[v]) <= Len(rows'[v])
        /\ \A n \in 1..Len(rows[v]) : rows[v][n].published => rows'[v][n].published
        /\ \A n \in 1..Len(rows'[v]) : rows'[v][n].published =>
             n \in 1..Len(rows[v]) /\ rows[v][n].published
  <2> SUFFICES ASSUME NEW v \in Wallets
               PROVE  /\ Len(rows[v]) <= Len(rows'[v])
                      /\ \A n \in 1..Len(rows[v]) : rows[v][n].published => rows'[v][n].published
                      /\ \A n \in 1..Len(rows'[v]) : rows'[v][n].published =>
                           n \in 1..Len(rows[v]) /\ rows[v][n].published
    OBVIOUS
  <2>1. CASE v = w
    <3>1. rows'[v] = Append(rows[w], row) /\ Len(rows'[v]) = Len(rows[w]) + 1
      BY <1>2, <1>4, <2>1
    <3>2. \A n \in 1..Len(rows'[v]) : n \in 1..Len(rows[w]) \/ n = Len(rows[w]) + 1
      BY <1>2, <3>1
    <3>3. ~rows'[v][Len(rows[w]) + 1].published
      BY <1>2, <1>5, <3>1
    <3>4. \A n \in 1..Len(rows[w]) : rows'[v][n] = rows[w][n]
      BY <1>2, <3>1
    <3> QED
      BY <1>2, <2>1, <3>1, <3>2, <3>3, <3>4
  <2>2. CASE v # w
    BY <1>4, <1>7, <2>2
  <2> QED
    BY <2>1, <2>2
<1>9. OrderInv'
  BY <1>3, <1>6, <1>8, RowStepKeepsOrder DEF InHand
<1> QED
  BY <1>3, <1>6, <1>9 DEF PublisherInv, QueueInv

LEMMA ComeDueKeeps ==
  ASSUME Inv, NEW w \in Wallets, NEW n \in 1..MaxEvents, ComeDue(w, n)
  PROVE  Inv'
<1> USE DEF Inv
<1> DEFINE row == [rows[w][n] EXCEPT !.due = TRUE]
<1>1. n \in 1..Len(rows[w]) /\ rows[w][n] \in OutboxRow
  BY RowsAreRows DEF ComeDue, Unpublished
<1>2. row \in OutboxRow /\ row.published = rows[w][n].published
  BY <1>1 DEF OutboxRow
<1>3. /\ rows' = [rows EXCEPT ![w] = [rows[w] EXCEPT ![n] = row]]
      /\ UNCHANGED <<delivered, remembered, batch, sending>>
  BY DEF ComeDue
<1> HIDE DEF row
<1>4. /\ RowsInv'
      /\ \A v \in Wallets : Len(rows'[v]) = Len(rows[v])
      /\ \A v \in Wallets : \A m \in 1..Len(rows[v]) :
           rows'[v][m] = IF v = w /\ m = n THEN row ELSE rows[v][m]
  BY <1>1, <1>2, <1>3, OneRowChanges
<1>5. \A v \in Wallets : Len(rows[v]) \in Nat
  BY LenProperties DEF RowsInv
<1>6. OrderInv'
  BY <1>2, <1>3, <1>4, <1>5, RowStepKeepsOrder DEF InHand
<1> QED
  BY <1>3, <1>4, <1>6 DEF PublisherInv, QueueInv

\* The events of a lease are the heads of their wallets.
LEMMA LeasePendingKeeps ==
  ASSUME Inv, NEW p \in Publishers, LeasePending(p)
  PROVE  Inv'
<1> USE DEF Inv
<1>1. PICK taken \in SUBSET Due :
        /\ batch' = [batch EXCEPT ![p] = taken]
        /\ rows' = [w \in Wallets |-> [n \in DOMAIN rows[w] |->
                      IF LeasedRow(w, n) \in taken
                        THEN [rows[w][n] EXCEPT !.due = FALSE] ELSE rows[w][n]]]
        /\ UNCHANGED <<delivered, remembered, sending>>
  BY DEF LeasePending
<1>2. /\ RowsInv'
      /\ \A w \in Wallets : Len(rows'[w]) = Len(rows[w])
      /\ \A w \in Wallets : \A n \in 1..Len(rows[w]) :
           rows'[w][n].published = rows[w][n].published
  <2> SUFFICES ASSUME NEW w \in Wallets
               PROVE  /\ rows'[w] \in Seq(OutboxRow)
                      /\ Len(rows'[w]) = Len(rows[w])
                      /\ \A n \in 1..Len(rows[w]) :
                           rows'[w][n].published = rows[w][n].published
    BY <1>1 DEF RowsInv
  <2>1. /\ DOMAIN rows[w] = 1..Len(rows[w])
        /\ Len(rows[w]) \in Nat
        /\ \A n \in 1..Len(rows[w]) : rows[w][n] \in OutboxRow
    BY RowsAreRows
  <2>2. rows'[w] = [n \in 1..Len(rows[w]) |->
                      IF LeasedRow(w, n) \in taken
                        THEN [rows[w][n] EXCEPT !.due = FALSE] ELSE rows[w][n]]
    BY <1>1, <2>1
  <2>3. \A n \in 1..Len(rows[w]) :
          /\ [rows[w][n] EXCEPT !.due = FALSE] \in OutboxRow
          /\ [rows[w][n] EXCEPT !.due = FALSE].published = rows[w][n].published
    BY <2>1 DEF OutboxRow
  <2>4. /\ rows'[w] \in [1..Len(rows[w]) -> OutboxRow]
        /\ \A n \in 1..Len(rows[w]) : rows'[w][n].published = rows[w][n].published
    BY <2>1, <2>2, <2>3
  <2> QED
    BY <2>1, <2>4
<1>3. \A r \in taken : r \in Leased /\ HeadOfWallet(r)
  <2> SUFFICES ASSUME NEW r \in taken PROVE r \in Leased /\ HeadOfWallet(r)
    OBVIOUS
  <2>1. PICK w \in Wallets : \E n \in DueHead(w) : r = LeasedRow(w, n)
    BY DEF Due
  <2>2. PICK n \in DueHead(w) : r = LeasedRow(w, n)
    BY <2>1
  <2>3. /\ DOMAIN rows[w] = 1..Len(rows[w])
        /\ Len(rows[w]) \in Nat /\ Len(rows[w]) <= MaxEvents
        /\ \A m \in 1..Len(rows[w]) : rows[w][m] \in OutboxRow
    BY RowsAreRows DEF RowsInv
  <2>4. n \in 1..Len(rows[w]) /\ \A m \in Unpublished(w) : n <= m
    BY <2>3 DEF DueHead, Unpublished
  <2>5. n \in 1..MaxEvents /\ rows[w][n].attempts \in 0..MaxFailures
    BY <2>3, <2>4, PublicationAssumption DEF OutboxRow
  <2>6. \A m \in 1..(n - 1) : rows[w][m].published
    BY <2>3, <2>4 DEF Unpublished, OutboxRow
  <2>7. r.wallet = w /\ r.number = n /\ r \in Leased
    BY <2>2, <2>5 DEF LeasedRow, Leased
  <2> QED
    BY <2>4, <2>6, <2>7 DEF HeadOfWallet
<1>4. PublisherInv'
  BY <1>1, <1>3 DEF PublisherInv
<1>5. QueueInv'
  BY <1>1 DEF QueueInv
<1>6. \A q \in Publishers : \A r \in InHand(q)' : r \in Leased /\ HeadOfWallet(r)
  <2> SUFFICES ASSUME NEW q \in Publishers, NEW r \in InHand(q)'
               PROVE  r \in Leased /\ HeadOfWallet(r)
    OBVIOUS
  <2>1. r \in InHand(q) \/ r \in taken
    BY <1>1 DEF InHand, PublisherInv
  <2> QED
    BY <1>3, <2>1, InHandIsLeased DEF OrderInv
<1>7. \A w \in Wallets : Len(rows[w]) \in Nat
  BY LenProperties DEF RowsInv
<1>8. \A q \in Publishers : \A r \in InHand(q)' : HeadOfWallet(r)'
  BY <1>2, <1>6, <1>7, HeadsStay
<1> QED
  BY <1>1, <1>2, <1>4, <1>5, <1>7, <1>8 DEF OrderInv

\* What the queue accepts is the next event of its wallet or one it had.
LEMMA DeliverKeeps ==
  ASSUME Inv, NEW r \in Leased, HeadOfWallet(r), Deliver(r), UNCHANGED rows
  PROVE  /\ QueueInv'
         /\ r.number \in delivered'[r.wallet]
         /\ \A w \in Wallets : delivered[w] \subseteq delivered'[w]
         /\ \A w \in Wallets : \A n \in delivered'[w] :
              n \in 1..Len(rows[w]) /\ 1..n \subseteq delivered'[w]
<1> USE DEF Inv
<1>1. r.wallet \in Wallets /\ r.number \in 1..MaxEvents
  BY DEF Leased
<1>2. \A w \in Wallets : delivered[w] \subseteq 1..MaxEvents
  BY DEF QueueInv
<1>3. /\ remembered' = remembered \cup {<<r.wallet, r.number>>}
      /\ delivered' = [delivered EXCEPT ![r.wallet] =
                         IF <<r.wallet, r.number>> \in remembered THEN @ ELSE @ \cup {r.number}]
  BY DEF Deliver
<1>4. \A w \in Wallets :
        delivered'[w] = IF w = r.wallet THEN delivered[w] \cup {r.number} ELSE delivered[w]
  BY <1>1, <1>3 DEF QueueInv
<1>5. delivered' \in [Wallets -> SUBSET (1..MaxEvents)]
  BY <1>1, <1>2, <1>3 DEF QueueInv
<1>6. QueueInv'
  <2>1. remembered' \subseteq EventIds
    BY <1>1, <1>3 DEF QueueInv, EventIds
  <2>2. \A w \in Wallets, n \in 1..MaxEvents :
          <<w, n>> \in remembered' => n \in delivered'[w]
    BY <1>1, <1>3, <1>4 DEF QueueInv
  <2> QED
    BY <1>5, <2>1, <2>2 DEF QueueInv
<1>7. \A w \in Wallets : \A n \in delivered'[w] :
        n \in 1..Len(rows[w]) /\ 1..n \subseteq delivered'[w]
  <2> SUFFICES ASSUME NEW w \in Wallets, NEW n \in delivered'[w]
               PROVE  n \in 1..Len(rows[w]) /\ 1..n \subseteq delivered'[w]
    OBVIOUS
  <2>1. CASE n \in delivered[w]
    BY <1>4, <2>1 DEF OrderInv
  <2>2. CASE n \notin delivered[w]
    <3>1. w = r.wallet /\ n = r.number
      BY <1>4, <2>2
    <3>2. n \in 1..Len(rows[w]) /\ Len(rows[w]) \in Nat
      BY <1>1, <3>1, RowsAreRows DEF HeadOfWallet
    <3>3. \A m \in 1..(n - 1) : m \in 1..Len(rows[w]) /\ rows[w][m].published
      BY <3>1, <3>2 DEF HeadOfWallet
    <3>4. \A m \in 1..(n - 1) : m \in delivered'[w]
      BY <1>4, <3>3 DEF OrderInv
    <3> QED
      BY <3>2, <3>4
  <2> QED
    BY <2>1, <2>2
<1> QED
  BY <1>1, <1>4, <1>6, <1>7

\* A send, whatever becomes of it: the event moves from the batch to what was
\* sent, with an answer that is never better than what the queue did.
LEMMA SendKeeps ==
  ASSUME Inv, NEW p \in Publishers, NEW r \in batch[p], NEW ok \in BOOLEAN,
         Answered(p, r, ok),
         \/ Deliver(r)
         \/ ok = FALSE /\ UNCHANGED <<delivered, remembered>>
  PROVE  Inv'
<1> USE DEF Inv
<1>1. r \in Leased /\ r \in InHand(p) /\ HeadOfWallet(r)
  BY DEF PublisherInv, InHand, OrderInv
<1>2. /\ sending' = [sending EXCEPT ![p] = {[record |-> r, ok |-> ok]}]
      /\ batch' = [batch EXCEPT ![p] = batch[p] \ {r}]
      /\ UNCHANGED rows
  BY DEF Answered
<1>3. PublisherInv'
  <2>1. [record |-> r, ok |-> ok] \in [record : Leased, ok : BOOLEAN]
    BY <1>1
  <2>2. sending' \in [Publishers -> SUBSET [record : Leased, ok : BOOLEAN]]
    BY <1>2, <2>1 DEF PublisherInv
  <2>3. batch' \in [Publishers -> SUBSET Leased]
    BY <1>2 DEF PublisherInv
  <2>4. \A q \in Publishers : \A a, b \in sending'[q] : a = b
    BY <1>2 DEF PublisherInv
  <2> QED
    BY <2>2, <2>3, <2>4 DEF PublisherInv
<1>4. \A q \in Publishers : \A s \in sending'[q] :
        s \in sending[q] \/ s = [record |-> r, ok |-> ok]
  BY <1>2 DEF PublisherInv
<1>5. /\ QueueInv'
      /\ ok => r.number \in delivered'[r.wallet]
      /\ \A w \in Wallets : delivered[w] \subseteq delivered'[w]
      /\ \A w \in Wallets : \A n \in delivered'[w] :
           n \in 1..Len(rows[w]) /\ 1..n \subseteq delivered'[w]
  <2>1. CASE Deliver(r)
    BY <1>1, <1>2, <2>1, DeliverKeeps
  <2>2. CASE ok = FALSE /\ UNCHANGED <<delivered, remembered>>
    BY <2>2 DEF QueueInv, OrderInv
  <2> QED
    BY <2>1, <2>2
<1>6. \A q \in Publishers : \A s \in InHand(q)' : HeadOfWallet(s)'
  <2> SUFFICES ASSUME NEW q \in Publishers, NEW s \in InHand(q)'
               PROVE  HeadOfWallet(s)'
    OBVIOUS
  <2>1. s \in InHand(q) \/ s = r
    BY <1>2, <1>4 DEF InHand, PublisherInv
  <2>2. HeadOfWallet(s)
    BY <1>1, <2>1 DEF OrderInv
  <2> QED
    BY <1>2, <2>2 DEF HeadOfWallet
<1>7. \A q \in Publishers : \A s \in sending'[q] :
        s.ok => s.record.number \in delivered'[s.record.wallet]
  <2> SUFFICES ASSUME NEW q \in Publishers, NEW s \in sending'[q], s.ok
               PROVE  s.record.number \in delivered'[s.record.wallet]
    OBVIOUS
  <2>1. CASE s \in sending[q]
    <3>1. s.record.wallet \in Wallets
      BY <2>1 DEF PublisherInv, Leased
    <3> QED
      BY <1>5, <2>1, <3>1 DEF OrderInv
  <2>2. CASE s = [record |-> r, ok |-> ok]
    BY <1>5, <2>2
  <2> QED
    BY <1>4, <2>1, <2>2
<1>8. \A w \in Wallets : \A n \in 1..Len(rows[w]) :
        rows[w][n].published => n \in delivered'[w]
  BY <1>5 DEF OrderInv
<1>9. OrderInv'
  BY <1>2, <1>5, <1>6, <1>7, <1>8 DEF OrderInv
<1>10. RowsInv'
  BY <1>2 DEF RowsInv
<1> QED
  BY <1>3, <1>5, <1>9, <1>10

\* The mark is written only where the queue answered.
LEMMA MarkPublishedKeeps ==
  ASSUME Inv, NEW p \in Publishers, MarkPublished(p)
  PROVE  Inv'
<1> USE DEF Inv
<1>1. PICK sent \in sending[p] :
        /\ sent.ok
        /\ rows' = [rows EXCEPT ![sent.record.wallet][sent.record.number].published = TRUE]
        /\ sending' = [sending EXCEPT ![p] = {}]
        /\ UNCHANGED <<delivered, remembered, batch>>
  BY DEF MarkPublished
<1> DEFINE w == sent.record.wallet
           n == sent.record.number
           row == [rows[w][n] EXCEPT !.published = TRUE]
<1>2. sent.record \in Leased /\ sent.record \in InHand(p)
  BY DEF PublisherInv, InHand
<1>3. w \in Wallets /\ n \in 1..Len(rows[w]) /\ n \in delivered[w]
  BY <1>1, <1>2 DEF Leased, OrderInv, HeadOfWallet
<1>4. rows[w][n] \in OutboxRow
  BY <1>3, RowsAreRows
<1>5. row \in OutboxRow /\ row.published
  BY <1>4 DEF OutboxRow
<1>6. rows' = [rows EXCEPT ![w] = [rows[w] EXCEPT ![n] = row]]
  BY <1>1
<1> HIDE DEF row, w, n
<1>7. /\ RowsInv'
      /\ \A v \in Wallets : Len(rows'[v]) = Len(rows[v])
      /\ \A v \in Wallets : \A m \in 1..Len(rows[v]) :
           rows'[v][m] = IF v = w /\ m = n THEN row ELSE rows[v][m]
  <2>1. RowsInv /\ w \in Wallets /\ n \in 1..Len(rows[w]) /\ row \in OutboxRow
    BY <1>3, <1>5
  <2> QED
    BY ONLY <2>1, <1>6, OneRowChanges
<1>8. \A v \in Wallets : Len(rows[v]) \in Nat
  BY LenProperties DEF RowsInv
<1>9. \A v \in Wallets :
        /\ Len(rows[v]) <= Len(rows'[v])
        /\ \A m \in 1..Len(rows[v]) : rows[v][m].published => rows'[v][m].published
  BY <1>5, <1>7, <1>8
<1>10. \A q \in Publishers : sending'[q] \subseteq sending[q] /\ InHand(q)' \subseteq InHand(q)
  BY <1>1 DEF InHand, PublisherInv
<1>11. PublisherInv' /\ QueueInv'
  BY <1>1, <1>10 DEF PublisherInv, QueueInv
<1>12. \A q \in Publishers : \A r \in InHand(q)' : HeadOfWallet(r)'
  BY <1>7, <1>9, <1>10, InHandIsLeased, HeadsStay DEF OrderInv
<1>13. \A v \in Wallets : \A m \in 1..Len(rows'[v]) :
         rows'[v][m].published => m \in delivered'[v]
  BY <1>1, <1>3, <1>7 DEF OrderInv
<1> QED
  BY <1>1, <1>7, <1>10, <1>11, <1>12, <1>13 DEF OrderInv

LEMMA ReschedulePublicationKeeps ==
  ASSUME Inv, NEW p \in Publishers, ReschedulePublication(p)
  PROVE  Inv'
<1> USE DEF Inv
<1>1. PICK sent \in sending[p] : LET r == sent.record
        failures == IF r.attempts < MaxFailures THEN r.attempts + 1 ELSE MaxFailures
      IN /\ rows' = IF rows[r.wallet][r.number].published THEN rows
                    ELSE [rows EXCEPT ![r.wallet][r.number].attempts = failures,
                                      ![r.wallet][r.number].due = FALSE]
         /\ sending' = [sending EXCEPT ![p] = {}]
         /\ UNCHANGED <<delivered, remembered, batch>>
  BY DEF ReschedulePublication
<1> DEFINE w == sent.record.wallet
           n == sent.record.number
           failures == IF sent.record.attempts < MaxFailures
                         THEN sent.record.attempts + 1 ELSE MaxFailures
           row == IF rows[w][n].published THEN rows[w][n]
                  ELSE [rows[w][n] EXCEPT !.attempts = failures, !.due = FALSE]
<1>2. sent.record \in Leased /\ sent.record \in InHand(p)
  BY DEF PublisherInv, InHand
<1>3. w \in Wallets /\ n \in 1..Len(rows[w])
  BY <1>2 DEF Leased, OrderInv, HeadOfWallet
<1>4. rows[w][n] \in OutboxRow
  BY <1>3, RowsAreRows
<1>5. failures \in 0..MaxFailures
  BY <1>2, PublicationAssumption DEF Leased
<1>6. row \in OutboxRow /\ row.published = rows[w][n].published
  <2> HIDE DEF failures, w, n
  <2>1. CASE rows[w][n].published
    BY <1>4, <2>1
  <2>2. CASE ~rows[w][n].published
    BY <1>4, <1>5, <2>2 DEF OutboxRow
  <2> QED
    BY <2>1, <2>2
<1>7. rows' = [rows EXCEPT ![w] = [rows[w] EXCEPT ![n] = row]]
  <2> DEFINE next == [rows[w][n] EXCEPT !.attempts = failures, !.due = FALSE]
  <2>1. rows[w] \in Seq(OutboxRow) /\ rows \in [Wallets -> Seq(OutboxRow)]
    BY <1>3 DEF RowsInv
  <2>2. CASE rows[w][n].published
    <3>1. rows' = rows
      BY <1>1, <2>2
    <3>2. row = rows[w][n]
      BY <2>2
    <3>3. [rows[w] EXCEPT ![n] = rows[w][n]] = rows[w]
      BY <1>3, <2>1, ExceptSeq, SeqEqual
    <3> HIDE DEF row, w, n
    <3>4. [rows EXCEPT ![w] = rows[w]] = rows
      BY <2>1
    <3> QED
      BY <3>1, <3>2, <3>3, <3>4
  <2>3. CASE ~rows[w][n].published
    BY <1>1, <1>3, <2>1, <2>3
  <2> QED
    BY <2>2, <2>3
<1>8. /\ sending' = [sending EXCEPT ![p] = {}]
      /\ UNCHANGED <<delivered, remembered, batch>>
  BY <1>1
<1> HIDE DEF row, failures, w, n
<1>9. /\ RowsInv'
      /\ \A v \in Wallets : Len(rows'[v]) = Len(rows[v])
      /\ \A v \in Wallets : \A m \in 1..Len(rows[v]) :
           rows'[v][m] = IF v = w /\ m = n THEN row ELSE rows[v][m]
  BY <1>3, <1>6, <1>7, OneRowChanges
<1>10. \A v \in Wallets : Len(rows[v]) \in Nat
  BY LenProperties DEF RowsInv
<1>11. \A q \in Publishers : sending'[q] \subseteq sending[q] /\ InHand(q)' \subseteq InHand(q)
  BY <1>8 DEF InHand, PublisherInv
<1>12. OrderInv'
  BY <1>6, <1>8, <1>9, <1>10, <1>11, RowStepKeepsOrder
<1> QED
  BY <1>8, <1>9, <1>11, <1>12 DEF PublisherInv, QueueInv

\* A publisher that lets go of what it held.
LEMMA LettingGoKeeps ==
  ASSUME Inv, NEW p \in Publishers,
         RecordFailed(p) \/ Crash(p)
  PROVE  Inv'
<1> USE DEF Inv
<1>1. /\ sending' = [sending EXCEPT ![p] = {}]
      /\ batch' = batch \/ batch' = [batch EXCEPT ![p] = {}]
      /\ UNCHANGED <<rows, delivered, remembered>>
  BY DEF RecordFailed, Crash
<1>2. \A q \in Publishers : /\ sending'[q] \subseteq sending[q]
                            /\ batch'[q] \subseteq batch[q]
                            /\ InHand(q)' \subseteq InHand(q)
  BY <1>1 DEF InHand, PublisherInv
<1>3. RowsInv' /\ QueueInv'
  BY <1>1 DEF RowsInv, QueueInv
<1>4. PublisherInv'
  BY <1>1, <1>2 DEF PublisherInv
<1>5. \A w \in Wallets : Len(rows[w]) \in Nat
  BY LenProperties DEF RowsInv
<1>6. OrderInv'
  BY <1>1, <1>2, <1>3, <1>5, RowStepKeepsOrder
<1> QED
  BY <1>3, <1>4, <1>6

LEMMA ForgetKeeps ==
  ASSUME Inv, NEW id \in remembered, Forget(id)
  PROVE  Inv'
<1> USE DEF Inv
<1>1. /\ remembered' \subseteq remembered
      /\ UNCHANGED <<rows, delivered, batch, sending>>
  BY DEF Forget
<1>2. RowsInv' /\ PublisherInv' /\ QueueInv'
  BY <1>1 DEF RowsInv, PublisherInv, QueueInv
<1>3. \A w \in Wallets : Len(rows[w]) \in Nat
  BY LenProperties DEF RowsInv
<1>4. OrderInv'
  BY <1>1, <1>2, <1>3, RowStepKeepsOrder DEF InHand
<1> QED
  BY <1>2, <1>4

-----------------------------------------------------------------------------
(* Theorems *)

LEMMA InitInv == Init => Inv
<1> SUFFICES ASSUME Init PROVE Inv
  OBVIOUS
<1>1. \A w \in Wallets : rows[w] = << >> /\ Len(rows[w]) = 0
  BY DEF Init
<1>2. RowsInv
  BY <1>1, PublicationAssumption DEF Init, RowsInv
<1>3. PublisherInv
  BY DEF Init, PublisherInv
<1>4. QueueInv
  BY DEF Init, QueueInv
<1>5. OrderInv
  BY <1>1 DEF Init, OrderInv, InHand
<1> QED
  BY <1>2, <1>3, <1>4, <1>5 DEF Inv

LEMMA NextKeepsInv == Inv /\ [Next]_vars => Inv'
<1> SUFFICES ASSUME Inv, [Next]_vars PROVE Inv'
  OBVIOUS
<1>1. ASSUME NEW w \in Wallets, RecordEvent(w) PROVE Inv'
  BY <1>1, RecordEventKeeps
<1>2. ASSUME NEW w \in Wallets, NEW n \in 1..MaxEvents, ComeDue(w, n) PROVE Inv'
  BY <1>2, ComeDueKeeps
<1>3. ASSUME NEW p \in Publishers, LeasePending(p) PROVE Inv'
  BY <1>3, LeasePendingKeeps
<1>4. ASSUME NEW p \in Publishers, NEW r \in batch[p],
             PublishAccepted(p, r) \/ PublishUnanswered(p, r) \/ PublishFailed(p, r)
      PROVE  Inv'
  <2>1. CASE PublishAccepted(p, r)
    BY <2>1, SendKeeps DEF PublishAccepted
  <2>2. CASE PublishUnanswered(p, r)
    BY <2>2, SendKeeps DEF PublishUnanswered
  <2>3. CASE PublishFailed(p, r)
    BY <2>3, SendKeeps DEF PublishFailed
  <2> QED
    BY <1>4, <2>1, <2>2, <2>3
<1>5. ASSUME NEW p \in Publishers, MarkPublished(p) PROVE Inv'
  BY <1>5, MarkPublishedKeeps
<1>6. ASSUME NEW p \in Publishers, ReschedulePublication(p) PROVE Inv'
  BY <1>6, ReschedulePublicationKeeps
<1>7. ASSUME NEW p \in Publishers, RecordFailed(p) \/ Crash(p) PROVE Inv'
  BY <1>7, LettingGoKeeps
<1>8. ASSUME NEW id \in remembered, Forget(id) PROVE Inv'
  BY <1>8, ForgetKeeps
<1>9. CASE UNCHANGED vars
  BY <1>9 DEF vars, Inv, RowsInv, PublisherInv, QueueInv, OrderInv, InHand, HeadOfWallet
<1> QED
  BY <1>1, <1>2, <1>3, <1>4, <1>5, <1>6, <1>7, <1>8, <1>9 DEF Next

\* Whoever holds an event, in time or late, holds one whose predecessors are all
\* marked: the strengthening that the other theorems rest on.
THEOREM PublicationInvariant == Spec => []Inv
<1>1. Init => Inv
  BY InitInv
<1>2. Inv /\ [Next]_vars => Inv'
  BY NextKeepsInv
<1> QED
  BY <1>1, <1>2, PTL DEF Spec

\* The type invariant of the publication, for every number of publishers.
THEOREM WellTyped == Spec => []TypeOK
<1>1. Inv => TypeOK
  <2> SUFFICES ASSUME Inv PROVE TypeOK
    OBVIOUS
  <2>1. \A p \in Publishers : Cardinality(sending[p]) <= 1
    <3> SUFFICES ASSUME NEW p \in Publishers PROVE Cardinality(sending[p]) <= 1
      OBVIOUS
    <3>1. CASE sending[p] = {}
      BY <3>1, FS_EmptySet
    <3>2. CASE sending[p] # {}
      <4>1. PICK a \in sending[p] : sending[p] = {a}
        BY <3>2 DEF Inv, PublisherInv
      <4>2. Cardinality({a}) = 1
        BY FS_Singleton, Zenon
      <4> QED
        BY <4>1, <4>2
    <3> QED
      BY <3>1, <3>2
  <2> QED
    BY <2>1 DEF Inv, TypeOK, RowsInv, PublisherInv, QueueInv
<1> QED
  BY <1>1, PublicationInvariant, PTL

\* No mark without a delivery (publish_outbox.go marks after the send): a lost
\* answer, a crash or a stale publisher never drops an event.
THEOREM MarkedAfterDelivery == Spec => []PublishedWasDelivered
<1>1. Inv => PublishedWasDelivered
  BY RowsAreRows DEF Inv, OrderInv, PublishedWasDelivered
<1> QED
  BY <1>1, PublicationInvariant, PTL

\* What the queue accepted of a wallet is a prefix of what it recorded, for any
\* number of publishers in any number of processes.
THEOREM DeliveredInOrder == Spec => []FirstDeliveriesInOrder
<1>1. Inv => FirstDeliveriesInOrder
  BY RowsAreRows DEF Inv, OrderInv, FirstDeliveriesInOrder
<1> QED
  BY <1>1, PublicationInvariant, PTL

\* The lease hands out heads only, and a head stays one however late its holder
\* is.
THEOREM HoldersNeverOvertake == Spec => []NoPublisherOvertakes
<1>1. Inv => NoPublisherOvertakes
  BY DEF Inv, OrderInv, NoPublisherOvertakes, InHand, HeadOfWallet
<1> QED
  BY <1>1, PublicationInvariant, PTL
=============================================================================
