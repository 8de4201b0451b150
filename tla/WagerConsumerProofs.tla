-------------------------- MODULE WagerConsumerProofs --------------------------
(***************************************************************************)
(* An operation that comes by queue is applied once and is taken in only   *)
(* with its inbox row, for any number of consumers, messages and           *)
(* deliveries, with consumers that crash and commits whose answer is lost. *)
(*                                                                         *)
(* None of it rests on the queue: a message may be in any number of hands. *)
(* What a consumer found out about its operation stays true until it       *)
(* commits because it holds the lock of the wallet, and a key names        *)
(* operations of one wallet only.                                          *)
(***************************************************************************)
EXTENDS WagerConsumer, FiniteSetTheorems, SequenceTheorems, TLAPS

Locking(c) == pc[c] \in {"Record", "Commit"}

HandsInv ==
  /\ pc \in [Consumers -> Steps]
  /\ batch \in [Consumers -> Seq(Messages)]
  /\ reason \in [Consumers -> Reasons \cup {"none"}]
  /\ applying \in [Consumers -> BOOLEAN]
  /\ \A c \in Consumers : pc[c] # "idle" => batch[c] # << >>
  /\ \A c \in Consumers : pc[c] = "DeadLetter" => reason[c] # "none"

\* Movements count the operations, of which a key names one.
CountInv ==
  /\ movements \in [Keys -> Nat]
  /\ \A k \in Keys : movements[k] = IF \E o \in operations : o.key = k THEN 1 ELSE 0
  /\ \A o, p \in operations : o.key = p.key => o = p

\* What a consumer in a transaction found out is still so.
StillSo(c) ==
  /\ Locking(c) =>
       IF applying[c] THEN \A o \in operations : o.key # Current(c).key
       ELSE Operation(Current(c)) \in operations
  /\ pc[c] = "Commit" => \A r \in inbox : r.id # Current(c).id

\* One consumer per wallet is in a transaction, and one per identifier commits.
ApartInv ==
  \A c, d \in Consumers : c # d =>
    /\ Locking(c) /\ Locking(d) => Current(c).wallet # Current(d).wallet
    /\ pc[c] = "Commit" /\ pc[d] = "Commit" => Current(c).id # Current(d).id

\* What may be deleted is recorded.
Handled(c) ==
  pc[c] = "Delete" /\ reason[c] = "none" =>
    \E o \in operations : o.content = Current(c).content

Inv ==
  /\ HandsInv /\ CountInv /\ InboxHoldsOperations /\ ApartInv
  /\ \A c \in Consumers : StillSo(c) /\ Handled(c)

-----------------------------------------------------------------------------
(* Messages and batches *)

\* A consumer that is not idle has a message.
LEMMA CurrentIsAMessage ==
  ASSUME HandsInv, NEW c \in Consumers, pc[c] # "idle"
  PROVE  Head(batch[c]) \in Messages /\ Current(c).key \in Keys
<1>1. batch[c] \in Seq(Messages) /\ batch[c] # << >>
  BY DEF HandsInv
<1>2. Head(batch[c]) \in Messages
  BY <1>1
<1> QED
  BY <1>2 DEF Current, Keys

\* Operations under one key are of one wallet, so one transaction has the key.
LEMMA KeysAreApart ==
  ASSUME HandsInv, ApartInv,
         NEW c \in Consumers, NEW d \in Consumers, c # d, Locking(c), Locking(d)
  PROVE  Current(c).key # Current(d).key
<1>1. Head(batch[c]) \in Messages /\ Head(batch[d]) \in Messages
  BY CurrentIsAMessage DEF Locking
<1> QED
  BY <1>1, ConsumerAssumption DEF ApartInv, Current

\* A batch holds messages, and at least one.
LEMMA BatchesAreMessages ==
  ASSUME NEW ms \in SUBSET Messages, ms # {}, NEW s \in InOrder(ms)
  PROVE  s \in Seq(Messages) /\ s # << >>
<1>1. IsFiniteSet(ms)
  BY ConsumerAssumption, FS_Subset
<1>2. Cardinality(ms) \in Nat /\ Cardinality(ms) # 0
  BY <1>1, FS_CardinalityType, FS_EmptySet
<1>3. s \in [1..Cardinality(ms) -> Messages]
  BY DEF InOrder
<1> QED
  BY <1>2, <1>3

\* What stays of the hands when a consumer takes a step.
LEMMA HandsOf ==
  ASSUME HandsInv, NEW c \in Consumers,
         NEW step \in Steps, NEW b \in Seq(Messages), NEW why \in Reasons \cup {"none"},
         NEW a \in BOOLEAN,
         pc' = [pc EXCEPT ![c] = step], batch' = [batch EXCEPT ![c] = b],
         reason' = [reason EXCEPT ![c] = why], applying' = [applying EXCEPT ![c] = a],
         step # "idle" => b # << >>, step = "DeadLetter" => why # "none"
  PROVE  HandsInv'
  BY DEF HandsInv

LEMMA GotoKeepsHands ==
  ASSUME HandsInv, NEW c \in Consumers, pc[c] # "idle",
         NEW step \in Steps \ {"DeadLetter"}, Goto(c, step)
  PROVE  HandsInv'
  BY DEF HandsInv, Goto

LEMMA GiveUpKeepsHands ==
  ASSUME HandsInv, NEW c \in Consumers, pc[c] # "idle", NEW why \in Reasons, GiveUp(c, why)
  PROVE  HandsInv' /\ pc'[c] = "DeadLetter"
  BY DEF HandsInv, GiveUp, Steps, Reasons

LEMMA NextMessageKeepsHands ==
  ASSUME HandsInv, NEW c \in Consumers, pc[c] # "idle", NextMessage(c)
  PROVE  HandsInv' /\ pc'[c] \in {"idle", "Parse"}
<1>1. batch[c] \in Seq(Messages) /\ batch[c] # << >>
  BY DEF HandsInv
<1>2. /\ Tail(batch[c]) \in Seq(Messages)
      /\ Len(batch[c]) # 1 => Tail(batch[c]) # << >>
  <2>1. /\ Tail(batch[c]) \in Seq(Messages)
        /\ Len(Tail(batch[c])) = Len(batch[c]) - 1
    BY <1>1, HeadTailProperties
  <2>2. Len(batch[c]) \in Nat /\ Len(<< >>) = 0
    BY <1>1
  <2>3. Tail(batch[c]) = << >> => Len(batch[c]) = 1
    <3>1. Tail(batch[c]) = << >> => Len(batch[c]) - 1 = 0
      BY <2>1, <2>2
    <3> QED
      BY <2>2, <3>1
  <2> QED
    BY <2>1, <2>3
<1>3. pc' = [pc EXCEPT ![c] = IF Len(batch[c]) = 1 THEN "idle" ELSE "Parse"]
  BY DEF NextMessage
<1>4. /\ batch' = [batch EXCEPT ![c] = Tail(batch[c])]
      /\ reason' = [reason EXCEPT ![c] = "none"]
      /\ applying' = [applying EXCEPT ![c] = FALSE]
  BY DEF NextMessage, HandsInv
<1>5. (IF Len(batch[c]) = 1 THEN "idle" ELSE "Parse") \in Steps \ {"DeadLetter"}
  BY DEF Steps
<1>6. HandsInv'
  BY <1>2, <1>3, <1>4, <1>5, HandsOf
<1> QED
  BY <1>3, <1>6 DEF HandsInv

\* What the other consumers have in hand stays.
OthersKeep(c) ==
  \A d \in Consumers \ {c} :
    /\ pc'[d] = pc[d] /\ batch'[d] = batch[d]
    /\ reason'[d] = reason[d] /\ applying'[d] = applying[d]

LEMMA OthersAreKept ==
  ASSUME HandsInv, NEW c \in Consumers,
         \/ Receive(c) \/ Handling(c) \/ Unavailable(c) \/ DatabaseError(c)
         \/ CommitUnanswered(c) \/ Crash(c)
  PROVE  OthersKeep(c)
<1> USE DEF HandsInv, OthersKeep
<1>1. CASE Receive(c)
  BY <1>1 DEF Receive
<1>2. CASE Parse(c) \/ Find(c) \/ Settle(c)
  BY <1>2 DEF Parse, Find, Settle, Goto, GiveUp
<1>3. CASE Record(c) \/ Commit(c) \/ DeadLetter(c)
  BY <1>3 DEF Record, Commit, DeadLetter, Goto, GiveUp
<1>4. CASE Delete(c) \/ Unavailable(c) \/ DatabaseError(c)
  BY <1>4 DEF Delete, Unavailable, DatabaseError, NextMessage, GiveUp
<1>5. CASE CommitUnanswered(c) \/ Crash(c)
  BY <1>5 DEF CommitUnanswered, Crash, NextMessage, GiveUp
<1> QED
  BY <1>1, <1>2, <1>3, <1>4, <1>5 DEF Handling

-----------------------------------------------------------------------------
(* The steps *)

LEMMA Start == Init => Inv
<1> SUFFICES ASSUME Init
             PROVE  Inv
  OBVIOUS
<1>1. HandsInv
  BY DEF Init, HandsInv, Steps, Reasons
<1>2. CountInv /\ InboxHoldsOperations
  BY DEF Init, CountInv, InboxHoldsOperations
<1>3. \A c \in Consumers : pc[c] = "idle"
  BY DEF Init
<1>4. ApartInv /\ \A c \in Consumers : StillSo(c) /\ Handled(c)
  BY <1>3 DEF ApartInv, StillSo, Handled, Locking
<1> QED
  BY <1>1, <1>2, <1>4 DEF Inv

\* A step of a consumer outside a transaction, or on its way out of one.
LEMMA SettingAsideIsSafe ==
  ASSUME Inv, NEW c \in Consumers, HandsInv', OthersKeep(c), UNCHANGED database,
         ~Locking(c)', Handled(c)'
  PROVE  Inv'
<1>1. CountInv' /\ InboxHoldsOperations'
  BY DEF Inv, CountInv, InboxHoldsOperations, database
<1>2. \A d \in Consumers \ {c} : /\ Locking(d)' = Locking(d)
                                 /\ Current(d)' = Current(d)
  BY DEF OthersKeep, Locking, Current
<1>3. ApartInv'
  BY <1>2 DEF Inv, ApartInv, OthersKeep, Locking
<1>4. \A d \in Consumers \ {c} : StillSo(d)' /\ Handled(d)'
  BY <1>2 DEF Inv, StillSo, Handled, OthersKeep, database
<1>5. StillSo(c)'
  BY DEF StillSo, Locking
<1> QED
  BY <1>1, <1>3, <1>4, <1>5 DEF Inv

LEMMA ReceiveKeeps ==
  ASSUME Inv, NEW c \in Consumers, Receive(c)
  PROVE  Inv'
<1>1. PICK ms \in SUBSET Messages :
        ms # {} /\ \E s \in InOrder(ms) : batch' = [batch EXCEPT ![c] = s]
  BY DEF Receive, Receivable
<1>2. PICK s \in InOrder(ms) : batch' = [batch EXCEPT ![c] = s]
  BY <1>1
<1>3. s \in Seq(Messages) /\ s # << >>
  BY <1>1, <1>2, BatchesAreMessages
<1>4. HandsInv'
  BY <1>2, <1>3 DEF Inv, HandsInv, Receive, Steps
<1>5. pc'[c] = "Parse"
  BY DEF Inv, HandsInv, Receive
<1>6. OthersKeep(c)
  BY OthersAreKept DEF Inv
<1> QED
  BY <1>4, <1>5, <1>6, SettingAsideIsSafe DEF Receive, Locking, Handled

LEMMA ParseKeeps ==
  ASSUME Inv, NEW c \in Consumers, Parse(c)
  PROVE  Inv'
<1>1. HandsInv' /\ pc'[c] \in {"Find", "DeadLetter"}
  <2>1. CASE Goto(c, "Find")
    BY <2>1, GotoKeepsHands DEF Inv, HandsInv, Parse, Steps, Goto
  <2>2. CASE GiveUp(c, "malformed")
    BY <2>2, GiveUpKeepsHands DEF Inv, Parse, Reasons
  <2> QED
    BY <2>1, <2>2 DEF Parse
<1>2. OthersKeep(c)
  BY OthersAreKept DEF Inv, Handling
<1> QED
  BY <1>1, <1>2, SettingAsideIsSafe DEF Parse, Locking, Handled

\* A row with the same content vouches for the operation.
LEMMA FindKeeps ==
  ASSUME Inv, NEW c \in Consumers, Find(c)
  PROVE  Inv'
<1> USE DEF Inv
<1>1. OthersKeep(c) /\ UNCHANGED database /\ pc[c] = "Find"
  BY OthersAreKept DEF Handling, Find
<1>2. CASE Goto(c, "Settle")
  <2>1. HandsInv' /\ pc'[c] = "Settle"
    BY <1>1, <1>2, GotoKeepsHands DEF HandsInv, Steps, Goto
  <2> QED
    BY <1>1, <2>1, SettingAsideIsSafe DEF Locking, Handled
<1>3. CASE Goto(c, "Delete") /\ \E r \in inbox : r.content = Current(c).content
  <2>1. HandsInv' /\ batch' = batch
    BY <1>1, <1>3, GotoKeepsHands DEF Steps, Goto
  <2>2. PICK r \in inbox : r.content = Current(c).content
    BY <1>3
  <2>3. [key |-> r.key, content |-> r.content] \in operations
    BY DEF InboxHoldsOperations
  <2>4. \E o \in operations : o.content = Current(c).content
    BY <2>2, <2>3
  <2>5. Handled(c)' /\ pc'[c] = "Delete"
    BY <1>1, <1>3, <2>1, <2>4 DEF Handled, Current, database, Goto, HandsInv
  <2> QED
    BY <1>1, <2>1, <2>5, SettingAsideIsSafe DEF Locking
<1>4. CASE GiveUp(c, "conflict")
  <2>1. HandsInv' /\ pc'[c] = "DeadLetter"
    BY <1>1, <1>4, GiveUpKeepsHands DEF Reasons
  <2> QED
    BY <1>1, <2>1, SettingAsideIsSafe DEF Locking, Handled
<1> QED
  BY <1>2, <1>3, <1>4 DEF Find

\* The lock is free, and what the operations say is read under it.
LEMMA SettleKeeps ==
  ASSUME Inv, NEW c \in Consumers, Settle(c)
  PROVE  Inv'
<1> USE DEF Inv
<1>1. OthersKeep(c) /\ UNCHANGED database /\ pc[c] = "Settle"
  BY OthersAreKept DEF Handling, Settle
<1>2. CASE \E why \in Reasons : GiveUp(c, why)
  <2>1. HandsInv' /\ pc'[c] = "DeadLetter"
    BY <1>1, <1>2, GiveUpKeepsHands
  <2> QED
    BY <1>1, <2>1, SettingAsideIsSafe DEF Locking, Handled
<1> DEFINE known == {o \in operations : \/ o.key = Current(c).key
                                        \/ o.content = Current(c).content}
<1>3. CASE /\ known \subseteq {Operation(Current(c))}
           /\ pc' = [pc EXCEPT ![c] = "Record"]
           /\ applying' = [applying EXCEPT ![c] = (known = {})]
           /\ UNCHANGED <<batch, reason>>
  <2>1. HandsInv' /\ pc'[c] = "Record" /\ applying'[c] = (known = {})
    <3>1. (known = {}) \in BOOLEAN
      OBVIOUS
    <3> HIDE DEF known
    <3>2. pc'[c] = "Record" /\ applying'[c] = (known = {})
      BY <1>3 DEF HandsInv
    <3>3. HandsInv'
      BY <1>1, <1>3, <3>1 DEF HandsInv, Steps
    <3> QED
      BY <3>2, <3>3
  <2>2. CountInv' /\ InboxHoldsOperations'
    BY <1>1 DEF CountInv, InboxHoldsOperations, database
  <2>3. \A d \in Consumers : Current(d)' = Current(d)
    BY <1>3 DEF Current
  <2>4. \A d \in Consumers \ {c} : pc'[d] = pc[d] /\ Locking(d)' = Locking(d)
    BY <1>1 DEF OthersKeep, Locking
  <2>5. ApartInv'
    <3>1. \A d \in Consumers : Locking(d) => Current(d).wallet # Current(c).wallet
      BY DEF Settle, LockHolders, Locking
    <3> QED
      BY <2>1, <2>3, <2>4, <3>1 DEF ApartInv
  <2>6. StillSo(c)'
    <3>1. IF known = {} THEN \A o \in operations : o.key # Current(c).key
          ELSE Operation(Current(c)) \in operations
      BY <1>3
    <3> HIDE DEF known
    <3> QED
      BY <1>1, <2>1, <2>3, <3>1 DEF StillSo, database
  <2>7. Handled(c)'
    BY <2>1 DEF Handled
  <2>8. \A d \in Consumers \ {c} : StillSo(d)' /\ Handled(d)'
    BY <1>1, <2>3, <2>4 DEF StillSo, Handled, OthersKeep, database
  <2> QED
    BY <2>1, <2>2, <2>5, <2>6, <2>7, <2>8
<1> QED
  <2>1. "walletNotFound" \in Reasons /\ "conflict" \in Reasons
    BY DEF Reasons
  <2> QED
    BY <1>2, <1>3, <2>1 DEF Settle

LEMMA RecordKeeps ==
  ASSUME Inv, NEW c \in Consumers, Record(c)
  PROVE  Inv'
<1> USE DEF Inv
<1>1. OthersKeep(c) /\ UNCHANGED database /\ pc[c] = "Record"
  BY OthersAreKept DEF Handling, Record
<1>2. CASE GiveUp(c, "conflict")
  <2>1. HandsInv' /\ pc'[c] = "DeadLetter"
    BY <1>1, <1>2, GiveUpKeepsHands DEF Reasons
  <2> QED
    BY <1>1, <2>1, SettingAsideIsSafe DEF Locking, Handled
<1>3. CASE (\A r \in inbox : r.id # Current(c).id) /\ Goto(c, "Commit")
  <2>1. HandsInv' /\ pc'[c] = "Commit" /\ applying'[c] = applying[c]
    BY <1>1, <1>3, GotoKeepsHands DEF HandsInv, Steps, Goto
  <2>2. CountInv' /\ InboxHoldsOperations'
    BY <1>1 DEF CountInv, InboxHoldsOperations, database
  <2>3. \A d \in Consumers : Current(d)' = Current(d) /\ Locking(d)' = Locking(d)
    BY <1>1, <1>3, <2>1 DEF Current, Goto, OthersKeep, Locking
  <2>4. ApartInv'
    <3>1. \A d \in Consumers \ {c} : pc'[d] = "Commit" => Current(d).id # Current(c).id
      BY <1>1 DEF Record, OthersKeep
    <3> QED
      BY <1>1, <2>3, <3>1 DEF ApartInv, OthersKeep
  <2>5. StillSo(c)' /\ Handled(c)'
    BY <1>1, <1>3, <2>1, <2>3 DEF StillSo, Handled, database, Locking
  <2>6. \A d \in Consumers \ {c} : StillSo(d)' /\ Handled(d)'
    BY <1>1, <2>3 DEF StillSo, Handled, OthersKeep, database
  <2> QED
    BY <2>1, <2>2, <2>4, <2>5, <2>6
<1> QED
  BY <1>2, <1>3 DEF Record

\* An operation of a key nobody else has in a transaction.
LEMMA NewOperationCounts ==
  ASSUME CountInv, NEW e, e.key \in Keys, \A o \in operations : o.key # e.key,
         operations' = operations \cup {Operation(e)},
         movements' = [movements EXCEPT ![e.key] = @ + 1]
  PROVE  CountInv'
<1>1. Operation(e).key = e.key
  BY DEF Operation
<1>2. movements[e.key] = 0 /\ movements'[e.key] = 1
  BY DEF CountInv
<1>3. ASSUME NEW k \in Keys
      PROVE  movements'[k] = IF \E o \in operations' : o.key = k THEN 1 ELSE 0
  <2>1. CASE k = e.key
    BY <1>1, <1>2, <2>1
  <2>2. CASE k # e.key
    BY <1>1, <2>2 DEF CountInv
  <2> QED
    BY <2>1, <2>2
<1>4. \A o, p \in operations' : o.key = p.key => o = p
  BY <1>1 DEF CountInv
<1>5. movements' \in [Keys -> Nat]
  BY DEF CountInv
<1> QED
  BY <1>3, <1>4, <1>5 DEF CountInv

LEMMA CommittedKeeps ==
  ASSUME Inv, NEW c \in Consumers, pc[c] = "Commit", Committed(c), OthersKeep(c),
         HandsInv', ~Locking(c)', Head(batch'[c]) = Head(batch[c]) \/ pc'[c] # "Delete"
  PROVE  Inv'
<1> USE DEF Inv
<1> DEFINE e == Current(c)
<1>1. inbox' = inbox \cup {Taken(e)}
  BY DEF Committed
<1>2. e.key \in Keys /\ Locking(c)
  BY CurrentIsAMessage DEF Locking
<1>3. ASSUME applying[c]
      PROVE  CountInv'
  <2>1. /\ operations' = operations \cup {Operation(e)}
        /\ movements' = [movements EXCEPT ![e.key] = @ + 1]
        /\ \A o \in operations : o.key # e.key
    BY <1>2, <1>3 DEF Committed, StillSo
  <2>2. CountInv
    OBVIOUS
  <2> HIDE DEF e, Inv
  <2> QED
    BY <1>2, <2>1, <2>2, NewOperationCounts
<1>4. ASSUME ~applying[c]
      PROVE  CountInv'
  <2>1. UNCHANGED <<operations, movements>>
    BY <1>4 DEF Committed
  <2>2. CountInv
    OBVIOUS
  <2> HIDE DEF e, Inv
  <2> QED
    BY <2>1, <2>2 DEF CountInv
<1>5. CountInv' /\ operations \cup {Operation(e)} = operations'
  <2>1. CountInv'
    BY <1>3, <1>4
  <2>2. operations \cup {Operation(e)} = operations'
    BY <1>2 DEF Committed, StillSo
  <2> QED
    BY <2>1, <2>2
<1>6. InboxHoldsOperations'
  <2>1. \A r \in inbox : r.id # e.id
    BY DEF StillSo
  <2>2. /\ Taken(e).id = e.id
        /\ [key |-> Taken(e).key, content |-> Taken(e).content] = Operation(e)
    BY DEF Taken, Operation
  <2> HIDE DEF e
  <2> QED
    BY <1>1, <1>5, <2>1, <2>2 DEF InboxHoldsOperations
<1>7. \A d \in Consumers \ {c} : Current(d)' = Current(d) /\ Locking(d)' = Locking(d)
  BY DEF OthersKeep, Current, Locking
<1>8. ApartInv'
  BY <1>7 DEF ApartInv, OthersKeep, Locking
<1>9. ASSUME NEW d \in Consumers \ {c}
      PROVE  StillSo(d)' /\ Handled(d)'
  <2>1. Locking(d) => Operation(e).key # Current(d).key
    BY <1>2, KeysAreApart DEF Operation
  <2>2. pc[d] = "Commit" => Taken(e).id # Current(d).id
    BY DEF Taken, ApartInv
  <2>3. StillSo(d) /\ Handled(d)
    OBVIOUS
  <2>4. /\ pc'[d] = pc[d] /\ reason'[d] = reason[d] /\ applying'[d] = applying[d]
        /\ Current(d)' = Current(d) /\ Locking(d)' = Locking(d)
    BY <1>7 DEF OthersKeep
  <2> HIDE DEF e, Inv
  <2>5. StillSo(d)'
    BY <1>1, <1>5, <2>1, <2>2, <2>3, <2>4 DEF StillSo
  <2>6. Handled(d)'
    BY <1>5, <2>3, <2>4 DEF Handled
  <2> QED
    BY <2>5, <2>6
<1>10. StillSo(c)' /\ Handled(c)'
  <2>1. StillSo(c)'
    BY DEF StillSo, Locking
  <2>2. Operation(e).content = e.content /\ Operation(e) \in operations'
    BY <1>5 DEF Operation
  <2>3. Handled(c)'
    BY <2>2 DEF Handled, Current
  <2> QED
    BY <2>1, <2>3
<1> QED
  BY <1>5, <1>6, <1>8, <1>9, <1>10

LEMMA CommitKeeps ==
  ASSUME Inv, NEW c \in Consumers, Commit(c) \/ CommitUnanswered(c)
  PROVE  Inv'
<1>1. OthersKeep(c) /\ pc[c] = "Commit" /\ Committed(c) /\ HandsInv
  BY OthersAreKept DEF Inv, Handling, Commit, CommitUnanswered
<1>2. CASE Goto(c, "Delete")
  <2>1. HandsInv' /\ pc'[c] = "Delete" /\ batch' = batch
    BY <1>1, <1>2, GotoKeepsHands DEF HandsInv, Steps, Goto
  <2> QED
    BY <1>1, <2>1, CommittedKeeps DEF Locking
<1>3. CASE NextMessage(c)
  <2>1. HandsInv' /\ pc'[c] \in {"idle", "Parse"}
    BY <1>1, <1>3, NextMessageKeepsHands
  <2> QED
    BY <1>1, <2>1, CommittedKeeps DEF Locking
<1>4. CASE GiveUp(c, "database")
  <2>1. HandsInv' /\ pc'[c] = "DeadLetter"
    BY <1>1, <1>4, GiveUpKeepsHands DEF Reasons
  <2> QED
    BY <1>1, <2>1, CommittedKeeps DEF Locking
<1> QED
  BY <1>2, <1>3, <1>4 DEF Commit, CommitUnanswered

\* Faults, and what comes after a message.
LEMMA LettingGoKeeps ==
  ASSUME Inv, NEW c \in Consumers,
         DeadLetter(c) \/ Delete(c) \/ Unavailable(c) \/ DatabaseError(c) \/ Crash(c)
  PROVE  Inv'
<1>1. OthersKeep(c) /\ UNCHANGED database /\ HandsInv
  BY OthersAreKept
     DEF Inv, Handling, DeadLetter, Delete, Unavailable, DatabaseError, Crash
<1>2. CASE DeadLetter(c)
  <2>1. HandsInv' /\ pc'[c] = "Delete"
    BY <1>1, <1>2, GotoKeepsHands DEF DeadLetter, HandsInv, Steps, Goto
  <2>2. reason'[c] # "none"
    BY <1>1, <1>2 DEF DeadLetter, HandsInv, Goto
  <2> QED
    BY <1>1, <2>1, <2>2, SettingAsideIsSafe DEF Locking, Handled
<1>3. CASE Delete(c) \/ Unavailable(c)
  <2>1. HandsInv' /\ pc'[c] \in {"idle", "Parse"}
    BY <1>1, <1>3, NextMessageKeepsHands DEF Delete, Unavailable, InTransaction
  <2> QED
    BY <1>1, <2>1, SettingAsideIsSafe DEF Locking, Handled
<1>4. CASE DatabaseError(c)
  <2>1. HandsInv' /\ pc'[c] = "DeadLetter"
    BY <1>1, <1>4, GiveUpKeepsHands DEF DatabaseError, InTransaction, Reasons
  <2> QED
    BY <1>1, <2>1, SettingAsideIsSafe DEF Locking, Handled
<1>5. CASE Crash(c)
  <2>1. HandsInv' /\ pc'[c] = "idle"
    BY <1>1, <1>5 DEF Crash, HandsInv, Steps
  <2> QED
    BY <1>1, <2>1, SettingAsideIsSafe DEF Locking, Handled
<1> QED
  BY <1>2, <1>3, <1>4, <1>5

\* The other way in waits for the same lock.
LEMMA HttpRequestKeeps ==
  ASSUME Inv, NEW m \in Messages, HttpRequest(m)
  PROVE  Inv'
<1> USE DEF Inv
<1> DEFINE e == Envelope[m]
<1>1. /\ operations' = operations \cup {Operation(e)}
      /\ movements' = [movements EXCEPT ![e.key] = @ + 1]
      /\ \A o \in operations : o.key # e.key
      /\ UNCHANGED <<inbox, pc, batch, reason, applying>>
  BY DEF HttpRequest
<1>2. e.key \in Keys
  BY DEF Keys
<1>3. CountInv'
  <2> HIDE DEF e
  <2> QED
    BY <1>1, <1>2, NewOperationCounts
<1>4. HandsInv' /\ ApartInv'
  BY <1>1 DEF HandsInv, ApartInv, Locking, Current
<1>5. InboxHoldsOperations'
  BY <1>1 DEF InboxHoldsOperations
<1>6. ASSUME NEW c \in Consumers
      PROVE  StillSo(c)' /\ Handled(c)'
  <2>1. Locking(c) => Operation(e).key # Current(c).key
    <3>1. Locking(c) => Current(c).wallet # e.wallet /\ Head(batch[c]) \in Messages
      BY CurrentIsAMessage DEF HttpRequest, LockHolders, Locking
    <3> QED
      BY <3>1, ConsumerAssumption DEF Operation, Current
  <2>2. StillSo(c)'
    BY <1>1, <2>1 DEF StillSo, Locking, Current
  <2>3. Handled(c)'
    BY <1>1 DEF Handled, Current
  <2> QED
    BY <2>2, <2>3
<1> QED
  BY <1>3, <1>4, <1>5, <1>6

LEMMA StepKeeps == Inv /\ [Next]_vars => Inv'
<1> SUFFICES ASSUME Inv, [Next]_vars
             PROVE  Inv'
  OBVIOUS
<1>1. CASE \E c \in Consumers : Receive(c)
  BY <1>1, ReceiveKeeps
<1>2. CASE \E c \in Consumers : Handling(c)
  BY <1>2, ParseKeeps, FindKeeps, SettleKeeps, RecordKeeps, CommitKeeps, LettingGoKeeps
     DEF Handling
<1>3. CASE \E c \in Consumers : \/ Unavailable(c) \/ DatabaseError(c)
                                \/ CommitUnanswered(c) \/ Crash(c)
  BY <1>3, CommitKeeps, LettingGoKeeps
<1>4. CASE \E m \in Messages : HttpRequest(m)
  BY <1>4, HttpRequestKeeps
<1>5. CASE \/ \E m \in Messages : Expire(m) \/ Redrive(m)
           \/ UNCHANGED vars
  <2>1. UNCHANGED <<inbox, operations, movements, pc, batch, reason, applying>>
    BY <1>5 DEF Expire, Redrive, vars, database
  <2> QED
    BY <2>1 DEF Inv, HandsInv, CountInv, InboxHoldsOperations, ApartInv, StillSo, Handled,
                Locking, Current
<1> QED
  BY <1>1, <1>2, <1>3, <1>4, <1>5 DEF Next

\* The invariant the theorems below follow from.
THEOREM ConsumptionInvariant == Spec => []Inv
  BY Start, StepKeeps, PTL DEF Spec

\* ProcessInboxMessage and ProcessWager: however often a message is delivered,
\* its operation moves money once.
THEOREM AppliesOnce == Spec => []AppliedOnce
<1>1. Inv => AppliedOnce
  <2> SUFFICES ASSUME Inv, NEW k \in Keys
               PROVE  movements[k] = Cardinality({o \in operations : o.key = k})
                      /\ movements[k] <= 1
    BY DEF AppliedOnce
  <2> USE DEF Inv, CountInv
  <2>1. CASE \E o \in operations : o.key = k
    <3>1. PICK o \in operations : o.key = k
      BY <2>1
    <3>2. {p \in operations : p.key = k} = {o}
      BY <3>1
    <3>3. Cardinality({p \in operations : p.key = k}) = 1
      BY <3>2, FS_Singleton
    <3> QED
      BY <2>1, <3>3
  <2>2. CASE ~\E o \in operations : o.key = k
    <3>1. {p \in operations : p.key = k} = {}
      BY <2>2
    <3>2. Cardinality({p \in operations : p.key = k}) = 0
      BY <3>1, FS_EmptySet
    <3> QED
      BY <2>2, <3>2
  <2> QED
    BY <2>1, <2>2
<1> QED
  BY <1>1, ConsumptionInvariant, PTL

\* inbox.Record within the transaction: a message counts as taken in only
\* together with its operation, and an identifier once.
THEOREM TakenInWithOperation == Spec => []InboxHoldsOperations
<1>1. Inv => InboxHoldsOperations
  BY DEF Inv
<1> QED
  BY <1>1, ConsumptionInvariant, PTL

\* consumer.handle: what is deleted without a dead letter has its operation
\* recorded.
THEOREM DeletedIsHandled == Spec => []DeletesOnlyTheHandled
<1>1. Inv => DeletesOnlyTheHandled
  BY DEF Inv, Handled, DeletesOnlyTheHandled
<1> QED
  BY <1>1, ConsumptionInvariant, PTL
=============================================================================
