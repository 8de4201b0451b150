---------------------------- MODULE WagerApiProofs ----------------------------
(***************************************************************************)
(* For any clients, requests and messages: "created" is said once, and     *)
(* providers stay apart.  What an answer says is backed by a row, or by a  *)
(* wallet, that is there for good: rows are only replaced by what becomes  *)
(* of them, and versions only grow.  A wallet is opened once because only  *)
(* one opening of it is under way, and while it does not exist.            *)
(***************************************************************************)
EXTENDS WagerApi, TLAPS

DatabaseInv ==
  /\ ops \subseteq Operations
  /\ version \in [Wallets -> Nat]
  /\ \A p, q \in ops : p.provider = q.provider /\ p.key = q.key => p = q

CallsInv ==
  /\ DOMAIN stage = Calls /\ DOMAIN reply = Calls
  /\ request \in [Calls -> Requests]
  /\ \A c \in Calls : stage[c] \in {"idle", "sent", "opening"} => reply[c] = NoReply

\* What is there stays: an operation keeps who sent it and what it asks.
Becomes(p, q) == q.provider = p.provider /\ q.key = p.key /\ q.payload = p.payload
Kept ==
  /\ \A p \in ops : \E q \in ops' : Becomes(p, q)
  /\ \A w \in Wallets : version'[w] >= version[w]

\* What an answer says, and what backs it: a row, or a wallet.
SaysCreated(answer) == answer.status = 201
SaysConflict(answer) == answer.status = 409
Shows(answer) == answer.state # ""

Names(r, o) == o.provider = r.token.provider /\ o.payload.name = r.payload.name
Repeated(r, o) == o.provider = r.token.provider /\ o.key = r.key /\ o.payload = r.payload
Clashes(r, o) ==
  /\ o.provider = r.token.provider
  /\ \/ o.key = r.key /\ o.payload # r.payload
     \/ o.key # r.key /\ o.payload.name = r.payload.name

ReadBacked(c) ==
  request[c].route \in {"byId", "byName"} /\ Shows(reply[c])
    => \E o \in ops : Names(request[c], o) /\ request[c].provider = o.provider
ResultBacked(c) ==
  request[c].route = "process" /\ Shows(reply[c]) => \E o \in ops : Repeated(request[c], o)
ConflictBacked(c) ==
  request[c].route = "process" /\ SaysConflict(reply[c]) => \E o \in ops : Clashes(request[c], o)
CreationBacked(c) ==
  SaysCreated(reply[c]) =>
    \/ /\ request[c].route = "process" /\ request[c].provider = request[c].token.provider
       /\ \E o \in ops : Names(request[c], o)
    \/ request[c].route = "open" /\ Exists(request[c].payload.wallet)
Backed(c) == ReadBacked(c) /\ ResultBacked(c) /\ ConflictBacked(c) /\ CreationBacked(c)

SameCreation(r, q) ==
  /\ r.route = q.route
  /\ IF r.route = "open" THEN r.payload.wallet = q.payload.wallet
     ELSE <<r.provider, r.payload.name>> = <<q.provider, q.payload.name>>
OneCreation ==
  \A c, d \in Calls :
    SaysCreated(reply[c]) /\ SaysCreated(reply[d]) /\ SameCreation(request[c], request[d])
    => c = d

Inv == DatabaseInv /\ CallsInv /\ (\A c \in Calls : Backed(c)) /\ OneCreation

\* What the unique index keeps, and that operations are of wallets there are.
Opens(c) == request[c].route = "open" /\ ~Exists(WalletOf(c))
OpeningInv ==
  /\ \A c \in Calls : stage[c] = "opening" => Opens(c)
  /\ \A c, d \in Calls :
       stage[c] = "opening" /\ stage[d] = "opening" /\ WalletOf(c) = WalletOf(d) => c = d
  /\ \A o \in ops : Exists(o.payload.wallet)

\* Inserts the wallet, which answers nothing yet.
Begins(c) == Goes(c, "sent", "opening", NoReply) /\ UNCHANGED database

-----------------------------------------------------------------------------
(* The database *)

LEMMA Inputs ==
  /\ AnyRequest \in Requests
  /\ \A r \in Requests : /\ r.token.provider \in Providers /\ r.key \in Keys
                         /\ r.payload \in Payloads /\ r.payload.wallet \in Wallets
  /\ \A m \in Messages : /\ m.provider \in Providers /\ m.key \in Keys
                         /\ m.payload \in Payloads /\ m.payload.wallet \in Wallets
  /\ \A o \in Operations : o.payload.wallet \in Wallets
<1>1. AnyRequest \in Requests
  BY RequestsAssumption DEF AnyRequest
<1>2. \A p \in Payloads : p.wallet \in Wallets
  BY DEF Wallets
<1>3. \A r \in Requests : r.token.provider \in Providers /\ r.key \in Keys /\ r.payload \in Payloads
  BY DEF Providers, Keys, Payloads
<1>4. \A m \in Messages : m.provider \in Providers /\ m.key \in Keys /\ m.payload \in Payloads
  BY DEF Providers, Keys, Payloads
<1> QED
  BY <1>1, <1>2, <1>3, <1>4 DEF Operations

LEMMA NewIsTyped ==
  ASSUME NEW provider \in Providers, NEW key \in Keys, NEW payload \in Payloads
  PROVE  NewOperation(provider, key, payload) \in Operations
BY DEF NewOperation, Operations, States

\* What an operation may conclude as.
LEMMA ConcludedIs ==
  ASSUME DatabaseInv, NEW p \in Operations, NEW o \in Concluded(p)
  PROVE  /\ o \in Operations /\ Becomes(p, o)
         /\ o.state = "PROCESSED" => o.at >= version[p.payload.wallet]
         /\ o.state = "REJECTED" => o.at = p.at
         /\ o.state \in {"PROCESSED", "REJECTED"}
<1> DEFINE v == version[p.payload.wallet]
<1>1. v \in Nat
  BY Inputs DEF DatabaseInv
<1>2. CASE \E at \in {v, v + 1} : o = [p EXCEPT !.state = "PROCESSED", !.at = at]
  <2>1. PICK at \in {v, v + 1} : o = [p EXCEPT !.state = "PROCESSED", !.at = at]
    BY <1>2
  <2>2. at \in Nat /\ at >= v
    BY <1>1
  <2> HIDE DEF v
  <2>3. o \in Operations /\ Becomes(p, o) /\ o.state = "PROCESSED" /\ o.at = at
    BY <2>1, <2>2 DEF Operations, States, Becomes
  <2> QED
    BY <2>2, <2>3 DEF v
<1>3. CASE o = [p EXCEPT !.state = "REJECTED"]
  BY <1>3 DEF Operations, States, Becomes
<1> QED
  BY <1>2, <1>3 DEF Concluded

LEMMA RecordKeeps ==
  ASSUME DatabaseInv, NEW o \in Operations, Record(o),
         \A p \in ops : p.provider = o.provider /\ p.key = o.key => p.payload = o.payload,
         o.state = "PROCESSED" => o.at >= version[o.payload.wallet]
  PROVE  DatabaseInv' /\ Kept /\ o \in ops'
<1>1. /\ ops' = {p \in ops : <<p.provider, p.key>> # <<o.provider, o.key>>} \cup {o}
      /\ version' = IF o.state = "PROCESSED" THEN [version EXCEPT ![o.payload.wallet] = o.at]
                    ELSE version
  BY DEF Record
<1>2. o.payload.wallet \in Wallets /\ o.at \in Nat
  BY Inputs DEF Operations
<1>3. version' \in [Wallets -> Nat] /\ \A w \in Wallets : version'[w] >= version[w]
  BY <1>1, <1>2 DEF DatabaseInv
<1>4. \A p \in ops : \E q \in ops' : Becomes(p, q)
  BY <1>1 DEF Becomes
<1>5. ops' \subseteq Operations /\ o \in ops'
  BY <1>1 DEF DatabaseInv
<1>6. \A p, q \in ops' : p.provider = q.provider /\ p.key = q.key => p = q
  BY <1>1 DEF DatabaseInv
<1> QED
  BY <1>3, <1>4, <1>5, <1>6 DEF DatabaseInv, Kept

\* A new operation, or what it concludes as at once.
LEMMA RecordNew ==
  ASSUME DatabaseInv,
         NEW provider \in Providers, NEW key \in Keys, NEW payload \in Payloads,
         OfKey(provider, key) = {},
         NEW o \in {NewOperation(provider, key, payload)}
                     \cup Concluded(NewOperation(provider, key, payload)),
         Record(o)
  PROVE  /\ DatabaseInv' /\ Kept /\ o \in ops'
         /\ o.provider = provider /\ o.key = key /\ o.payload = payload
         /\ o \in Operations /\ o.state \in States
         /\ IF o.state = "PROCESSED" THEN o.at >= version[payload.wallet] ELSE o.at = 0
<1> DEFINE new == NewOperation(provider, key, payload)
<1>1. /\ new \in Operations /\ new.state = "PENDING_REFERENCE" /\ new.at = 0
      /\ new.provider = provider /\ new.key = key /\ new.payload = payload
  BY NewIsTyped DEF NewOperation
<1> HIDE DEF new
<1>2. /\ o \in Operations /\ Becomes(new, o) /\ o.state \in States
      /\ IF o.state = "PROCESSED" THEN o.at >= version[new.payload.wallet] ELSE o.at = 0
  <2>1. CASE o = new
    BY <1>1, <2>1 DEF Becomes, States
  <2>2. CASE o \in Concluded(new)
    BY <1>1, <2>2, ConcludedIs DEF States
  <2> QED
    BY <2>1, <2>2 DEF new
<1>3. o.provider = provider /\ o.key = key /\ o.payload = payload
  BY <1>1, <1>2 DEF Becomes
<1>4. \A p \in ops : ~(p.provider = o.provider /\ p.key = o.key)
  BY <1>3 DEF OfKey
<1>5. DatabaseInv' /\ Kept /\ o \in ops'
  BY <1>1, <1>2, <1>3, <1>4, RecordKeeps
<1>6. IF o.state = "PROCESSED" THEN o.at >= version[payload.wallet] ELSE o.at = 0
  BY <1>1, <1>2
<1> QED
  BY <1>2, <1>3, <1>5, <1>6

-----------------------------------------------------------------------------
(* The calls *)

LEMMA Grows ==
  ASSUME NEW m \in Nat, NEW n \in Nat, n >= m, m > 0
  PROVE  n > 0
OBVIOUS

LEMMA ExistsStill ==
  ASSUME DatabaseInv, DatabaseInv', Kept, NEW w \in Wallets, Exists(w)
  PROVE  Exists(w)'
<1>1. version[w] \in Nat /\ version'[w] \in Nat /\ version'[w] >= version[w] /\ version[w] > 0
  BY DEF DatabaseInv, Kept, Exists
<1> QED
  BY <1>1, Grows DEF Exists

LEMMA StillBacked ==
  ASSUME DatabaseInv, DatabaseInv', Kept, CallsInv, NEW c \in Calls, Backed(c),
         request'[c] = request[c], reply'[c] = reply[c]
  PROVE  Backed(c)'
<1> DEFINE r == request[c]
<1>1. r.payload.wallet \in Wallets
  BY Inputs DEF CallsInv
<1>2. \A o \in ops : \E q \in ops' : Becomes(o, q)
  BY DEF Kept
<1>3. ASSUME NEW o, NEW q, Becomes(o, q)
      PROVE  /\ Names(r, o) => Names(r, q)
             /\ Repeated(r, o) => Repeated(r, q)
             /\ Clashes(r, o) => Clashes(r, q)
             /\ q.provider = o.provider
  BY <1>3 DEF Becomes, Names, Repeated, Clashes
<1>4. ReadBacked(c)'
  <2> SUFFICES ASSUME r.route \in {"byId", "byName"}, Shows(reply[c])
               PROVE  \E q \in ops' : Names(r, q) /\ r.provider = q.provider
    BY DEF ReadBacked, Names
  <2>1. PICK o \in ops : Names(r, o) /\ r.provider = o.provider
    BY DEF Backed, ReadBacked
  <2>2. PICK q \in ops' : Becomes(o, q)
    BY <1>2
  <2> QED
    BY <1>3, <2>1, <2>2
<1>5. ResultBacked(c)'
  <2> SUFFICES ASSUME r.route = "process", Shows(reply[c])
               PROVE  \E q \in ops' : Repeated(r, q)
    BY DEF ResultBacked, Repeated
  <2>1. PICK o \in ops : Repeated(r, o)
    BY DEF Backed, ResultBacked
  <2>2. PICK q \in ops' : Becomes(o, q)
    BY <1>2
  <2> QED
    BY <1>3, <2>1, <2>2
<1>6. ConflictBacked(c)'
  <2> SUFFICES ASSUME r.route = "process", SaysConflict(reply[c])
               PROVE  \E q \in ops' : Clashes(r, q)
    BY DEF ConflictBacked, Clashes
  <2>1. PICK o \in ops : Clashes(r, o)
    BY DEF Backed, ConflictBacked
  <2>2. PICK q \in ops' : Becomes(o, q)
    BY <1>2
  <2> QED
    BY <1>3, <2>1, <2>2
<1>7. CreationBacked(c)'
  BY <1>1, <1>2, <1>3, ExistsStill DEF Backed, CreationBacked, Names
<1> QED
  BY <1>4, <1>5, <1>6, <1>7 DEF Backed

\* A step of one call, and of the database, that keeps what the others are told.
LEMMA StepOfCall ==
  ASSUME Inv, NEW c \in Calls, DatabaseInv', CallsInv', Kept,
         \A d \in Calls \ {c} : request'[d] = request[d] /\ reply'[d] = reply[d],
         Backed(c)',
         SaysCreated(reply'[c]) =>
           \A d \in Calls \ {c} :
             SaysCreated(reply[d]) => ~SameCreation(request'[c], request[d])
  PROVE  Inv'
<1>1. \A d \in Calls : Backed(d)'
  BY StillBacked DEF Inv
<1>2. OneCreation'
  <2> SUFFICES ASSUME NEW d \in Calls, NEW e \in Calls,
                      SaysCreated(reply'[d]), SaysCreated(reply'[e]),
                      SameCreation(request'[d], request'[e]), d # e
               PROVE  FALSE
    BY DEF OneCreation, SameCreation
  <2>1. SameCreation(request'[e], request'[d])
    BY DEF SameCreation
  <2>2. CASE d = c
    BY <2>2
  <2>3. CASE e = c
    BY <2>1, <2>3
  <2>4. CASE d # c /\ e # c
    BY <2>4 DEF Inv, OneCreation
  <2> QED
    BY <2>2, <2>3, <2>4
<1> QED
  BY <1>1, <1>2 DEF Inv

LEMMA SameDatabase ==
  ASSUME DatabaseInv, UNCHANGED database
  PROVE  DatabaseInv' /\ Kept
<1>1. ops' = ops /\ version' = version
  BY DEF database
<1>2. ASSUME NEW w \in Wallets PROVE version'[w] >= version[w]
  <2>1. version[w] \in Nat
    BY DEF DatabaseInv
  <2> QED
    BY <1>1, <2>1
<1> QED
  BY <1>1, <1>2 DEF DatabaseInv, Kept, Becomes

LEMMA HandleIs ==
  ASSUME Inv, NEW c \in Calls, NEW answer,
         Handle(c, answer) \/ Goes(c, "opening", "handled", answer)
  PROVE  /\ CallsInv' /\ request' = request /\ reply'[c] = answer
         /\ \A d \in Calls \ {c} : request'[d] = request[d] /\ reply'[d] = reply[d]
BY DEF Handle, Goes, Inv, CallsInv

\* An answer that creates, shows and denies nothing.
Plain(answer) == ~Shows(answer) /\ ~SaysCreated(answer) /\ ~SaysConflict(answer)

LEMMA PlainAnswer ==
  ASSUME Inv, NEW c \in Calls, NEW answer,
         Handle(c, answer) \/ Goes(c, "opening", "handled", answer),
         Plain(answer), DatabaseInv', Kept
  PROVE  Inv'
<1>1. /\ CallsInv' /\ request' = request /\ reply'[c] = answer
      /\ \A d \in Calls \ {c} : request'[d] = request[d] /\ reply'[d] = reply[d]
  BY HandleIs
<1>2. Plain(reply'[c])
  BY <1>1
<1>3. Backed(c)'
  BY <1>2 DEF Plain, Backed, ReadBacked, ResultBacked, ConflictBacked, CreationBacked
<1>4. ~SaysCreated(reply'[c])
  BY <1>2 DEF Plain
<1> QED
  BY <1>1, <1>3, <1>4, StepOfCall

LEMMA Untouched ==
  ASSUME Inv, UNCHANGED vars
  PROVE  Inv'
<1>1. UNCHANGED database /\ stage' = stage /\ request' = request /\ reply' = reply
  BY DEF vars, database
<1>2. DatabaseInv' /\ Kept
  BY <1>1, SameDatabase DEF Inv
<1>3. CallsInv'
  BY <1>1 DEF Inv, CallsInv
<1>4. \A c \in Calls : Backed(c)'
  BY <1>1, <1>2, StillBacked DEF Inv
<1>5. OneCreation'
  BY <1>1 DEF Inv, OneCreation, SameCreation
<1> QED
  BY <1>2, <1>3, <1>4, <1>5 DEF Inv

-----------------------------------------------------------------------------
(* What the answers are *)

LEMMA FailuresArePlain ==
  /\ Plain(Failure("NOT_FOUND")) /\ Plain(Failure("VALIDATION"))
  /\ \A outage \in Outages : Plain(outage)
<1>1. /\ Plain(Failure("NOT_FOUND")) /\ Plain(Failure("VALIDATION"))
      /\ Plain(Failure("UNAVAILABLE")) /\ Plain(Failure("INTERNAL"))
  BY DEF Plain, SaysCreated, SaysConflict, Shows, Failure, Reply
<1> QED
  BY <1>1 DEF Outages

LEMMA ConflictIs ==
  LET answer == Failure("CONFLICT")
  IN  SaysConflict(answer) /\ ~SaysCreated(answer) /\ ~Shows(answer)
BY DEF SaysCreated, SaysConflict, Shows, Failure, Reply

LEMMA CreatedIs ==
  LET answer == Reply(201, 1)
  IN  SaysCreated(answer) /\ ~SaysConflict(answer) /\ ~Shows(answer)
BY DEF SaysCreated, SaysConflict, Shows, Reply

LEMMA RefusalsArePlain ==
  ASSUME NEW r
  PROVE  Plain(Reply(Refusal(r), 0))
<1> DEFINE answer == Reply(Refusal(r), 0)
<1>1. Refusal(r) # 201 /\ Refusal(r) # 409
  BY DEF Refusal
<1>2. answer.status = Refusal(r) /\ ~Shows(answer)
  BY DEF Reply, Shows
<1> HIDE DEF answer
<1>3. ~SaysCreated(answer)
  BY <1>1, <1>2 DEF SaysCreated
<1>4. ~SaysConflict(answer)
  BY <1>1, <1>2 DEF SaysConflict
<1>5. Plain(answer)
  BY <1>2, <1>3, <1>4 DEF Plain
<1> QED
  BY <1>5 DEF answer

\* What reaches ProcessWager is in the name of the provider of the token.
LEMMA InOwnName ==
  ASSUME NEW r, Refusal(r) = 0, r.route = "process"
  PROVE  r.provider = r.token.provider
<1>1. Authorizes(r.token, r.provider)
  BY DEF Refusal
<1> QED
  BY <1>1 DEF Authorizes

LEMMA ResultIs ==
  ASSUME NEW o
  PROVE  /\ ~SaysConflict(Result(o, FALSE))
         /\ ~SaysConflict(Result(o, TRUE)) /\ ~SaysCreated(Result(o, TRUE))
<1>1. ~SaysConflict(Result(o, FALSE))
  BY DEF SaysConflict, Result, ResultStatus
<1>2. ~SaysConflict(Result(o, TRUE))
  BY DEF SaysConflict, Result, ResultStatus
<1>3. ~SaysCreated(Result(o, TRUE))
  BY DEF SaysCreated, Result, ResultStatus
<1> QED
  BY <1>1, <1>2, <1>3

-----------------------------------------------------------------------------
(* The steps, one lemma for each *)

LEMMA SendKeeps ==
  ASSUME Inv, NEW c \in Calls, Send(c)
  PROVE  Inv'
<1>1. PICK r \in Requests : request' = [request EXCEPT ![c] = r]
  BY DEF Send
<1>2. /\ stage[c] = "idle" /\ stage' = [stage EXCEPT ![c] = "sent"] /\ reply' = reply
      /\ UNCHANGED database
  BY DEF Send
<1>3. reply'[c] = NoReply
  BY <1>2 DEF Inv, CallsInv
<1>4. CallsInv'
  BY <1>1, <1>2, <1>3 DEF Inv, CallsInv
<1>5. Plain(reply'[c])
  <2>1. Plain(NoReply)
    BY DEF Plain, SaysCreated, SaysConflict, Shows, NoReply, Reply
  <2> QED
    BY <1>3, <2>1
<1>6. Backed(c)'
  BY <1>5 DEF Plain, Backed, ReadBacked, ResultBacked, ConflictBacked, CreationBacked
<1>7. \A d \in Calls \ {c} : request'[d] = request[d] /\ reply'[d] = reply[d]
  BY <1>1, <1>2 DEF Inv, CallsInv
<1>8. DatabaseInv' /\ Kept
  BY <1>2, SameDatabase DEF Inv
<1>9. ~SaysCreated(reply'[c])
  BY <1>5 DEF Plain
<1> QED
  BY <1>4, <1>6, <1>7, <1>8, <1>9, StepOfCall

LEMMA RefuseKeeps ==
  ASSUME Inv, NEW c \in Calls, Refuse(c)
  PROVE  Inv'
<1> DEFINE answer == Reply(Refusal(request[c]), 0)
<1>1. Handle(c, answer) /\ UNCHANGED database
  BY DEF Refuse, Handle
<1>2. Plain(answer)
  BY RefusalsArePlain
<1>3. DatabaseInv' /\ Kept
  BY <1>1, SameDatabase DEF Inv
<1> HIDE DEF answer
<1> QED
  BY <1>1, <1>2, <1>3, PlainAnswer

LEMMA FailKeeps ==
  ASSUME Inv, NEW c \in Calls, Fail(c)
  PROVE  Inv'
<1>1. PICK outage \in Outages : Handle(c, outage) \/ Goes(c, "opening", "handled", outage)
  BY DEF Fail, Handle
<1>2. Plain(outage)
  BY <1>1, FailuresArePlain
<1>3. DatabaseInv' /\ Kept
  BY SameDatabase DEF Fail, Inv
<1> QED
  BY <1>1, <1>2, <1>3, PlainAnswer

LEMMA ReadTransactionKeeps ==
  ASSUME Inv, NEW c \in Calls, ReadTransaction(c)
  PROVE  Inv'
<1> DEFINE r == request[c]
<1>1. UNCHANGED database /\ r.route # "process"
  BY DEF ReadTransaction, Reaches
<1>2. DatabaseInv' /\ Kept
  BY <1>1, SameDatabase DEF Inv
<1>3. CASE Handle(c, Failure("NOT_FOUND"))
  BY <1>2, <1>3, FailuresArePlain, PlainAnswer
<1>4. CASE \E o \in Find(r) : Handle(c, [status |-> 200, state |-> o.state, at |-> o.at])
  <2>1. PICK o \in Find(r) : Handle(c, [status |-> 200, state |-> o.state, at |-> o.at])
    BY <1>4
  <2> DEFINE answer == [status |-> 200, state |-> o.state, at |-> o.at]
  <2>2. ~SaysCreated(answer)
    BY DEF SaysCreated
  <2> HIDE DEF answer
  <2>3. Handle(c, answer)
    BY <2>1 DEF answer
  <2>4. /\ CallsInv' /\ request' = request /\ reply'[c] = answer
        /\ \A d \in Calls \ {c} : request'[d] = request[d] /\ reply'[d] = reply[d]
    BY <2>3, HandleIs
  <2>5. o \in ops' /\ Names(r, o) /\ r.provider = o.provider
    BY <1>1, <2>1 DEF Find, OfName, Names, database
  <2>6. ~SaysCreated(reply'[c])
    BY <2>2, <2>4
  <2>7. ReadBacked(c)'
    BY <2>4, <2>5 DEF ReadBacked, Names
  <2>8. Backed(c)'
    BY <1>1, <2>4, <2>6, <2>7 DEF Backed, ResultBacked, ConflictBacked, CreationBacked
  <2> QED
    BY <1>2, <2>4, <2>6, <2>8, StepOfCall
<1> QED
  BY <1>3, <1>4 DEF ReadTransaction

\* A new operation is answered as created only if no call was, since its name is new.
LEMMA RecordedAnswer ==
  ASSUME Inv, NEW c \in Calls, DatabaseInv', Kept,
         request[c].route = "process", request[c].provider = request[c].token.provider,
         OfName(request[c].token.provider, request[c].payload.name) = {},
         NEW o \in ops', Repeated(request[c], o),
         Handle(c, Result(o, FALSE))
  PROVE  Inv'
<1> DEFINE r == request[c]
<1>1. /\ CallsInv' /\ request' = request /\ reply'[c] = Result(o, FALSE)
      /\ \A d \in Calls \ {c} : request'[d] = request[d] /\ reply'[d] = reply[d]
  BY HandleIs
<1>2. ~SaysConflict(reply'[c])
  <2>1. ~SaysConflict(Result(o, FALSE))
    BY ResultIs
  <2> QED
    BY <1>1, <2>1
<1>3. Names(r, o)
  BY DEF Repeated, Names
<1>4. Backed(c)'
  <2>1. ResultBacked(c)' /\ ReadBacked(c)'
    BY <1>1 DEF ResultBacked, ReadBacked, Repeated
  <2>2. ConflictBacked(c)'
    BY <1>2 DEF ConflictBacked
  <2>3. CreationBacked(c)'
    BY <1>1, <1>3 DEF CreationBacked, Names
  <2> QED
    BY <2>1, <2>2, <2>3 DEF Backed
<1>5. ASSUME NEW d \in Calls \ {c}, SaysCreated(reply[d]), SameCreation(r, request[d])
      PROVE  FALSE
  <2>1. CreationBacked(d)
    BY DEF Inv, Backed
  <2>2. request[d].route = "process" /\ request[d].payload.name = r.payload.name
        /\ request[d].provider = r.provider
    BY <1>5 DEF SameCreation
  <2>3. PICK p \in ops : Names(request[d], p) /\ request[d].provider = request[d].token.provider
    BY <1>5, <2>1, <2>2 DEF CreationBacked
  <2>4. p \in OfName(r.token.provider, r.payload.name)
    BY <2>2, <2>3 DEF OfName, Names
  <2> QED
    BY <2>4
<1> QED
  BY <1>1, <1>4, <1>5, StepOfCall

LEMMA ProcessWagerKeeps ==
  ASSUME Inv, NEW c \in Calls, ProcessWager(c)
  PROVE  Inv'
<1> DEFINE r == request[c]
           sameKey == OfKey(r.token.provider, r.key)
           sameName == OfName(r.token.provider, r.payload.name)
<1>1. r.route = "process" /\ Refusal(r) = 0
  BY DEF ProcessWager, Reaches
<1>2. r.provider = r.token.provider
  BY <1>1, InOwnName
<1>3. /\ r.token.provider \in Providers /\ r.key \in Keys /\ r.payload \in Payloads
  BY Inputs DEF Inv, CallsInv
<1>4. ASSUME UNCHANGED database, Handle(c, Failure("NOT_FOUND")) \/ Handle(c, Failure("VALIDATION"))
      PROVE  Inv'
  <2>1. DatabaseInv' /\ Kept
    BY <1>4, SameDatabase DEF Inv
  <2> QED
    BY <1>4, <2>1, FailuresArePlain, PlainAnswer
<1>5. ASSUME UNCHANGED database, Handle(c, Failure("CONFLICT")),
             \/ \E o \in sameKey : o.payload # r.payload
             \/ sameKey = {} /\ sameName # {}
      PROVE  Inv'
  <2>1. DatabaseInv' /\ Kept
    BY <1>5, SameDatabase DEF Inv
  <2>2. /\ CallsInv' /\ request' = request /\ reply'[c] = Failure("CONFLICT")
        /\ \A d \in Calls \ {c} : request'[d] = request[d] /\ reply'[d] = reply[d]
    BY <1>5, HandleIs
  <2>3. \E o \in ops : Clashes(r, o)
    BY <1>5 DEF OfKey, OfName, Clashes
  <2>4. ~SaysCreated(reply'[c]) /\ ~Shows(reply'[c])
    <3>1. ~SaysCreated(Failure("CONFLICT")) /\ ~Shows(Failure("CONFLICT"))
      BY ConflictIs
    <3> QED
      BY <2>2, <3>1
  <2>5. ConflictBacked(c)'
    BY <1>5, <2>2, <2>3 DEF ConflictBacked, Clashes, database
  <2>6. Backed(c)'
    BY <2>4, <2>5 DEF Backed, ReadBacked, ResultBacked, CreationBacked
  <2> QED
    BY <2>1, <2>2, <2>4, <2>6, StepOfCall
<1>6. ASSUME UNCHANGED database, NEW o \in sameKey, o.payload = r.payload,
             Handle(c, Result(o, TRUE))
      PROVE  Inv'
  <2>1. DatabaseInv' /\ Kept
    BY <1>6, SameDatabase DEF Inv
  <2>2. /\ CallsInv' /\ request' = request /\ reply'[c] = Result(o, TRUE)
        /\ \A d \in Calls \ {c} : request'[d] = request[d] /\ reply'[d] = reply[d]
    BY <1>6, HandleIs
  <2>3. o \in ops' /\ Repeated(r, o)
    BY <1>6 DEF OfKey, Repeated, database
  <2>4. ~SaysCreated(reply'[c]) /\ ~SaysConflict(reply'[c])
    <3>1. ~SaysCreated(Result(o, TRUE)) /\ ~SaysConflict(Result(o, TRUE))
      BY ResultIs
    <3> QED
      BY <2>2, <3>1
  <2>5. ResultBacked(c)'
    BY <2>2, <2>3 DEF ResultBacked, Repeated
  <2>6. Backed(c)'
    BY <1>1, <2>2, <2>4, <2>5 DEF Backed, ReadBacked, ConflictBacked, CreationBacked
  <2> QED
    BY <2>1, <2>2, <2>4, <2>6, StepOfCall
<1>7. ASSUME sameKey \cup sameName = {},
             NEW o \in {NewOperation(r.token.provider, r.key, r.payload)}
                         \cup Concluded(NewOperation(r.token.provider, r.key, r.payload)),
             Record(o), NEW answer \in {Result(o, FALSE)} \cup Outages, Handle(c, answer)
      PROVE  Inv'
  <2>1. /\ DatabaseInv' /\ Kept /\ o \in ops' /\ o.state \in States
        /\ o.provider = r.token.provider /\ o.key = r.key /\ o.payload = r.payload
    <3>1. OfKey(r.token.provider, r.key) = {}
      BY <1>7
    <3> QED
      BY <1>3, <1>7, <3>1, RecordNew DEF Inv
  <2>2. CASE answer \in Outages
    BY <1>7, <2>1, <2>2, FailuresArePlain, PlainAnswer
  <2>3. CASE answer = Result(o, FALSE)
    <3>1. Repeated(r, o)
      BY <2>1 DEF Repeated
    <3>2. OfName(r.token.provider, r.payload.name) = {} /\ Handle(c, Result(o, FALSE))
      BY <1>7, <2>3
    <3> QED
      BY <1>1, <1>2, <2>1, <3>1, <3>2, RecordedAnswer
  <2> QED
    BY <1>7, <2>2, <2>3
<1> QED
  BY <1>4, <1>5, <1>6, <1>7 DEF ProcessWager

LEMMA CreateWalletKeeps ==
  ASSUME Inv, NEW c \in Calls, CreateWallet(c)
  PROVE  Inv'
<1>1. request[c].route = "open" /\ UNCHANGED database
  BY DEF CreateWallet, Reaches
<1>2. DatabaseInv' /\ Kept
  BY <1>1, SameDatabase DEF Inv
<1>3. CASE Handle(c, Failure("CONFLICT"))
  <2>1. /\ CallsInv' /\ request' = request /\ reply'[c] = Failure("CONFLICT")
        /\ \A d \in Calls \ {c} : request'[d] = request[d] /\ reply'[d] = reply[d]
    BY <1>3, HandleIs
  <2>2. ~SaysCreated(reply'[c]) /\ ~Shows(reply'[c])
    <3>1. ~SaysCreated(Failure("CONFLICT")) /\ ~Shows(Failure("CONFLICT"))
      BY ConflictIs
    <3> QED
      BY <2>1, <3>1
  <2>3. Backed(c)'
    BY <1>1, <2>1, <2>2 DEF Backed, ReadBacked, ResultBacked, ConflictBacked, CreationBacked
  <2> QED
    BY <1>2, <2>1, <2>2, <2>3, StepOfCall
<1>4. CASE Begins(c)
  <2>1. /\ stage[c] = "sent" /\ stage' = [stage EXCEPT ![c] = "opening"] /\ request' = request
        /\ reply' = [reply EXCEPT ![c] = NoReply]
    BY <1>4 DEF Begins, Goes
  <2>2. CallsInv'
    BY <2>1 DEF Inv, CallsInv
  <2>3. reply'[c] = NoReply /\ \A d \in Calls \ {c} : reply'[d] = reply[d]
    BY <2>1 DEF Inv, CallsInv
  <2>4. Plain(reply'[c])
    <3>1. Plain(NoReply)
      BY DEF Plain, SaysCreated, SaysConflict, Shows, NoReply, Reply
    <3> QED
      BY <2>3, <3>1
  <2>5. Backed(c)'
    BY <2>4 DEF Plain, Backed, ReadBacked, ResultBacked, ConflictBacked, CreationBacked
  <2>6. ~SaysCreated(reply'[c])
    BY <2>4 DEF Plain
  <2> QED
    BY <1>2, <2>1, <2>2, <2>3, <2>5, <2>6, StepOfCall
<1> QED
  BY <1>1, <1>3, <1>4 DEF CreateWallet, Begins

LEMMA OpenWalletKeeps ==
  ASSUME Inv, OpeningInv, NEW c \in Calls, OpenWallet(c)
  PROVE  Inv'
<1> DEFINE w == request[c].payload.wallet
<1>1. request[c].route = "open" /\ ~Exists(w) /\ ops' = ops /\ version' = [version EXCEPT ![w] = 1]
  BY DEF OpenWallet, Goes, OpeningInv, Opens, WalletOf
<1>2. w \in Wallets
  BY Inputs DEF Inv, CallsInv
<1>3. version[w] \in Nat /\ ~(version[w] > 0)
  BY <1>1, <1>2 DEF Exists, Inv, DatabaseInv
<1>4. version' \in [Wallets -> Nat] /\ version'[w] = 1
  BY <1>1, <1>2 DEF Inv, DatabaseInv
<1>5. ASSUME NEW v \in Wallets PROVE version'[v] >= version[v]
  <2>1. version[v] \in Nat
    BY DEF Inv, DatabaseInv
  <2> QED
    BY <1>1, <1>2, <1>3, <1>4, <2>1 DEF Inv, DatabaseInv
<1>6. DatabaseInv' /\ Kept
  BY <1>1, <1>4, <1>5 DEF Inv, DatabaseInv, Kept, Becomes
<1>7. PICK answer \in {Reply(201, 1)} \cup Outages : Goes(c, "opening", "handled", answer)
  BY DEF OpenWallet
<1>8. CASE answer \in Outages
  BY <1>6, <1>7, <1>8, FailuresArePlain, PlainAnswer
<1>9. CASE answer = Reply(201, 1)
  <2>1. SaysCreated(answer) /\ ~Shows(answer)
    BY <1>9, CreatedIs
  <2>2. /\ CallsInv' /\ request' = request /\ reply'[c] = answer
        /\ \A d \in Calls \ {c} : request'[d] = request[d] /\ reply'[d] = reply[d]
    BY <1>7, HandleIs
  <2>3. Exists(w)'
    BY <1>4, <2>2 DEF Exists
  <2>4. Backed(c)'
    BY <1>1, <2>1, <2>2, <2>3
    DEF Backed, ReadBacked, ResultBacked, ConflictBacked, CreationBacked, Exists
  <2>5. ASSUME NEW d \in Calls \ {c}, SaysCreated(reply[d]), SameCreation(request[c], request[d])
        PROVE  FALSE
    <3>1. CreationBacked(d)
      BY DEF Inv, Backed
    <3>2. request[d].route = "open" /\ request[d].payload.wallet = w
      BY <1>1, <2>5 DEF SameCreation
    <3>3. Exists(w)
      BY <2>5, <3>1, <3>2 DEF CreationBacked
    <3> QED
      BY <1>1, <3>3
  <2> QED
    BY <1>6, <2>2, <2>4, <2>5, StepOfCall
<1> QED
  BY <1>7, <1>8, <1>9

LEMMA ReadWalletKeeps ==
  ASSUME Inv, NEW c \in Calls, ReadWallet(c)
  PROVE  Inv'
<1> DEFINE w == request[c].payload.wallet
           answer == IF Exists(w) THEN Reply(200, version[w]) ELSE Failure("NOT_FOUND")
<1>1. Handle(c, answer) /\ UNCHANGED database
  BY DEF ReadWallet
<1>2. Plain(answer)
  <2>1. Plain(Reply(200, version[w]))
    BY DEF Plain, SaysCreated, SaysConflict, Shows, Reply
  <2> QED
    BY <2>1, FailuresArePlain
<1>3. DatabaseInv' /\ Kept
  BY <1>1, SameDatabase DEF Inv
<1> HIDE DEF answer
<1> QED
  BY <1>1, <1>2, <1>3, PlainAnswer

LEMMA AnswerKeeps ==
  ASSUME Inv, NEW c \in Calls, Answer(c)
  PROVE  Inv'
<1>1. /\ stage[c] = "handled" /\ stage' = [stage EXCEPT ![c] = "answered"]
      /\ reply' = [reply EXCEPT ![c] = reply[c]] /\ request' = request /\ UNCHANGED database
  BY DEF Answer, Goes
<1>2. DOMAIN reply' = Calls /\ \A d \in Calls : reply'[d] = reply[d]
  BY <1>1 DEF Inv, CallsInv
<1>3. CallsInv'
  BY <1>1, <1>2 DEF Inv, CallsInv
<1>4. DatabaseInv' /\ Kept
  BY <1>1, SameDatabase DEF Inv
<1>5. \A d \in Calls : Backed(d)'
  BY <1>1, <1>2, <1>4, StillBacked DEF Inv
<1>6. OneCreation'
  BY <1>1, <1>2 DEF Inv, OneCreation
<1> QED
  BY <1>3, <1>4, <1>5, <1>6 DEF Inv

LEMMA ForgetKeeps ==
  ASSUME Inv, NEW c \in Calls, Forget(c)
  PROVE  Inv'
<1>1. /\ stage' = [stage EXCEPT ![c] = "idle"]
      /\ request' = [request EXCEPT ![c] = AnyRequest]
      /\ reply' = [reply EXCEPT ![c] = NoReply] /\ UNCHANGED database
  BY DEF Forget
<1>2. CallsInv'
  BY <1>1, Inputs DEF Inv, CallsInv
<1>3. DatabaseInv' /\ Kept
  BY <1>1, SameDatabase DEF Inv
<1>4. Plain(reply'[c])
  <2>1. Plain(NoReply)
    BY DEF Plain, SaysCreated, SaysConflict, Shows, NoReply, Reply
  <2>2. reply'[c] = NoReply
    BY <1>1 DEF Inv, CallsInv
  <2> QED
    BY <2>1, <2>2
<1>5. Backed(c)'
  BY <1>4 DEF Plain, Backed, ReadBacked, ResultBacked, ConflictBacked, CreationBacked
<1>6. ~SaysCreated(reply'[c])
  BY <1>4 DEF Plain
<1>7. \A d \in Calls \ {c} : request'[d] = request[d] /\ reply'[d] = reply[d]
  BY <1>1 DEF Inv, CallsInv
<1> QED
  BY <1>2, <1>3, <1>5, <1>6, <1>7, StepOfCall

\* What the queue and the workers do to the database changes no answer.
LEMMA MeanwhileKeeps ==
  ASSUME Inv, DatabaseInv', Kept, UNCHANGED <<stage, request, reply, before>>
  PROVE  Inv'
<1>1. CallsInv'
  BY DEF Inv, CallsInv
<1>2. \A d \in Calls : Backed(d)'
  BY StillBacked DEF Inv
<1>3. OneCreation'
  BY DEF Inv, OneCreation
<1> QED
  BY <1>1, <1>2, <1>3 DEF Inv

LEMMA DeliverKeeps ==
  ASSUME Inv, Deliver
  PROVE  Inv'
<1>1. PICK m \in Messages :
        /\ OfKey(m.provider, m.key) \cup OfName(m.provider, m.payload.name) = {}
        /\ LET new == NewOperation(m.provider, m.key, m.payload)
           IN  \E o \in {new} \cup Concluded(new) : Record(o)
  BY DEF Deliver
<1>2. PICK o \in {NewOperation(m.provider, m.key, m.payload)}
                   \cup Concluded(NewOperation(m.provider, m.key, m.payload)) : Record(o)
  BY <1>1
<1>3. m.provider \in Providers /\ m.key \in Keys /\ m.payload \in Payloads
  BY <1>1, Inputs
<1>4. OfKey(m.provider, m.key) = {}
  BY <1>1
<1>5. DatabaseInv' /\ Kept
  BY <1>2, <1>3, <1>4, RecordNew DEF Inv
<1> QED
  BY <1>5, MeanwhileKeeps DEF Deliver

LEMMA ResolveKeeps ==
  ASSUME Inv, Resolve
  PROVE  Inv'
<1>1. PICK o \in ops : \E p \in Concluded(o) : Record(p)
  BY DEF Resolve
<1>2. PICK p \in Concluded(o) : Record(p)
  BY <1>1
<1>3. o \in Operations /\ DatabaseInv
  BY <1>1 DEF Inv, DatabaseInv
<1>4. /\ p \in Operations /\ Becomes(o, p)
      /\ p.state = "PROCESSED" => p.at >= version[o.payload.wallet]
  BY <1>2, <1>3, ConcludedIs
<1>5. ASSUME NEW q \in ops, q.provider = p.provider, q.key = p.key
      PROVE  q.payload = p.payload
  BY <1>1, <1>3, <1>4, <1>5 DEF DatabaseInv, Becomes
<1>6. p.state = "PROCESSED" => p.at >= version[p.payload.wallet]
  BY <1>4 DEF Becomes
<1>7. DatabaseInv' /\ Kept
  BY <1>2, <1>3, <1>4, <1>5, <1>6, RecordKeeps
<1> QED
  BY <1>7, MeanwhileKeeps DEF Resolve

-----------------------------------------------------------------------------
(* Openings *)

\* Steps that begin no opening and bring no wallet, or one nobody is opening.
LEMMA NoneBegins ==
  ASSUME OpeningInv,
         \A d \in Calls : stage'[d] = "opening" => stage[d] = "opening" /\ request'[d] = request[d],
         \A d \in Calls : stage'[d] = "opening" /\ Exists(WalletOf(d))' => Exists(WalletOf(d)),
         \A o \in ops' : Exists(o.payload.wallet)'
  PROVE  OpeningInv'
<1>1. \A d \in Calls : stage'[d] = "opening" => WalletOf(d)' = WalletOf(d) /\ Opens(d)'
  BY DEF OpeningInv, Opens, WalletOf, Exists
<1> QED
  BY <1>1 DEF OpeningInv

LEMMA SameDatabaseOpens ==
  ASSUME OpeningInv, UNCHANGED database,
         \A d \in Calls : stage'[d] = "opening" => stage[d] = "opening" /\ request'[d] = request[d]
  PROVE  OpeningInv'
<1>1. ops' = ops /\ version' = version
  BY DEF database
<1>2. \A o \in ops' : Exists(o.payload.wallet)'
  BY <1>1 DEF OpeningInv, Exists
<1>3. \A d \in Calls : stage'[d] = "opening" /\ Exists(WalletOf(d))' => Exists(WalletOf(d))
  BY <1>1 DEF Exists, WalletOf
<1> QED
  BY <1>2, <1>3, NoneBegins

\* Operations are recorded of wallets there are, and bring none.
LEMMA RecordOpensNone ==
  ASSUME DatabaseInv, DatabaseInv', Kept, OpeningInv, CallsInv,
         NEW o, Record(o), Exists(o.payload.wallet),
         \A d \in Calls : stage'[d] = "opening" => stage[d] = "opening" /\ request'[d] = request[d]
  PROVE  OpeningInv'
<1>1. /\ ops' = {p \in ops : <<p.provider, p.key>> # <<o.provider, o.key>>} \cup {o}
      /\ version' = IF o.state = "PROCESSED" THEN [version EXCEPT ![o.payload.wallet] = o.at]
                    ELSE version
  BY DEF Record
<1>2. \A p \in ops' : p.payload.wallet \in Wallets /\ Exists(p.payload.wallet)
  BY <1>1, Inputs DEF DatabaseInv, OpeningInv
<1>3. \A p \in ops' : Exists(p.payload.wallet)'
  <2> SUFFICES ASSUME NEW p \in ops' PROVE Exists(p.payload.wallet)'
    OBVIOUS
  <2>1. PICK w \in Wallets : w = p.payload.wallet /\ Exists(w)
    BY <1>2
  <2>2. Exists(w)'
    BY <2>1, ExistsStill
  <2> QED
    BY <2>1, <2>2 DEF Exists
<1>4. ASSUME NEW d \in Calls, stage'[d] = "opening", Exists(WalletOf(d))'
      PROVE  Exists(WalletOf(d))
  <2>1. PICK w \in Wallets : w = request[d].payload.wallet /\ request'[d].payload.wallet = w
    BY <1>4, Inputs DEF CallsInv
  <2>2. version'[w] > 0
    BY <1>4, <2>1 DEF Exists, WalletOf
  <2>3. CASE w = o.payload.wallet
    BY <2>1, <2>3 DEF WalletOf
  <2>4. CASE w # o.payload.wallet
    <3>1. version'[w] = version[w]
      BY <1>1, <2>4 DEF DatabaseInv
    <3> QED
      BY <2>1, <2>2, <3>1 DEF Exists, WalletOf
  <2> QED
    BY <2>3, <2>4
<1> QED
  BY <1>3, <1>4, NoneBegins

LEMMA CreateWalletOpens ==
  ASSUME Inv, OpeningInv, NEW c \in Calls, CreateWallet(c)
  PROVE  OpeningInv'
<1>1. request[c].route = "open" /\ UNCHANGED database /\ ops' = ops /\ version' = version
  BY DEF CreateWallet, Reaches, database
<1>2. CASE Handle(c, Failure("CONFLICT"))
  <2>1. \A d \in Calls : stage'[d] = "opening" => stage[d] = "opening" /\ request'[d] = request[d]
    BY <1>2 DEF Handle, Goes, Inv, CallsInv
  <2> QED
    BY <1>1, <2>1, SameDatabaseOpens
<1>3. CASE /\ ~Exists(WalletOf(c))
           /\ \A d \in Calls : stage[d] = "opening" => WalletOf(d) # WalletOf(c)
           /\ Goes(c, "sent", "opening", NoReply)
  <2>1. /\ request' = request
        /\ \A d \in Calls : stage'[d] = "opening" => d = c \/ stage[d] = "opening"
    BY <1>3 DEF Goes, Inv, CallsInv
  <2>2. \A d \in Calls : WalletOf(d)' = WalletOf(d) /\ (Exists(WalletOf(d))' <=> Exists(WalletOf(d)))
    BY <1>1, <2>1 DEF WalletOf, Exists
  <2>3. \A d \in Calls : stage'[d] = "opening" => Opens(d)'
    BY <1>1, <1>3, <2>1, <2>2 DEF OpeningInv, Opens
  <2>4. \A d, e \in Calls :
          stage'[d] = "opening" /\ stage'[e] = "opening" /\ WalletOf(d)' = WalletOf(e)' => d = e
    BY <1>3, <2>1, <2>2 DEF OpeningInv
  <2>5. \A o \in ops' : Exists(o.payload.wallet)'
    BY <1>1 DEF OpeningInv, Exists
  <2> QED
    BY <2>3, <2>4, <2>5 DEF OpeningInv
<1> QED
  BY <1>2, <1>3 DEF CreateWallet

LEMMA OpenWalletOpens ==
  ASSUME Inv, Inv', OpeningInv, NEW c \in Calls, OpenWallet(c)
  PROVE  OpeningInv'
<1>1. /\ stage[c] = "opening" /\ stage' = [stage EXCEPT ![c] = "handled"] /\ request' = request
      /\ ops' = ops /\ version' = [version EXCEPT ![WalletOf(c)] = 1]
  BY DEF OpenWallet, Goes
<1>2. WalletOf(c) \in Wallets
  BY Inputs DEF Inv, CallsInv, WalletOf
<1>3. \A d \in Calls : stage'[d] = "opening" =>
        /\ d # c /\ stage[d] = "opening" /\ request'[d] = request[d]
        /\ WalletOf(d) # WalletOf(c)
  BY <1>1 DEF Inv, CallsInv, OpeningInv
<1>4. \A w \in Wallets \ {WalletOf(c)} : version'[w] = version[w]
  BY <1>1 DEF Inv, DatabaseInv
<1>5. ASSUME NEW d \in Calls, stage'[d] = "opening", Exists(WalletOf(d))'
      PROVE  Exists(WalletOf(d))
  <2>1. PICK w \in Wallets : w = request[d].payload.wallet /\ w # WalletOf(c)
    BY <1>3, <1>5, Inputs DEF Inv, CallsInv, WalletOf
  <2>2. request'[d].payload.wallet = w
    BY <1>3, <1>5, <2>1
  <2> QED
    BY <1>4, <1>5, <2>1, <2>2 DEF Exists, WalletOf
<1>6. ASSUME NEW o \in ops' PROVE Exists(o.payload.wallet)'
  <2>1. PICK w \in Wallets : w = o.payload.wallet /\ Exists(w)
    BY <1>1, <1>6, Inputs DEF Inv, DatabaseInv, OpeningInv
  <2>2. version'[w] = version[w] \/ version'[w] = 1
    BY <1>1, <1>2, <1>4 DEF Inv, DatabaseInv
  <2> QED
    BY <2>1, <2>2 DEF Exists
<1> QED
  BY <1>3, <1>5, <1>6, NoneBegins

LEMMA OpeningsKeep ==
  ASSUME Inv, Inv', OpeningInv, [Next]_vars
  PROVE  OpeningInv'
<1> DEFINE none ==
      \A d \in Calls : stage'[d] = "opening" => stage[d] = "opening" /\ request'[d] = request[d]
<1>1. ASSUME NEW c \in Calls, Send(c)
      PROVE  OpeningInv'
  <2>1. none /\ UNCHANGED database
    BY <1>1 DEF Send, Inv, CallsInv
  <2> QED
    BY <2>1, SameDatabaseOpens
<1>2. ASSUME NEW c \in Calls, Refuse(c) \/ Fail(c) \/ ReadTransaction(c) \/ ReadWallet(c) \/ Answer(c)
      PROVE  OpeningInv'
  <2>1. UNCHANGED database /\ \E from, to, answer : to # "opening" /\ Goes(c, from, to, answer)
    BY <1>2 DEF Refuse, Fail, ReadTransaction, ReadWallet, Answer, Handle
  <2>2. none
    BY <2>1 DEF Goes, Inv, CallsInv
  <2> QED
    BY <2>1, <2>2, SameDatabaseOpens
<1>3. ASSUME NEW c \in Calls, Forget(c)
      PROVE  OpeningInv'
  <2>1. none /\ UNCHANGED database
    BY <1>3 DEF Forget, Inv, CallsInv
  <2> QED
    BY <2>1, SameDatabaseOpens
<1>4. ASSUME NEW c \in Calls, ProcessWager(c)
      PROVE  OpeningInv'
  <2> DEFINE r == request[c]
  <2>1. \E answer : Handle(c, answer)
    BY <1>4 DEF ProcessWager
  <2>2. none
    BY <2>1 DEF Handle, Goes, Inv, CallsInv
  <2>3. CASE UNCHANGED database
    BY <2>2, <2>3, SameDatabaseOpens
  <2>4. ASSUME Exists(r.payload.wallet), OfKey(r.token.provider, r.key) = {},
               NEW o \in {NewOperation(r.token.provider, r.key, r.payload)}
                           \cup Concluded(NewOperation(r.token.provider, r.key, r.payload)),
               Record(o)
        PROVE  OpeningInv'
    <3>1. r.token.provider \in Providers /\ r.key \in Keys /\ r.payload \in Payloads
      BY Inputs DEF Inv, CallsInv
    <3>2. DatabaseInv' /\ Kept /\ o.payload = r.payload
      BY <2>4, <3>1, RecordNew DEF Inv
    <3> QED
      BY <2>2, <2>4, <3>2, RecordOpensNone DEF Inv
  <2> QED
    BY <1>4, <2>3, <2>4 DEF ProcessWager
<1>5. CASE Deliver
  <2>1. PICK m \in Messages :
          /\ Exists(m.payload.wallet)
          /\ OfKey(m.provider, m.key) \cup OfName(m.provider, m.payload.name) = {}
          /\ LET new == NewOperation(m.provider, m.key, m.payload)
             IN  \E o \in {new} \cup Concluded(new) : Record(o)
    BY <1>5 DEF Deliver
  <2>2. PICK o \in {NewOperation(m.provider, m.key, m.payload)}
                     \cup Concluded(NewOperation(m.provider, m.key, m.payload)) : Record(o)
    BY <2>1
  <2>3. m.provider \in Providers /\ m.key \in Keys /\ m.payload \in Payloads
        /\ OfKey(m.provider, m.key) = {}
    BY <2>1, Inputs
  <2>4. DatabaseInv' /\ Kept /\ o.payload = m.payload
    BY <2>2, <2>3, RecordNew DEF Inv
  <2>5. none
    BY <1>5 DEF Deliver
  <2> QED
    BY <2>1, <2>2, <2>4, <2>5, RecordOpensNone DEF Inv
<1>6. CASE Resolve
  <2>1. PICK o \in ops : \E p \in Concluded(o) : Record(p)
    BY <1>6 DEF Resolve
  <2>2. PICK p \in Concluded(o) : Record(p)
    BY <2>1
  <2>3. o \in Operations /\ DatabaseInv
    BY <2>1 DEF Inv, DatabaseInv
  <2>4. /\ p \in Operations /\ Becomes(o, p)
        /\ p.state = "PROCESSED" => p.at >= version[o.payload.wallet]
    BY <2>2, <2>3, ConcludedIs
  <2>5. ASSUME NEW q \in ops, q.provider = p.provider, q.key = p.key
        PROVE  q.payload = p.payload
    BY <2>1, <2>3, <2>4, <2>5 DEF DatabaseInv, Becomes
  <2>6. p.state = "PROCESSED" => p.at >= version[p.payload.wallet]
    BY <2>4 DEF Becomes
  <2>7. DatabaseInv' /\ Kept
    BY <2>2, <2>3, <2>4, <2>5, <2>6, RecordKeeps
  <2>8. Exists(p.payload.wallet)
    BY <2>1, <2>4 DEF OpeningInv, Becomes
  <2>9. none
    BY <1>6 DEF Resolve
  <2> QED
    BY <2>2, <2>7, <2>8, <2>9, RecordOpensNone DEF Inv
<1>7. CASE UNCHANGED vars
  <2>1. none /\ UNCHANGED database
    BY <1>7 DEF vars, database
  <2> QED
    BY <2>1, SameDatabaseOpens
<1> QED
  BY <1>1, <1>2, <1>3, <1>4, <1>5, <1>6, <1>7, CreateWalletOpens, OpenWalletOpens DEF Next

-----------------------------------------------------------------------------
(* The theorems *)

LEMMA Initially == Init => Inv
<1> SUFFICES ASSUME Init PROVE Inv
  OBVIOUS
<1>1. DatabaseInv
  BY DEF Init, DatabaseInv
<1>2. CallsInv
  BY Inputs DEF Init, CallsInv
<1>3. \A c \in Calls : Plain(reply[c])
  <2>1. Plain(NoReply)
    BY DEF Plain, SaysCreated, SaysConflict, Shows, NoReply, Reply
  <2> QED
    BY <2>1 DEF Init
<1>4. \A c \in Calls : Backed(c)
  BY <1>3 DEF Plain, Backed, ReadBacked, ResultBacked, ConflictBacked, CreationBacked
<1>5. OneCreation
  BY <1>3 DEF Plain, OneCreation
<1> QED
  BY <1>1, <1>2, <1>4, <1>5 DEF Inv

LEMMA Always == Spec => [](Inv /\ OpeningInv)
<1>1. Init => Inv /\ OpeningInv
  BY Initially DEF Init, OpeningInv
<1>2. Inv /\ OpeningInv /\ [Next]_vars => Inv'
  <2> SUFFICES ASSUME Inv, OpeningInv, [Next]_vars PROVE Inv'
    OBVIOUS
  <2>1. ASSUME NEW c \in Calls,
               Send(c) \/ Refuse(c) \/ Fail(c) \/ ProcessWager(c) \/ ReadTransaction(c)
                 \/ CreateWallet(c) \/ OpenWallet(c) \/ ReadWallet(c) \/ Answer(c) \/ Forget(c)
        PROVE  Inv'
    BY <2>1, SendKeeps, RefuseKeeps, FailKeeps, ProcessWagerKeeps, ReadTransactionKeeps,
       CreateWalletKeeps, OpenWalletKeeps, ReadWalletKeeps, AnswerKeeps, ForgetKeeps
  <2>2. CASE Deliver
    BY <2>2, DeliverKeeps
  <2>3. CASE Resolve
    BY <2>3, ResolveKeeps
  <2>4. CASE UNCHANGED vars
    BY <2>4, Untouched
  <2> QED
    BY <2>1, <2>2, <2>3, <2>4 DEF Next
<1>3. Inv /\ OpeningInv /\ Inv' /\ [Next]_vars => OpeningInv'
  BY OpeningsKeep
<1> QED
  BY <1>1, <1>2, <1>3, PTL DEF Spec

\* Whatever races, is lost, repeated or delivered by the queue meanwhile: "created"
\* is answered to one call at most for each operation and each wallet.
THEOREM CreatedIsSaidOnce == Spec => []CreatedOnce
<1>1. Inv => CreatedOnce
  BY DEF Inv, OneCreation, SameCreation, CreatedOnce, WalletOf, SaysCreated
<1> QED
  BY <1>1, Always, PTL

\* However many providers share keys, names and wallets: each is shown operations of
\* its own alone, and conflicts only with what it sent itself.
THEOREM ProvidersStayApart == Spec => []ProvidersAreApart
<1>1. ASSUME Inv PROVE ProvidersAreApart
  <2> DEFINE own(c) == {o \in ops : o.provider = request[c].token.provider}
  <2>1. \A c \in Calls : ReadBacked(c) /\ ResultBacked(c) /\ ConflictBacked(c)
    BY <1>1 DEF Inv, Backed
  <2>2. \A c \in Calls :
          request[c].route \in {"byId", "byName"} /\ reply[c].state # "" =>
            \E o \in own(c) : /\ o.payload.name = request[c].payload.name
                              /\ request[c].provider = o.provider
    BY <2>1 DEF ReadBacked, Shows, Names
  <2>3. \A c \in Calls :
          request[c].route = "process" /\ reply[c].state # "" =>
            \E o \in own(c) : o.key = request[c].key /\ o.payload = request[c].payload
    BY <2>1 DEF ResultBacked, Shows, Repeated
  <2>4. \A c \in Calls :
          request[c].route = "process" /\ reply[c].status = 409 =>
            \E o \in own(c) :
              \/ o.key = request[c].key /\ o.payload # request[c].payload
              \/ o.key # request[c].key /\ o.payload.name = request[c].payload.name
    BY <2>1 DEF ConflictBacked, SaysConflict, Clashes
  <2> QED
    BY <2>2, <2>3, <2>4 DEF ProvidersAreApart
<1> QED
  BY <1>1, Always, PTL

-----------------------------------------------------------------------------
(* Answers in sequence.  What an answer said is vouched for by the database:   *)
(* by a row that says it, for good once it is concluded, and by the version of *)
(* the wallet.  So whoever asks later finds it there.                          *)

RowsInv ==
  /\ \A p, q \in ops : p.provider = q.provider /\ p.payload.name = q.payload.name => p = q
  /\ \A o \in ops : Exists(o.payload.wallet) /\ o.at <= version[o.payload.wallet]

\* Concluded operations stay as they are.
Stays(state, at, o) ==
  IF state = "PENDING_REFERENCE" THEN o.state \in States ELSE o.state = state /\ o.at = at
Advances == \A p \in ops : \E q \in ops' : Becomes(p, q) /\ Stays(p.state, p.at, q)

\* The row that says what answer a to request r said.
Recalls(r, a, o) ==
  /\ Names(r, o) /\ Stays(a.state, a.at, o)
  /\ r.route = "process" => Repeated(r, o)
ToldOf(r, a) ==
  /\ r.route \in {"process", "open", "wallet"}
  /\ a.status \in {200, 201, 202, 409, 422}
Vouched(r, a) ==
  /\ a.at \in Nat
  /\ Shows(a) => \E o \in ops : Recalls(r, a, o)
  /\ ToldOf(r, a) => Exists(r.payload.wallet) /\ a.at <= version[r.payload.wallet]

\* Answer a to r came before request q was sent, which is answered with b.
Same(r, q) == q.key = r.key /\ q.payload = r.payload
SamePlace(r, q) ==
  /\ q.token.provider = r.token.provider /\ q.payload.name = r.payload.name
  /\ q.provider = q.token.provider /\ r.provider = r.token.provider
OneStory(r, a, q, b) ==
  /\ Shows(a) =>
       \/ /\ Shows(b) /\ Stays(a.state, a.at, b)
          /\ r.route = "process" /\ q.route = "process" => Same(r, q)
       \/ /\ q.route = "process"
          /\ r.route = "process" => ~Same(r, q)
          /\ \/ SaysConflict(b)
             \/ /\ b.status = 404
                /\ r.route = "process" => r.payload.wallet # q.payload.wallet
  /\ r.route = "process" /\ q.route = "process" /\ Same(r, q) =>
       (SaysConflict(a) => SaysConflict(b))
WalletFollows(r, a, q, b) ==
  ToldOf(r, a) /\ r.payload.wallet = q.payload.wallet =>
    /\ q.route \in {"process", "wallet"} => b.status # 404
    /\ q.route = "open" => ~SaysCreated(b)
    /\ q.route = "wallet" => b.at >= a.at
Fails(b) == b.status \in {500, 503}
Follows(r, a, q, b) ==
  Refusal(r) = 0 /\ Refusal(q) = 0 /\ ~Fails(b) =>
    /\ /\ r.route \in {"process", "byId", "byName"} /\ q.route \in {"process", "byId", "byName"}
       /\ SamePlace(r, q)
       => OneStory(r, a, q, b)
    /\ WalletFollows(r, a, q, b)

\* Answers that came first are those of other calls, and what followed fits them.
OrderInv ==
  /\ DOMAIN before = Calls
  /\ \A d \in Calls : \A c \in before[d] : c \in Calls /\ c # d /\ stage[c] = "answered"
  /\ \A d \in Calls : stage[d] \in {"handled", "answered"} =>
       \A c \in before[d] : Follows(request[c], reply[c], request[d], reply[d])

StoryInv ==
  /\ Inv /\ RowsInv /\ OrderInv
  /\ \A c \in Calls : Vouched(request[c], reply[c])

-----------------------------------------------------------------------------
(* The rows *)

LEMMA RecordAdvances ==
  ASSUME DatabaseInv, DatabaseInv', RowsInv, Kept,
         NEW o \in Operations, Record(o), Exists(o.payload.wallet),
         \A p \in ops :
           p.provider = o.provider /\ (p.key = o.key \/ p.payload.name = o.payload.name)
             => Becomes(p, o) /\ p.state = "PENDING_REFERENCE",
         IF o.state = "PROCESSED" THEN o.at >= version[o.payload.wallet]
         ELSE o.at <= version[o.payload.wallet]
  PROVE  RowsInv' /\ Advances
<1>1. /\ ops' = {p \in ops : <<p.provider, p.key>> # <<o.provider, o.key>>} \cup {o}
      /\ version' = IF o.state = "PROCESSED" THEN [version EXCEPT ![o.payload.wallet] = o.at]
                    ELSE version
  BY DEF Record
<1>2. \A p \in ops' : p = o \/ (p \in ops /\ ~(p.provider = o.provider /\ p.key = o.key))
  BY <1>1
<1>3. ASSUME NEW p \in ops', NEW q \in ops', p.provider = q.provider,
             p.payload.name = q.payload.name
      PROVE  p = q
  <2>1. \A t \in ops' : t.provider = o.provider /\ t.payload.name = o.payload.name => t = o
    BY <1>2 DEF Becomes
  <2>2. CASE p = o \/ q = o
    BY <1>3, <2>1, <2>2
  <2>3. CASE p # o /\ q # o
    BY <1>2, <1>3, <2>3 DEF RowsInv
  <2> QED
    BY <2>2, <2>3
<1>4. ASSUME NEW p \in ops'
      PROVE  version'[p.payload.wallet] > 0 /\ p.at <= version'[p.payload.wallet]
  <2> DEFINE w == p.payload.wallet
  <2>1. p \in Operations /\ w \in Wallets /\ p.at \in Nat
    BY Inputs DEF DatabaseInv, Operations
  <2>2. version[w] \in Nat /\ version'[w] \in Nat /\ version'[w] >= version[w]
    BY <2>1 DEF DatabaseInv, Kept
  <2>3. CASE p # o
    <3>1. version[w] > 0 /\ p.at <= version[w]
      BY <1>2, <2>3 DEF RowsInv, Exists
    <3> HIDE DEF w
    <3>2. version'[w] > 0 /\ p.at <= version'[w]
      BY <2>1, <2>2, <3>1
    <3> QED
      BY <3>2 DEF w
  <2>4. CASE p = o
    <3>1. version[w] > 0
      BY <2>4 DEF Exists
    <3>2. CASE o.state = "PROCESSED"
      <4>1. version'[w] = p.at
        BY <1>1, <2>1, <2>4, <3>2 DEF DatabaseInv
      <4> HIDE DEF w
      <4>2. version'[w] > 0 /\ p.at <= version'[w]
        BY <2>1, <2>2, <3>1, <4>1
      <4> QED
        BY <4>2 DEF w
    <3>3. CASE o.state # "PROCESSED"
      <4>1. version' = version /\ p.at <= version[w]
        BY <1>1, <2>4, <3>3
      <4> QED
        BY <3>1, <4>1
    <3> QED
      BY <3>2, <3>3
  <2> QED
    BY <2>3, <2>4
<1>5. ASSUME NEW p \in ops
      PROVE  \E q \in ops' : Becomes(p, q) /\ Stays(p.state, p.at, q)
  <2>1. p.state \in States /\ o.state \in States
    BY DEF DatabaseInv, Operations
  <2>2. CASE p.provider = o.provider /\ p.key = o.key
    BY <1>1, <2>1, <2>2 DEF Stays
  <2>3. CASE ~(p.provider = o.provider /\ p.key = o.key)
    BY <1>1, <2>1, <2>3 DEF Stays, Becomes
  <2> QED
    BY <2>2, <2>3
<1> QED
  BY <1>3, <1>4, <1>5 DEF RowsInv, Advances, Exists

\* A new operation, of a wallet there is.
LEMMA NewAdvances ==
  ASSUME DatabaseInv, RowsInv,
         NEW provider \in Providers, NEW key \in Keys, NEW payload \in Payloads,
         Exists(payload.wallet),
         OfKey(provider, key) \cup OfName(provider, payload.name) = {},
         NEW o \in {NewOperation(provider, key, payload)}
                     \cup Concluded(NewOperation(provider, key, payload)),
         Record(o)
  PROVE  RowsInv' /\ Advances
<1>1. OfKey(provider, key) = {} /\ OfName(provider, payload.name) = {}
  OBVIOUS
<1>2. /\ DatabaseInv' /\ Kept /\ o \in Operations
      /\ o.provider = provider /\ o.key = key /\ o.payload = payload
      /\ IF o.state = "PROCESSED" THEN o.at >= version[payload.wallet] ELSE o.at = 0
  BY <1>1, RecordNew
<1>3. version[payload.wallet] \in Nat
  BY <1>2, Inputs DEF DatabaseInv
<1>4. \A p \in ops : ~(/\ p.provider = o.provider
                       /\ p.key = o.key \/ p.payload.name = o.payload.name)
  BY <1>1, <1>2 DEF OfKey, OfName
<1>5. IF o.state = "PROCESSED" THEN o.at >= version[o.payload.wallet]
      ELSE o.at <= version[o.payload.wallet]
  BY <1>2, <1>3
<1> QED
  BY <1>2, <1>4, <1>5, RecordAdvances

LEMMA SameRows ==
  ASSUME DatabaseInv, RowsInv, UNCHANGED database
  PROVE  RowsInv' /\ Advances
<1>1. ops' = ops /\ version' = version
  BY DEF database
<1>2. \A p \in ops : Becomes(p, p) /\ Stays(p.state, p.at, p)
  BY DEF DatabaseInv, Operations, Becomes, Stays
<1> QED
  BY <1>1, <1>2 DEF RowsInv, Advances, Exists

\* What vouches for an answer does so for good.
LEMMA StillVouched ==
  ASSUME DatabaseInv, DatabaseInv', Kept, Advances,
         NEW r \in Requests, NEW a, Vouched(r, a)
  PROVE  Vouched(r, a)'
<1>1. ASSUME Shows(a)
      PROVE  \E o \in ops' : Recalls(r, a, o)
  <2>1. PICK o \in ops : Recalls(r, a, o)
    BY <1>1 DEF Vouched
  <2>2. PICK q \in ops' : Becomes(o, q) /\ Stays(o.state, o.at, q)
    BY DEF Advances
  <2>3. Names(r, q) /\ (r.route = "process" => Repeated(r, q))
    BY <2>1, <2>2 DEF Recalls, Becomes, Names, Repeated
  <2>4. q.state \in States
    BY DEF DatabaseInv, Operations
  <2>5. Stays(a.state, a.at, q)
    BY <2>1, <2>2, <2>4 DEF Recalls, Stays
  <2> QED
    BY <2>3, <2>5 DEF Recalls
<1>2. ASSUME ToldOf(r, a)
      PROVE  Exists(r.payload.wallet)' /\ a.at <= version'[r.payload.wallet]
  <2> DEFINE w == r.payload.wallet
  <2>1. w \in Wallets
    BY Inputs
  <2>2. version[w] \in Nat /\ version'[w] \in Nat /\ version'[w] >= version[w]
    BY <2>1 DEF DatabaseInv, Kept
  <2>3. Exists(w) /\ a.at <= version[w] /\ a.at \in Nat
    BY <1>2 DEF Vouched
  <2>4. Exists(w)'
    BY <2>1, <2>3, ExistsStill
  <2> HIDE DEF w
  <2>5. a.at <= version'[w]
    BY <2>2, <2>3
  <2> QED
    BY <2>4, <2>5 DEF w
<1> QED
  BY <1>1, <1>2 DEF Vouched, Shows, ToldOf, Recalls, Names, Repeated, Stays

-----------------------------------------------------------------------------
(* What can be answered after answer a to request p *)

\* What is on record of the earlier call.
Standing(p, a) ==
  /\ p \in Requests /\ Vouched(p, a)
  /\ p.route = "process" /\ SaysConflict(a) => \E o \in ops : Clashes(p, o)

LEMMA NamedOnce ==
  ASSUME RowsInv, NEW o \in ops, NEW t \in ops, NEW p, NEW q,
         Names(p, o), Names(q, t), SamePlace(p, q)
  PROVE  o = t
BY DEF RowsInv, Names, SamePlace

LEMMA AfterUnknown ==
  ASSUME RowsInv, NEW p, NEW a, NEW q, NEW b, Standing(p, a), q.route = "process",
         OfKey(q.token.provider, q.key) \cup OfName(q.token.provider, q.payload.name) = {},
         b.status # 404
  PROVE  Follows(p, a, q, b)
<1>1. \A o \in ops : /\ ~(o.provider = q.token.provider /\ o.key = q.key)
                     /\ ~(o.provider = q.token.provider /\ o.payload.name = q.payload.name)
  BY DEF OfKey, OfName
<1>2. ASSUME SamePlace(p, q)
      PROVE  ~Shows(a)
  BY <1>1, <1>2 DEF Standing, Vouched, Recalls, Names, SamePlace
<1>3. ASSUME SamePlace(p, q), p.route = "process", Same(p, q)
      PROVE  ~SaysConflict(a)
  BY <1>1, <1>3 DEF Standing, Clashes, SamePlace, Same
<1>4. WalletFollows(p, a, q, b)
  BY DEF WalletFollows
<1> QED
  BY <1>2, <1>3, <1>4 DEF Follows, OneStory

LEMMA AfterNoWallet ==
  ASSUME RowsInv, NEW p, NEW a, NEW q, NEW b, Standing(p, a),
         q.route \in {"process", "wallet"}, ~Exists(q.payload.wallet), b.status = 404
  PROVE  Follows(p, a, q, b)
<1>1. ToldOf(p, a) => p.payload.wallet # q.payload.wallet
  BY DEF Standing, Vouched
<1>2. ASSUME Shows(a), p.route = "process"
      PROVE  p.payload.wallet # q.payload.wallet
  <2>1. PICK o \in ops : Repeated(p, o)
    BY <1>2 DEF Standing, Vouched, Recalls
  <2>2. Exists(p.payload.wallet)
    BY <2>1 DEF RowsInv, Repeated
  <2> QED
    BY <2>2
<1>3. Same(p, q) => p.payload.wallet = q.payload.wallet
  BY DEF Same
<1>4. ASSUME q.route = "process"
      PROVE  OneStory(p, a, q, b)
  <2>1. SaysConflict(a) /\ p.route = "process" => ToldOf(p, a)
    BY DEF SaysConflict, ToldOf
  <2> QED
    BY <1>1, <1>2, <1>3, <1>4, <2>1 DEF OneStory
<1>5. WalletFollows(p, a, q, b)
  BY <1>1 DEF WalletFollows
<1> QED
  BY <1>4, <1>5 DEF Follows

LEMMA AfterVariant ==
  ASSUME DatabaseInv, RowsInv, NEW p, NEW a, NEW q, NEW b, Standing(p, a), q.route = "process",
         \/ \E o \in OfKey(q.token.provider, q.key) : o.payload # q.payload
         \/ OfKey(q.token.provider, q.key) = {},
         SaysConflict(b)
  PROVE  Follows(p, a, q, b)
<1>1. ASSUME Shows(a), p.route = "process", SamePlace(p, q)
      PROVE  ~Same(p, q)
  <2>1. PICK o \in ops : Repeated(p, o)
    BY <1>1 DEF Standing, Vouched, Recalls
  <2>2. ASSUME Same(p, q) PROVE FALSE
    <3>1. o \in OfKey(q.token.provider, q.key) /\ o.payload = q.payload
      BY <1>1, <2>1, <2>2 DEF OfKey, Repeated, Same, SamePlace
    <3>2. \A t \in OfKey(q.token.provider, q.key) : t = o
      BY <2>1, <3>1 DEF OfKey, DatabaseInv
    <3> QED
      BY <3>1, <3>2
  <2> QED
    BY <2>2
<1>2. b.status # 404
  BY DEF SaysConflict
<1>3. WalletFollows(p, a, q, b)
  BY <1>2 DEF WalletFollows
<1> QED
  BY <1>1, <1>3 DEF Follows, OneStory

LEMMA AfterReplay ==
  ASSUME DatabaseInv, RowsInv, NEW p, NEW a, NEW q, NEW b, Standing(p, a), q.route = "process",
         NEW o \in OfKey(q.token.provider, q.key), o.payload = q.payload,
         b.state = o.state, b.at = o.at, b.status # 404
  PROVE  Follows(p, a, q, b)
<1>1. o \in ops /\ Repeated(q, o) /\ Names(q, o)
  BY DEF OfKey, Repeated, Names
<1>2. Shows(b)
  BY <1>1 DEF DatabaseInv, Operations, States, Shows
<1>3. ASSUME Shows(a), SamePlace(p, q)
      PROVE  Stays(a.state, a.at, b) /\ (p.route = "process" => Same(p, q))
  <2>1. PICK t \in ops : Recalls(p, a, t)
    BY <1>3 DEF Standing, Vouched
  <2>2. t = o
    BY <1>1, <1>3, <2>1, NamedOnce DEF Recalls
  <2> QED
    BY <1>1, <2>1, <2>2 DEF Recalls, Stays, Same, Repeated
<1>4. ASSUME SamePlace(p, q), p.route = "process", Same(p, q), SaysConflict(a)
      PROVE  FALSE
  <2>1. PICK t \in ops : Clashes(p, t)
    BY <1>4 DEF Standing
  <2>2. CASE t.key = p.key /\ t.payload # p.payload
    <3>1. t = o
      BY <1>1, <1>4, <2>1, <2>2 DEF DatabaseInv, Clashes, Repeated, Same, SamePlace
    <3> QED
      BY <1>1, <1>4, <2>2, <3>1 DEF Repeated, Same
  <2>3. CASE t.key # p.key /\ t.payload.name = p.payload.name
    <3>1. t = o
      BY <1>1, <1>4, <2>1, <2>3 DEF RowsInv, Clashes, Repeated, Same, SamePlace
    <3> QED
      BY <1>1, <1>4, <2>3, <3>1 DEF Repeated, Same
  <2> QED
    BY <2>1, <2>2, <2>3 DEF Clashes
<1>5. WalletFollows(p, a, q, b)
  BY DEF WalletFollows
<1> QED
  BY <1>2, <1>3, <1>4, <1>5 DEF Follows, OneStory

LEMMA AfterRead ==
  ASSUME DatabaseInv, RowsInv, NEW p, NEW a, NEW q, NEW b, Standing(p, a),
         q.route \in {"byId", "byName"},
         IF Find(q) = {} THEN TRUE ELSE \E o \in Find(q) : b.state = o.state /\ b.at = o.at
  PROVE  Follows(p, a, q, b)
<1>1. ASSUME Shows(a), SamePlace(p, q)
      PROVE  Shows(b) /\ Stays(a.state, a.at, b)
  <2>1. PICK t \in ops : Recalls(p, a, t)
    BY <1>1 DEF Standing, Vouched
  <2>2. t \in Find(q)
    BY <1>1, <2>1 DEF Find, OfName, Recalls, Names, SamePlace
  <2>3. PICK o \in Find(q) : b.state = o.state /\ b.at = o.at
    BY <2>2
  <2>4. o \in ops /\ Names(q, o)
    BY <1>1, <2>3 DEF Find, OfName, Names, SamePlace
  <2>5. t = o
    BY <1>1, <2>1, <2>4, NamedOnce DEF Recalls
  <2>6. o.state \in States
    BY <2>4 DEF DatabaseInv, Operations
  <2> QED
    BY <2>1, <2>3, <2>5, <2>6 DEF Recalls, Stays, Shows, States
<1>2. WalletFollows(p, a, q, b)
  BY DEF WalletFollows
<1> QED
  BY <1>1, <1>2 DEF Follows, OneStory

LEMMA AfterOpening ==
  ASSUME NEW p, NEW a, NEW q, NEW b, Standing(p, a), q.route = "open",
         Exists(q.payload.wallet) => ~SaysCreated(b)
  PROVE  Follows(p, a, q, b)
BY DEF Follows, WalletFollows, Standing, Vouched

LEMMA AfterWalletRead ==
  ASSUME NEW p, NEW a, NEW q, NEW b, Standing(p, a), q.route = "wallet",
         b.status # 404, b.at = version[q.payload.wallet]
  PROVE  Follows(p, a, q, b)
BY DEF Follows, WalletFollows, Standing, Vouched

-----------------------------------------------------------------------------
(* The steps again, now for what answers say after each other *)

\* An answer that reports nothing.
Silent(a) == ~Shows(a) /\ a.at = 0 /\ a.status \notin {200, 201, 202, 409, 422}

LEMMA FailuresAreSilent ==
  /\ Silent(NoReply) /\ Silent(Failure("NOT_FOUND")) /\ Silent(Failure("VALIDATION"))
  /\ Failure("NOT_FOUND").status = 404 /\ Failure("VALIDATION").status # 404
  /\ \A outage \in Outages : Silent(outage) /\ Fails(outage) /\ outage.status # 404
<1>1. /\ Silent(Failure("UNAVAILABLE")) /\ Failure("UNAVAILABLE").status = 503
      /\ Silent(Failure("INTERNAL")) /\ Failure("INTERNAL").status = 500
  BY DEF Silent, Shows, Failure, Reply
<1>2. /\ Silent(Failure("NOT_FOUND")) /\ Failure("NOT_FOUND").status = 404
      /\ Silent(Failure("VALIDATION")) /\ Failure("VALIDATION").status = 400
  BY DEF Silent, Shows, Failure, Reply
<1>3. Silent(NoReply)
  BY DEF Silent, Shows, NoReply, Reply
<1> QED
  BY <1>1, <1>2, <1>3 DEF Outages, Fails

LEMMA RefusalsAreSilent ==
  ASSUME NEW r
  PROVE  Silent(Reply(Refusal(r), 0))
<1>1. Refusal(r) \in {401, 403, 400, 0}
  BY DEF Refusal
<1>2. /\ Reply(Refusal(r), 0).status = Refusal(r) /\ Reply(Refusal(r), 0).at = 0
      /\ ~Shows(Reply(Refusal(r), 0))
  BY DEF Reply, Shows
<1> QED
  BY <1>1, <1>2 DEF Silent

LEMMA SilenceIsVouched ==
  ASSUME NEW r, NEW a, Silent(a)
  PROVE  Vouched(r, a)'
<1>1. a.at \in Nat
  <2>1. a.at = 0
    BY DEF Silent
  <2> QED
    BY <2>1
<1>2. ~Shows(a) /\ ~ToldOf(r, a)
  BY DEF Silent, ToldOf
<1> QED
  BY <1>1, <1>2 DEF Vouched, Shows, ToldOf

LEMMA ResultSays ==
  ASSUME NEW o
  PROVE  /\ Result(o, TRUE).state = o.state /\ Result(o, TRUE).at = o.at
         /\ Result(o, TRUE).status # 404
         /\ Result(o, FALSE).state = o.state /\ Result(o, FALSE).at = o.at
         /\ Result(o, FALSE).status # 404
<1>1. /\ Result(o, TRUE).state = o.state /\ Result(o, TRUE).at = o.at
      /\ Result(o, TRUE).status # 404
  BY DEF Result, ResultStatus
<1>2. /\ Result(o, FALSE).state = o.state /\ Result(o, FALSE).at = o.at
      /\ Result(o, FALSE).status # 404
  BY DEF Result, ResultStatus
<1> QED
  BY <1>1, <1>2

\* An answer that says of a row what it says.
LEMMA RowVouches ==
  ASSUME DatabaseInv', RowsInv', NEW r, NEW a, NEW o \in ops', Names(r, o),
         r.route = "process" => Repeated(r, o),
         r.route \in {"process", "byId", "byName"}, a.state = o.state, a.at = o.at
  PROVE  Vouched(r, a)'
<1>1. a.at \in Nat /\ o.state \in States
  BY DEF DatabaseInv, Operations
<1>2. Recalls(r, a, o)
  BY <1>1 DEF Recalls, Stays
<1>3. ToldOf(r, a) => Exists(r.payload.wallet)' /\ a.at <= version'[r.payload.wallet]
  BY DEF ToldOf, Repeated, RowsInv, Exists
<1> QED
  BY <1>1, <1>2, <1>3 DEF Vouched, ToldOf, Recalls, Names, Repeated, Stays, Shows

LEMMA VouchedAs ==
  ASSUME NEW c \in Calls, NEW r, NEW a, r = request'[c], a = reply'[c], Vouched(r, a)'
  PROVE  Vouched(request[c], reply[c])'
<1>1. a.at \in Nat
  BY DEF Vouched
<1>2. Shows(a) => \E o \in ops' : Recalls(r, a, o)
  BY DEF Vouched, Shows, Recalls, Names, Repeated, Stays
<1>3. ToldOf(r, a) => Exists(r.payload.wallet)' /\ a.at <= version'[r.payload.wallet]
  BY DEF Vouched, ToldOf
<1>4. Shows(reply[c])' => \E o \in ops' : Recalls(request[c], reply[c], o)'
  BY <1>2 DEF Shows, Recalls, Names, Repeated, Stays
<1>5. ToldOf(request[c], reply[c])' =>
        /\ Exists(request[c].payload.wallet)'
        /\ reply'[c].at <= version'[request'[c].payload.wallet]
  BY <1>3 DEF ToldOf, Exists
<1> QED
  BY <1>1, <1>4, <1>5 DEF Vouched

LEMMA OthersVouched ==
  ASSUME StoryInv, DatabaseInv', Kept, Advances, NEW d \in Calls,
         request'[d] = request[d], reply'[d] = reply[d]
  PROVE  Vouched(request[d], reply[d])'
<1>1. PICK r \in Requests : r = request[d]
  BY DEF StoryInv, Inv, CallsInv
<1>2. PICK a : a = reply[d]
  OBVIOUS
<1>3. Vouched(r, a)
  BY <1>1, <1>2 DEF StoryInv
<1>4. Vouched(r, a)'
  BY <1>3, StillVouched DEF StoryInv, Inv
<1>5. r = request'[d] /\ a = reply'[d]
  BY <1>1, <1>2
<1> QED
  BY <1>4, <1>5, VouchedAs

LEMMA EarlierStands ==
  ASSUME StoryInv, NEW c \in Calls, NEW b \in before[c]
  PROVE  Standing(request[b], reply[b])
<1>1. b \in Calls
  BY DEF StoryInv, OrderInv
<1>2. ConflictBacked(b) /\ Vouched(request[b], reply[b]) /\ request[b] \in Requests
  BY <1>1 DEF StoryInv, Inv, Backed, CallsInv
<1> QED
  BY <1>2 DEF Standing, ConflictBacked

\* A call is answered.
LEMMA HandledKeeps ==
  ASSUME StoryInv, NEW c \in Calls, NEW answer,
         Handle(c, answer) \/ Goes(c, "opening", "handled", answer),
         Inv', RowsInv', Kept, Advances,
         NEW q, q = request[c], Vouched(q, answer)',
         \A p, a : Standing(p, a) => Follows(p, a, q, answer)
  PROVE  StoryInv'
<1> USE DEF StoryInv
<1>1. /\ stage[c] \in {"sent", "opening"} /\ stage' = [stage EXCEPT ![c] = "handled"]
      /\ request' = request /\ before' = before /\ reply' = [reply EXCEPT ![c] = answer]
  BY DEF Handle, Goes
<1>2. /\ stage'[c] = "handled" /\ reply'[c] = answer
      /\ \A d \in Calls \ {c} : stage'[d] = stage[d] /\ reply'[d] = reply[d]
  BY <1>1 DEF Inv, CallsInv
<1>3. ASSUME NEW d \in Calls, NEW b \in before[d]
      PROVE  b \in Calls /\ b # d /\ b # c /\ stage'[b] = "answered"
  BY <1>1, <1>2, <1>3 DEF OrderInv
<1>4. ASSUME NEW d \in Calls, stage'[d] \in {"handled", "answered"}, NEW b \in before[d]
      PROVE  Follows(request'[b], reply'[b], request'[d], reply'[d])
  <2>1. request'[b] = request[b] /\ reply'[b] = reply[b] /\ request'[d] = request[d]
    BY <1>1, <1>2, <1>3
  <2>2. CASE d = c
    <3>1. Standing(request[b], reply[b])
      BY EarlierStands
    <3> QED
      BY <1>2, <2>1, <2>2, <3>1
  <2>3. CASE d # c
    BY <1>2, <1>4, <2>1, <2>3 DEF OrderInv
  <2> QED
    BY <2>2, <2>3
<1>5. OrderInv'
  <2>1. DOMAIN before' = Calls
    BY <1>1 DEF OrderInv
  <2>2. \A d \in Calls : \A b \in before'[d] : b \in Calls /\ b # d /\ stage'[b] = "answered"
    BY <1>1, <1>3
  <2>3. \A d \in Calls : stage'[d] \in {"handled", "answered"} =>
          \A b \in before'[d] : Follows(request'[b], reply'[b], request'[d], reply'[d])
    BY <1>1, <1>4
  <2> QED
    BY <2>1, <2>2, <2>3 DEF OrderInv
<1>6. ASSUME NEW d \in Calls
      PROVE  Vouched(request[d], reply[d])'
  <2>1. CASE d = c
    <3>1. q = request'[d] /\ answer = reply'[d]
      BY <1>1, <1>2, <2>1
    <3> QED
      BY <2>1, <3>1, VouchedAs
  <2>2. CASE d # c
    BY <1>1, <1>2, <2>2, OthersVouched DEF Inv
  <2> QED
    BY <2>1, <2>2
<1> QED
  BY <1>5, <1>6

\* The same with a database that does not change.
LEMMA HandledQuietly ==
  ASSUME StoryInv, NEW c \in Calls, NEW answer,
         Handle(c, answer) \/ Goes(c, "opening", "handled", answer),
         Inv', UNCHANGED database,
         NEW q, q = request[c], Vouched(q, answer)',
         \A p, a : Standing(p, a) => Follows(p, a, q, answer)
  PROVE  StoryInv'
<1>1. RowsInv' /\ Advances /\ Kept
  BY SameRows, SameDatabase DEF StoryInv, Inv
<1> QED
  BY <1>1, HandledKeeps

LEMMA FailTells ==
  ASSUME StoryInv, Inv', NEW c \in Calls, Refuse(c) \/ Fail(c)
  PROVE  StoryInv'
<1>1. PICK q : q = request[c]
  OBVIOUS
<1>2. UNCHANGED database
  BY DEF Refuse, Fail
<1>3. CASE Refuse(c)
  <2>1. PICK a : a = Reply(Refusal(q), 0)
    OBVIOUS
  <2>2. Silent(a) /\ Handle(c, a) /\ Refusal(q) # 0
    BY <1>1, <1>3, <2>1, RefusalsAreSilent DEF Refuse, Handle
  <2>3. \A p, e : Follows(p, e, q, a)
    BY <2>2 DEF Follows
  <2> QED
    BY <1>1, <1>2, <2>2, <2>3, SilenceIsVouched, HandledQuietly
<1>4. CASE Fail(c)
  <2>1. PICK a \in Outages : Handle(c, a) \/ Goes(c, "opening", "handled", a)
    BY <1>4 DEF Fail, Handle
  <2>2. Silent(a) /\ Fails(a)
    BY FailuresAreSilent
  <2>3. \A p, e : Follows(p, e, q, a)
    BY <2>2 DEF Follows
  <2> QED
    BY <1>1, <1>2, <2>1, <2>2, <2>3, SilenceIsVouched, HandledQuietly
<1> QED
  BY <1>3, <1>4

LEMMA ReadTransactionTells ==
  ASSUME StoryInv, Inv', NEW c \in Calls, ReadTransaction(c)
  PROVE  StoryInv'
<1>1. PICK q \in Requests : q = request[c]
  BY DEF StoryInv, Inv, CallsInv
<1>2. UNCHANGED database /\ q.route \in {"byId", "byName"}
  BY <1>1 DEF ReadTransaction, Reaches
<1>3. DatabaseInv /\ RowsInv /\ DatabaseInv' /\ RowsInv'
  BY <1>2, SameRows DEF StoryInv, Inv
<1>4. CASE Find(q) = {} /\ Handle(c, Failure("NOT_FOUND"))
  <2>1. \A p, a : Standing(p, a) => Follows(p, a, q, Failure("NOT_FOUND"))
    BY <1>2, <1>3, <1>4, AfterRead
  <2> QED
    BY <1>1, <1>2, <1>4, <2>1, FailuresAreSilent, SilenceIsVouched, HandledQuietly
<1>5. CASE \E o \in Find(q) : Handle(c, [status |-> 200, state |-> o.state, at |-> o.at])
  <2>1. PICK o \in Find(q) : Handle(c, [status |-> 200, state |-> o.state, at |-> o.at])
    BY <1>5
  <2>2. PICK b : b = [status |-> 200, state |-> o.state, at |-> o.at]
    OBVIOUS
  <2>3. b.state = o.state /\ b.at = o.at /\ Handle(c, b)
    BY <2>1, <2>2
  <2>4. \A p, a : Standing(p, a) => Follows(p, a, q, b)
    BY <1>2, <1>3, <2>3, AfterRead
  <2>5. o \in ops' /\ Names(q, o)
    BY <1>2 DEF Find, OfName, Names, database
  <2>6. Vouched(q, b)'
    BY <1>2, <1>3, <2>3, <2>5, RowVouches
  <2> QED
    BY <1>1, <1>2, <2>3, <2>4, <2>6, HandledQuietly
<1> QED
  BY <1>1, <1>4, <1>5 DEF ReadTransaction

LEMMA ReadWalletTells ==
  ASSUME StoryInv, Inv', NEW c \in Calls, ReadWallet(c)
  PROVE  StoryInv'
<1>1. PICK q \in Requests : q = request[c]
  BY DEF StoryInv, Inv, CallsInv
<1>2. UNCHANGED database /\ q.route = "wallet"
  BY <1>1 DEF ReadWallet, Reaches
<1>3. q.payload.wallet \in Wallets /\ DatabaseInv /\ RowsInv
  BY Inputs DEF StoryInv, Inv
<1>4. CASE Exists(q.payload.wallet) /\ Handle(c, Reply(200, version[q.payload.wallet]))
  <2>1. PICK b : b = Reply(200, version[q.payload.wallet])
    OBVIOUS
  <2>2. b.status = 200 /\ b.at = version[q.payload.wallet] /\ ~Shows(b) /\ Handle(c, b)
    BY <1>4, <2>1 DEF Reply, Shows
  <2>3. \A p, a : Standing(p, a) => Follows(p, a, q, b)
    BY <1>2, <2>2, AfterWalletRead
  <2>4. b.at \in Nat /\ b.at <= b.at
    BY <1>3, <2>2 DEF DatabaseInv
  <2>5. version'[q.payload.wallet] = b.at /\ Exists(q.payload.wallet)'
    BY <1>2, <1>4, <2>2 DEF database, Exists
  <2>6. Vouched(q, b)'
    BY <2>2, <2>4, <2>5 DEF Vouched, Shows
  <2> QED
    BY <1>1, <1>2, <2>2, <2>3, <2>6, HandledQuietly
<1>5. CASE ~Exists(q.payload.wallet) /\ Handle(c, Failure("NOT_FOUND"))
  <2>1. \A p, a : Standing(p, a) => Follows(p, a, q, Failure("NOT_FOUND"))
    BY <1>2, <1>3, <1>5, FailuresAreSilent, AfterNoWallet
  <2> QED
    BY <1>1, <1>2, <1>5, <2>1, FailuresAreSilent, SilenceIsVouched, HandledQuietly
<1> QED
  BY <1>1, <1>4, <1>5 DEF ReadWallet

LEMMA ConflictIsVouched ==
  ASSUME DatabaseInv', NEW q \in Requests, Exists(q.payload.wallet)'
  PROVE  Vouched(q, Failure("CONFLICT"))'
<1>1. PICK b : b = Failure("CONFLICT")
  OBVIOUS
<1>2. b.at = 0 /\ ~Shows(b)
  BY <1>1 DEF Failure, Reply, Shows
<1>3. version'[q.payload.wallet] \in Nat
  BY Inputs DEF DatabaseInv
<1>4. b.at \in Nat /\ b.at <= version'[q.payload.wallet]
  BY <1>2, <1>3
<1>5. Vouched(q, b)'
  BY <1>2, <1>4 DEF Vouched, Shows, ToldOf, Exists
<1> QED
  BY <1>1, <1>5 DEF Vouched, Shows, ToldOf, Recalls, Stays

LEMMA ProcessWagerTells ==
  ASSUME StoryInv, Inv', NEW c \in Calls, ProcessWager(c)
  PROVE  StoryInv'
<1>1. PICK q \in Requests : q = request[c]
  BY DEF StoryInv, Inv, CallsInv
<1> DEFINE sameKey == OfKey(q.token.provider, q.key)
           sameName == OfName(q.token.provider, q.payload.name)
<1>2. q.route = "process"
  BY <1>1 DEF ProcessWager, Reaches
<1>3. /\ q.token.provider \in Providers /\ q.key \in Keys /\ q.payload \in Payloads
      /\ DatabaseInv /\ RowsInv /\ DatabaseInv'
  BY Inputs DEF StoryInv, Inv
<1>4. ASSUME ~Exists(q.payload.wallet), Handle(c, Failure("NOT_FOUND")), UNCHANGED database
      PROVE  StoryInv'
  <2>1. \A p, a : Standing(p, a) => Follows(p, a, q, Failure("NOT_FOUND"))
    BY <1>2, <1>3, <1>4, FailuresAreSilent, AfterNoWallet
  <2> QED
    BY <1>1, <1>4, <2>1, FailuresAreSilent, SilenceIsVouched, HandledQuietly
<1>5. ASSUME Exists(q.payload.wallet), Handle(c, Failure("CONFLICT")), UNCHANGED database,
             (\E o \in sameKey : o.payload # q.payload) \/ sameKey = {}
      PROVE  StoryInv'
  <2>1. \A p, a : Standing(p, a) => Follows(p, a, q, Failure("CONFLICT"))
    BY <1>2, <1>3, <1>5, ConflictIs, AfterVariant
  <2>2. Exists(q.payload.wallet)'
    BY <1>5 DEF Exists, database
  <2>3. Vouched(q, Failure("CONFLICT"))'
    BY <1>3, <2>2, ConflictIsVouched
  <2> QED
    BY <1>1, <1>5, <2>1, <2>3, HandledQuietly
<1>6. ASSUME UNCHANGED database, NEW o \in sameKey, o.payload = q.payload,
             Handle(c, Result(o, TRUE))
      PROVE  StoryInv'
  <2>1. PICK b : b = Result(o, TRUE)
    OBVIOUS
  <2>2. o \in ops' /\ Names(q, o) /\ Repeated(q, o)
    BY <1>6 DEF OfKey, Names, Repeated, database
  <2>3. Handle(c, b)
    BY <1>6, <2>1
  <2>4. b.state = o.state /\ b.at = o.at /\ b.status # 404 /\ Handle(c, b)
    BY <2>1, <2>3, ResultSays
  <2>5. \A p, a : Standing(p, a) => Follows(p, a, q, b)
    BY <1>2, <1>3, <1>6, <2>4, AfterReplay
  <2>6. RowsInv'
    BY <1>3, <1>6, SameRows
  <2>7. Vouched(q, b)'
    BY <1>2, <1>3, <2>2, <2>4, <2>6, RowVouches
  <2> QED
    BY <1>1, <1>6, <2>4, <2>5, <2>7, HandledQuietly
<1>7. ASSUME sameKey \cup sameName = {}, Handle(c, Failure("VALIDATION")), UNCHANGED database
      PROVE  StoryInv'
  <2>1. \A p, a : Standing(p, a) => Follows(p, a, q, Failure("VALIDATION"))
    BY <1>2, <1>3, <1>7, FailuresAreSilent, AfterUnknown
  <2> QED
    BY <1>1, <1>7, <2>1, FailuresAreSilent, SilenceIsVouched, HandledQuietly
<1>8. ASSUME Exists(q.payload.wallet), sameKey \cup sameName = {},
             NEW o \in {NewOperation(q.token.provider, q.key, q.payload)}
                         \cup Concluded(NewOperation(q.token.provider, q.key, q.payload)),
             Record(o), NEW answer \in {Result(o, FALSE)} \cup Outages, Handle(c, answer)
      PROVE  StoryInv'
  <2>1. OfKey(q.token.provider, q.key) = {}
    BY <1>8
  <2>2. /\ Kept /\ o \in ops' /\ o.state \in States
        /\ o.provider = q.token.provider /\ o.key = q.key /\ o.payload = q.payload
    BY <1>3, <1>8, <2>1, RecordNew
  <2>3. RowsInv' /\ Advances
    BY <1>3, <1>8, NewAdvances
  <2>4. Names(q, o) /\ Repeated(q, o)
    BY <2>2 DEF Names, Repeated
  <2>5. answer.status # 404 /\ Vouched(q, answer)'
    <3>1. CASE answer \in Outages
      BY <3>1, FailuresAreSilent, SilenceIsVouched
    <3>2. CASE answer = Result(o, FALSE)
      <4>1. answer.state = o.state /\ answer.at = o.at /\ answer.status # 404
        BY <3>2, ResultSays
      <4> QED
        BY <1>2, <1>3, <2>2, <2>3, <2>4, <4>1, RowVouches
    <3> QED
      BY <3>1, <3>2
  <2>6. \A p, a : Standing(p, a) => Follows(p, a, q, answer)
    BY <1>2, <1>3, <1>8, <2>5, AfterUnknown
  <2> QED
    BY <1>1, <1>8, <2>2, <2>3, <2>5, <2>6, HandledKeeps
<1> QED
  BY <1>1, <1>4, <1>5, <1>6, <1>7, <1>8 DEF ProcessWager

LEMMA OpenWalletTells ==
  ASSUME StoryInv, Inv', OpeningInv, NEW c \in Calls, OpenWallet(c)
  PROVE  StoryInv'
<1>1. PICK q \in Requests : q = request[c]
  BY DEF StoryInv, Inv, CallsInv
<1> DEFINE w == q.payload.wallet
<1>2. q.route = "open" /\ ~Exists(w) /\ ops' = ops /\ version' = [version EXCEPT ![w] = 1]
  BY <1>1 DEF OpenWallet, Goes, OpeningInv, Opens, WalletOf
<1>3. w \in Wallets /\ DatabaseInv /\ RowsInv /\ DatabaseInv'
  BY Inputs DEF StoryInv, Inv
<1>4. PICK answer \in {Reply(201, 1)} \cup Outages : Goes(c, "opening", "handled", answer)
  BY DEF OpenWallet
<1>5. version'[w] = 1 /\ \A v \in Wallets \ {w} : version'[v] = version[v]
  BY <1>2, <1>3 DEF DatabaseInv
<1>6. ~(version[w] > 0) /\ version[w] \in Nat
  BY <1>2, <1>3 DEF Exists, DatabaseInv
<1>7. Kept
  <2>1. ASSUME NEW v \in Wallets PROVE version'[v] >= version[v]
    <3>1. version[v] \in Nat
      BY <1>3 DEF DatabaseInv
    <3>2. CASE v = w
      BY <1>5, <1>6, <3>2
    <3>3. CASE v # w
      BY <1>5, <3>1, <3>3
    <3> QED
      BY <3>2, <3>3
  <2> QED
    BY <1>2, <2>1 DEF Kept, Becomes
\* No row is of a wallet that did not exist.
<1>8. ASSUME NEW o \in ops
      PROVE  Exists(o.payload.wallet)' /\ o.at <= version'[o.payload.wallet]
  <2>1. o.payload.wallet \in Wallets /\ o.payload.wallet # w
    BY <1>2, <1>3, Inputs DEF RowsInv, DatabaseInv
  <2>2. version'[o.payload.wallet] = version[o.payload.wallet]
    BY <1>5, <2>1
  <2> QED
    BY <1>3, <2>2 DEF RowsInv, Exists
<1>9. RowsInv'
  BY <1>2, <1>3, <1>8 DEF RowsInv, Exists
<1>10. Advances
  <2>1. \A p \in ops : Becomes(p, p) /\ Stays(p.state, p.at, p)
    BY <1>3 DEF DatabaseInv, Operations, Becomes, Stays
  <2> QED
    BY <1>2, <2>1 DEF Advances
<1>11. Vouched(q, answer)'
  <2>1. CASE answer \in Outages
    BY <2>1, FailuresAreSilent, SilenceIsVouched
  <2>2. CASE answer = Reply(201, 1)
    <3>1. answer.at = 1 /\ ~Shows(answer)
      BY <2>2 DEF Reply, Shows
    <3>2. answer.at \in Nat /\ answer.at <= version'[w] /\ version'[w] > 0
      BY <1>5, <3>1
    <3> QED
      BY <3>1, <3>2 DEF Vouched, Shows, ToldOf, Exists
  <2> QED
    BY <2>1, <2>2
<1>12. \A p, a : Standing(p, a) => Follows(p, a, q, answer)
  BY <1>2, AfterOpening
<1> QED
  BY <1>1, <1>4, <1>7, <1>9, <1>10, <1>11, <1>12, HandledKeeps

\* Steps of a call that answer nothing: it is sent, begins to open a wallet, gets
\* its answer, or ends.
LEMMA RestKeeps ==
  ASSUME StoryInv, Inv', NEW c \in Calls, Send(c) \/ Begins(c) \/ Answer(c) \/ Forget(c)
  PROVE  StoryInv'
<1> USE DEF StoryInv
<1>1. UNCHANGED database
  BY DEF Send, Begins, Answer, Forget
<1>2. /\ RowsInv' /\ Advances /\ Kept /\ DatabaseInv'
      /\ DOMAIN before = Calls /\ DOMAIN stage = Calls /\ DOMAIN reply = Calls
      /\ DOMAIN request = Calls
  BY <1>1, SameRows, SameDatabase DEF Inv, OrderInv, CallsInv
<1>3. \A d \in Calls \ {c} : /\ stage'[d] = stage[d] /\ request'[d] = request[d]
                             /\ reply'[d] = reply[d] /\ before'[d] \subseteq before[d]
  <2>1. CASE Send(c)
    BY <1>2, <2>1 DEF Send
  <2>2. CASE Answer(c)
    BY <1>2, <2>2 DEF Answer, Goes
  <2>3. CASE Forget(c)
    BY <1>2, <2>3 DEF Forget
  <2>4. CASE Begins(c)
    BY <1>2, <2>4 DEF Begins, Goes
  <2> QED
    BY <2>1, <2>2, <2>3, <2>4
\* What c itself has before it, and that nobody has c before it who should not.
<1>4. /\ \A b \in before'[c] : b \in Calls /\ b # c /\ stage[b] = "answered"
      /\ \A d \in Calls \ {c} : c \notin before'[d]  \/ stage'[c] = "answered"
  <2>1. CASE Send(c)
    BY <1>2, <1>3, <2>1 DEF Send, OrderInv
  <2>2. CASE Answer(c)
    BY <1>2, <1>3, <2>2 DEF Answer, Goes, OrderInv
  <2>3. CASE Forget(c)
    BY <1>2, <1>3, <2>3 DEF Forget
  <2>4. CASE Begins(c)
    BY <1>2, <1>3, <2>4 DEF Begins, Goes, OrderInv
  <2> QED
    BY <2>1, <2>2, <2>3, <2>4
\* Nobody who is answered has c before it, unless c was answered and stays so.
<1>5. ASSUME NEW d \in Calls \ {c}, c \in before'[d]
      PROVE  request'[c] = request[c] /\ reply'[c] = reply[c]
  <2>1. c \in before[d] /\ stage[c] = "answered"
    BY <1>3, <1>5 DEF OrderInv
  <2> QED
    BY <1>2, <1>5, <2>1 DEF Send, Begins, Answer, Goes, Forget
<1>6. stage'[c] \in {"handled", "answered"} =>
        /\ stage[c] \in {"handled", "answered"} /\ before'[c] = before[c]
        /\ request'[c] = request[c] /\ reply'[c] = reply[c]
  <2>1. CASE Send(c)
    BY <1>2, <2>1 DEF Send
  <2>2. CASE Answer(c)
    BY <1>2, <2>2 DEF Answer, Goes
  <2>3. CASE Forget(c)
    BY <1>2, <2>3 DEF Forget
  <2>4. CASE Begins(c)
    BY <1>2, <2>4 DEF Begins, Goes
  <2> QED
    BY <2>1, <2>2, <2>3, <2>4
<1>7. OrderInv'
  <2>1. DOMAIN before' = Calls
    BY <1>2 DEF Send, Begins, Answer, Goes, Forget
  <2>2. ASSUME NEW d \in Calls, NEW b \in before'[d]
        PROVE  b \in Calls /\ b # d /\ stage'[b] = "answered"
    <3>1. CASE d = c
      BY <1>3, <1>4, <3>1
    <3>2. CASE d # c
      BY <1>3, <1>4, <3>2 DEF OrderInv
    <3> QED
      BY <3>1, <3>2
  <2>3. ASSUME NEW d \in Calls, stage'[d] \in {"handled", "answered"}, NEW b \in before'[d]
        PROVE  Follows(request'[b], reply'[b], request'[d], reply'[d])
    <3>1. /\ stage[d] \in {"handled", "answered"} /\ b \in before[d]
          /\ request'[d] = request[d] /\ reply'[d] = reply[d]
      BY <1>3, <1>6, <2>3
    <3>2. b \in Calls /\ b # d /\ request'[b] = request[b] /\ reply'[b] = reply[b]
      BY <1>3, <1>5, <2>2, <2>3
    <3> QED
      BY <3>1, <3>2 DEF OrderInv
  <2> QED
    BY <2>1, <2>2, <2>3 DEF OrderInv
<1>8. ASSUME NEW d \in Calls
      PROVE  Vouched(request[d], reply[d])'
  <2>1. CASE request'[d] = request[d] /\ reply'[d] = reply[d]
    BY <1>2, <2>1, OthersVouched
  <2>2. CASE reply'[d] = NoReply
    <3>1. PICK r, a : r = request'[d] /\ a = reply'[d]
      OBVIOUS
    <3>2. Silent(a)
      BY <2>2, <3>1, FailuresAreSilent
    <3>3. Vouched(r, a)'
      BY <3>2, SilenceIsVouched
    <3> QED
      BY <3>1, <3>3, VouchedAs
  <2>3. \/ request'[c] = request[c] /\ reply'[c] = reply[c]
        \/ reply'[c] = NoReply
    BY <1>2 DEF Send, Begins, Answer, Goes, Forget, Inv, CallsInv
  <2> QED
    BY <1>3, <2>1, <2>2, <2>3
<1> QED
  BY <1>2, <1>7, <1>8

LEMMA CreateWalletTells ==
  ASSUME StoryInv, Inv', NEW c \in Calls, CreateWallet(c)
  PROVE  StoryInv'
<1>1. PICK q \in Requests : q = request[c]
  BY DEF StoryInv, Inv, CallsInv
<1>2. q.route = "open" /\ UNCHANGED database /\ DatabaseInv'
  BY <1>1 DEF CreateWallet, Reaches, Inv
<1>3. CASE Exists(q.payload.wallet) /\ Handle(c, Failure("CONFLICT"))
  <2>1. Exists(q.payload.wallet)'
    BY <1>2, <1>3 DEF Exists, database
  <2>2. \A p, a : Standing(p, a) => Follows(p, a, q, Failure("CONFLICT"))
    BY <1>2, ConflictIs, AfterOpening
  <2>3. Vouched(q, Failure("CONFLICT"))'
    BY <1>2, <2>1, ConflictIsVouched
  <2> QED
    BY <1>1, <1>2, <1>3, <2>2, <2>3, HandledQuietly
<1>4. CASE Begins(c)
  BY <1>4, RestKeeps
<1> QED
  BY <1>1, <1>2, <1>3, <1>4 DEF CreateWallet, Begins, WalletOf

\* The queue, the workers, and steps that change nothing.
LEMMA MeanwhileTells ==
  ASSUME StoryInv, Inv', RowsInv', Kept, Advances, UNCHANGED <<stage, request, reply, before>>
  PROVE  StoryInv'
<1>1. OrderInv'
  BY DEF StoryInv, OrderInv
<1>2. \A d \in Calls : Vouched(request[d], reply[d])'
  BY OthersVouched DEF Inv
<1> QED
  BY <1>1, <1>2 DEF StoryInv

LEMMA DatabaseTells ==
  ASSUME StoryInv, Inv', Deliver \/ Resolve \/ UNCHANGED vars
  PROVE  StoryInv'
<1> USE DEF StoryInv, Inv
<1>1. UNCHANGED <<stage, request, reply, before>>
  BY DEF Deliver, Resolve, vars
<1>2. CASE Deliver
  <2>1. PICK m \in Messages :
          /\ Exists(m.payload.wallet)
          /\ OfKey(m.provider, m.key) \cup OfName(m.provider, m.payload.name) = {}
          /\ LET new == NewOperation(m.provider, m.key, m.payload)
             IN  \E o \in {new} \cup Concluded(new) : Record(o)
    BY <1>2 DEF Deliver
  <2>2. PICK o \in {NewOperation(m.provider, m.key, m.payload)}
                     \cup Concluded(NewOperation(m.provider, m.key, m.payload)) : Record(o)
    BY <2>1
  <2>3. m.provider \in Providers /\ m.key \in Keys /\ m.payload \in Payloads
    BY <2>1, Inputs
  <2>4. OfKey(m.provider, m.key) = {}
    BY <2>1
  <2>5. RowsInv' /\ Advances /\ Kept
    BY <2>1, <2>2, <2>3, <2>4, NewAdvances, RecordNew
  <2> QED
    BY <1>1, <2>5, MeanwhileTells
<1>3. CASE Resolve
  <2>1. PICK p \in ops : p.state = "PENDING_REFERENCE" /\ \E o \in Concluded(p) : Record(o)
    BY <1>3 DEF Resolve
  <2>2. PICK o \in Concluded(p) : Record(o)
    BY <2>1
  <2>3. p \in Operations /\ Exists(p.payload.wallet) /\ p.at <= version[p.payload.wallet]
    BY <2>1 DEF DatabaseInv, RowsInv
  <2>4. /\ o \in Operations /\ Becomes(p, o) /\ o.state \in {"PROCESSED", "REJECTED"}
        /\ o.state = "PROCESSED" => o.at >= version[p.payload.wallet]
        /\ o.state = "REJECTED" => o.at = p.at
    BY <2>2, <2>3, ConcludedIs
  <2>5. /\ Exists(o.payload.wallet)
        /\ IF o.state = "PROCESSED" THEN o.at >= version[o.payload.wallet]
           ELSE o.at <= version[o.payload.wallet]
    BY <2>3, <2>4 DEF Becomes
  <2>6. \A t \in ops : t.provider = o.provider /\ (t.key = o.key \/ t.payload.name = o.payload.name)
          => t = p
    BY <2>1, <2>4 DEF DatabaseInv, RowsInv, Becomes
  <2>7. Kept
    <3>1. \A t \in ops : t.provider = o.provider /\ t.key = o.key => t.payload = o.payload
      BY <2>4, <2>6 DEF Becomes
    <3> QED
      BY <2>2, <2>4, <2>5, <3>1, RecordKeeps
  <2>8. RowsInv' /\ Advances
    BY <2>1, <2>2, <2>4, <2>5, <2>6, <2>7, RecordAdvances
  <2> QED
    BY <1>1, <2>7, <2>8, MeanwhileTells
<1>4. CASE UNCHANGED vars
  <2>1. UNCHANGED database
    BY <1>4 DEF vars, database
  <2>2. RowsInv' /\ Advances /\ Kept
    BY <2>1, SameRows, SameDatabase
  <2> QED
    BY <1>1, <2>2, MeanwhileTells
<1> QED
  BY <1>2, <1>3, <1>4

LEMMA StoryAlways == Spec => []StoryInv
<1>1. Init => StoryInv
  <2> SUFFICES ASSUME Init PROVE StoryInv
    OBVIOUS
  <2>1. Inv
    BY Initially
  <2>2. RowsInv /\ OrderInv
    BY DEF Init, RowsInv, OrderInv
  <2>3. Silent(NoReply)
    BY FailuresAreSilent
  <2>4. ASSUME NEW c \in Calls PROVE Vouched(request[c], reply[c])
    <3>1. reply[c] = NoReply
      BY DEF Init
    <3>2. NoReply.at \in Nat
      <4>1. NoReply.at = 0
        BY <2>3 DEF Silent
      <4> QED
        BY <4>1
    <3>3. ~Shows(NoReply) /\ \A r : ~ToldOf(r, NoReply)
      BY <2>3 DEF Silent, ToldOf
    <3> QED
      BY <3>1, <3>2, <3>3 DEF Vouched
  <2> QED
    BY <2>1, <2>2, <2>4 DEF StoryInv
<1>2. StoryInv /\ Inv' /\ OpeningInv /\ [Next]_vars => StoryInv'
  <2> SUFFICES ASSUME StoryInv, Inv', OpeningInv, [Next]_vars PROVE StoryInv'
    OBVIOUS
  <2>1. ASSUME NEW c \in Calls,
               Send(c) \/ Refuse(c) \/ Fail(c) \/ ProcessWager(c) \/ ReadTransaction(c)
                 \/ CreateWallet(c) \/ OpenWallet(c) \/ ReadWallet(c) \/ Answer(c) \/ Forget(c)
        PROVE  StoryInv'
    BY <2>1, FailTells, ProcessWagerTells, ReadTransactionTells, CreateWalletTells,
       OpenWalletTells, ReadWalletTells, RestKeeps
  <2>2. CASE Deliver \/ Resolve \/ UNCHANGED vars
    BY <2>2, DatabaseTells
  <2> QED
    BY <2>1, <2>2 DEF Next
<1> QED
  BY <1>1, <1>2, Always, PTL DEF Spec

\* Answers given before a call was sent and what the call is answered fit together.
LEMMA ThenFollows ==
  ASSUME StoryInv, NEW c \in Calls, NEW d \in Calls, Then(c, d)
  PROVE  Follows(request[c], reply[c], request[d], reply[d])
BY DEF StoryInv, OrderInv, Then

\* However many clients ask again, whatever answers and connections are lost, and
\* whoever concludes an operation: what is said of it never contradicts what was
\* said before.
THEOREM AskedAgainToldTheSame == Spec => []AnswersTellOneStory
<1>1. ASSUME StoryInv PROVE AnswersTellOneStory
  <2> SUFFICES ASSUME NEW c \in Calls, NEW d \in Calls,
                      Then(c, d), SameOperation(c, d), ~Failed(d)
               PROVE  TellsTheSame(c, d)
    BY DEF AnswersTellOneStory
  <2>1. PICK r, a, q, b : r = request[c] /\ a = reply[c] /\ q = request[d] /\ b = reply[d]
    OBVIOUS
  <2>2. Follows(r, a, q, b)
    BY <1>1, <2>1, ThenFollows
  <2>3. /\ Refusal(r) = 0 /\ Refusal(q) = 0 /\ ~Fails(b) /\ SamePlace(r, q)
        /\ r.route \in {"process", "byId", "byName"} /\ q.route \in {"process", "byId", "byName"}
    <3>1. /\ Refusal(r) = 0 /\ Refusal(q) = 0
          /\ r.route \in {"process", "byId", "byName"} /\ q.route \in {"process", "byId", "byName"}
      BY <2>1 DEF SameOperation, OfOwn, Asks
    <3>2. ~Fails(b)
      BY <2>1 DEF Failed, Fails
    <3>3. SamePlace(r, q)
      BY <2>1 DEF SameOperation, OfOwn, SamePlace
    <3> QED
      BY <3>1, <3>2, <3>3
  <2>4. OneStory(r, a, q, b)
    BY <2>2, <2>3 DEF Follows
  <2>5. ASSUME reply[c].state # ""
        PROVE  (Continues(c, d) /\ ~Variant(c, d)) \/ IsRefused(c, d)
    <3>1. Shows(a)
      BY <2>1, <2>5 DEF Shows
    <3>2. CASE /\ Stays(a.state, a.at, b)
               /\ r.route = "process" /\ q.route = "process" => Same(r, q)
      <4>1. Continues(c, d)
        BY <2>1, <3>2 DEF Continues, Stays
      <4>2. ~Variant(c, d)
        BY <2>1, <3>2 DEF Variant, Asks, Repeats, Same
      <4> QED
        BY <4>1, <4>2
    <3>3. CASE /\ q.route = "process"
               /\ r.route = "process" => ~Same(r, q)
               /\ \/ SaysConflict(b)
                  \/ /\ b.status = 404
                     /\ r.route = "process" => r.payload.wallet # q.payload.wallet
      BY <2>1, <2>3, <3>3 DEF IsRefused, Asks, Repeats, Same, SaysConflict, WalletOf
    <3> QED
      BY <2>4, <3>1, <3>2, <3>3 DEF OneStory
  <2>6. ASSUME Asks(c, "process"), Asks(d, "process"), Repeats(c, d), reply[c].status = 409
        PROVE  reply[d].status = 409
    <3>1. r.route = "process" /\ q.route = "process" /\ Same(r, q) /\ SaysConflict(a)
      BY <2>1, <2>6 DEF Asks, Repeats, Same, SaysConflict
    <3>2. SaysConflict(b)
      BY <2>4, <3>1 DEF OneStory
    <3> QED
      BY <2>1, <3>2 DEF SaysConflict
  <2> QED
    BY <2>5, <2>6 DEF TellsTheSame
<1> QED
  BY <1>1, StoryAlways, PTL

\* The same for wallets: a wallet reported is there from then on, is opened no more,
\* and is read with every movement answered before.
THEOREM WalletsAreToldInOrder == Spec => []WalletAnswersFollow
<1>1. ASSUME StoryInv PROVE WalletAnswersFollow
  <2> SUFFICES ASSUME NEW c \in Calls, NEW d \in Calls,
                      Then(c, d), WalletOf(c) = WalletOf(d),
                      Asks(c, "process") \/ Asks(c, "open") \/ Asks(c, "wallet"),
                      reply[c].status \in {200, 201, 202, 409, 422}
               PROVE  /\ Asks(d, "process") \/ Asks(d, "wallet") => reply[d].status # 404
                      /\ Asks(d, "open") => reply[d].status # 201
                      /\ Asks(d, "wallet") => Failed(d) \/ reply[d].at >= reply[c].at
    BY DEF WalletAnswersFollow
  <2>1. Follows(request[c], reply[c], request[d], reply[d])
    BY <1>1, ThenFollows
  <2>2. ToldOf(request[c], reply[c]) /\ Refusal(request[c]) = 0
    BY DEF ToldOf, Asks
  <2>3. ASSUME Refusal(request[d]) = 0, ~Failed(d)
        PROVE  WalletFollows(request[c], reply[c], request[d], reply[d])
    BY <2>1, <2>2, <2>3 DEF Follows, Failed, Fails
  <2>4. Failed(d) => reply[d].status # 404 /\ reply[d].status # 201
    BY DEF Failed
  <2> QED
    BY <2>2, <2>3, <2>4 DEF WalletFollows, Asks, WalletOf, SaysCreated
<1> QED
  BY <1>1, StoryAlways, PTL
=============================================================================
