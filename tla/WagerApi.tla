------------------------------- MODULE WagerApi -------------------------------
(***************************************************************************)
(* The HTTP interface: who may call what, which status each outcome gets,  *)
(* and what successive callers are told.  Settling an operation is one step*)
(* here: Settlement has its statements, and the locks and indexes that make*)
(* the one step of it.  Opening a wallet, which Settlement has not, is two:*)
(* its rows, which no other session sees, and the commit.  The operation   *)
(* that records an opening is of no provider and is left out, and a wallet *)
(* is known by its version alone.                                          *)
(***************************************************************************)
EXTENDS Naturals

CONSTANTS
  Calls,     \* calls in flight or remembered by their clients
  Requests,  \* what clients may send
  Messages,  \* operations that arrive by the queue
  NoKey      \* the Idempotency-Key of a request without one

ASSUME RequestsAssumption == Requests # {}

VARIABLES
  stage,     \* of each call
  request,   \* what it asks
  reply,     \* what the handler found, which the client knows once answered
  before,    \* the calls already answered when it was sent
  ops,       \* operations recorded
  version    \* of each wallet, 0 while it does not exist

vars == <<stage, request, reply, before, ops, version>>
database == <<ops, version>>

Providers == {r.token.provider : r \in Requests} \cup {m.provider : m \in Messages}
Keys == {r.key : r \in Requests} \cup {m.key : m \in Messages}
Payloads == {r.payload : r \in Requests} \cup {m.payload : m \in Messages}
Wallets == {p.wallet : p \in Payloads}
Statuses == {0, 200, 201, 202, 400, 401, 403, 404, 409, 422, 500, 503}
AnyRequest == CHOOSE r \in Requests : TRUE   \* of a call that is not made
States == {"PENDING_REFERENCE", "PROCESSED", "REJECTED"}
Operations ==
  [provider : Providers, key : Keys, payload : Payloads, state : States, at : Nat]

-----------------------------------------------------------------------------
(* Who may call *)

RoleFor(route) ==
  IF route \in {"process", "byId", "byName"} THEN "game-provider" ELSE "wallet-operator"

Authorizes(token, provider) == token.provider # "" /\ provider = token.provider

\* The first check that fails, in the order of the middleware and the handler:
\* 0 when the request reaches its use case.
Refusal(r) ==
  IF ~r.token.accepted THEN 401
  ELSE IF RoleFor(r.route) \notin r.token.roles THEN 403
  ELSE IF r.route = "process" /\ (r.key = NoKey \/ r.defect = "body") THEN 400
  ELSE IF r.route \in {"process", "byName"} /\ ~Authorizes(r.token, r.provider) THEN 403
  ELSE IF r.defect # "none" THEN 400
  ELSE 0

-----------------------------------------------------------------------------
(* What outcomes are answered with *)

\* An answer that reports no operation.
Reply(status, at) == [status |-> status, state |-> "", at |-> at]
NoReply == Reply(0, 0)

Failure(error) ==
  Reply(CASE error = "VALIDATION"  -> 400
          [] error = "NOT_FOUND"   -> 404
          [] error = "CONFLICT"    -> 409
          [] error = "UNAVAILABLE" -> 503
          [] error = "INTERNAL"    -> 500, 0)
Outages == {Failure("UNAVAILABLE"), Failure("INTERNAL")}

ResultStatus(state, replay) ==
  IF state = "REJECTED" THEN 422
  ELSE IF state = "PENDING_REFERENCE" THEN 202
  ELSE IF replay THEN 200 ELSE 201

ResultOfNow(o, replay) ==
  [status |-> ResultStatus(o.state, replay), state |-> o.state, at |-> version[o.payload.wallet]]
Result(o, replay) == [status |-> ResultStatus(o.state, replay), state |-> o.state, at |-> o.at]

-----------------------------------------------------------------------------
(* Operations.  `at` is the version of the wallet whose balance an operation   *)
(* observed when it was applied.                                               *)

NewOperation(provider, key, payload) ==
  [provider |-> provider, key |-> key, payload |-> payload,
   state |-> "PENDING_REFERENCE", at |-> 0]

\* Applied, with or without a movement, or rejected.
Concluded(o) ==
  LET v == version[o.payload.wallet]
  IN  {[o EXCEPT !.state = "PROCESSED", !.at = at] : at \in {v, v + 1}}
        \cup {[o EXCEPT !.state = "REJECTED"]}

Record(o) ==
  /\ ops' = {p \in ops : <<p.provider, p.key>> # <<o.provider, o.key>>} \cup {o}
  /\ version' = IF o.state = "PROCESSED" THEN [version EXCEPT ![o.payload.wallet] = o.at]
                ELSE version

OfKey(provider, key) == {o \in ops : o.provider = provider /\ o.key = key}
OfName(provider, name) == {o \in ops : o.provider = provider /\ o.payload.name = name}

Exists(wallet) == version[wallet] > 0

-----------------------------------------------------------------------------
(* Calls *)

Send(c) ==
  /\ stage[c] = "idle"
  /\ \E r \in Requests : request' = [request EXCEPT ![c] = r]
  /\ stage' = [stage EXCEPT ![c] = "sent"]
  /\ before' = [before EXCEPT ![c] = {d \in Calls : stage[d] = "answered"}]
  /\ UNCHANGED <<reply, database>>

Goes(c, from, to, answer) ==
  /\ stage[c] = from
  /\ stage' = [stage EXCEPT ![c] = to]
  /\ reply' = [reply EXCEPT ![c] = answer]
  /\ UNCHANGED <<request, before>>

Refuse(c) ==
  /\ stage[c] = "sent" /\ Refusal(request[c]) # 0
  /\ Goes(c, "sent", "handled", Reply(Refusal(request[c]), 0))
  /\ UNCHANGED database

Reaches(c, route) == stage[c] = "sent" /\ request[c].route = route /\ Refusal(request[c]) = 0
Handle(c, answer) == Goes(c, "sent", "handled", answer)

\* The database is out of reach, or the deadline of the request passes, and
\* nothing is committed.
Fail(c) ==
  /\ Refusal(request[c]) = 0
  /\ \E from \in {"sent", "opening"}, outage \in Outages : Goes(c, from, "handled", outage)
  /\ UNCHANGED database

ProcessWager(c) ==
  LET r == request[c]
      sameKey == OfKey(r.token.provider, r.key)
      sameName == OfName(r.token.provider, r.payload.name)
  IN
  /\ Reaches(c, "process")
  /\ \/ /\ ~Exists(r.payload.wallet)
        /\ Handle(c, Failure("NOT_FOUND"))
        /\ UNCHANGED database
     \/ /\ Exists(r.payload.wallet)
        /\ \/ \E o \in sameKey : o.payload # r.payload
           \/ sameKey = {} /\ sameName # {}
        /\ Handle(c, Failure("CONFLICT"))
        /\ UNCHANGED database
     \/ /\ Exists(r.payload.wallet)
        /\ \E o \in sameKey : o.payload = r.payload /\ Handle(c, Result(o, TRUE))
        /\ UNCHANGED database
     \/ /\ Exists(r.payload.wallet) /\ sameKey \cup sameName = {}
        /\ Handle(c, Failure("VALIDATION"))   \* the balance would overflow
        /\ UNCHANGED database
     \/ /\ Exists(r.payload.wallet) /\ sameKey \cup sameName = {}
        /\ LET new == NewOperation(r.token.provider, r.key, r.payload)
           IN  \E o \in {new} \cup Concluded(new) :
                 /\ Record(o)
                 \* An outage here is that of a commit whose answer was lost.
                 /\ \E answer \in {Result(o, FALSE)} \cup Outages : Handle(c, answer)

FindOfAnyone(r) == OfName(r.provider, r.payload.name)
Find(r) == {o \in OfName(r.provider, r.payload.name) : o.provider = r.token.provider}

ReadTransaction(c) ==
  LET found == Find(request[c]) IN
  /\ Reaches(c, "byId") \/ Reaches(c, "byName")
  /\ \/ found = {} /\ Handle(c, Failure("NOT_FOUND"))
     \/ \E o \in found : Handle(c, [status |-> 200, state |-> o.state, at |-> o.at])
  /\ UNCHANGED database

WalletOf(c) == request[c].payload.wallet

\* Inserts the wallet, unless there is one.
CreateUnlessCommitted(c) ==
  /\ Reaches(c, "open")
  /\ \/ Exists(WalletOf(c)) /\ Handle(c, Failure("CONFLICT"))
     \/ ~Exists(WalletOf(c)) /\ Goes(c, "sent", "opening", NoReply)
  /\ UNCHANGED database
\* The unique index makes an insert wait for another, of the same wallet, that is
\* not committed yet.
CreateWallet(c) ==
  /\ Reaches(c, "open")
  /\ \/ Exists(WalletOf(c)) /\ Handle(c, Failure("CONFLICT"))
     \/ /\ ~Exists(WalletOf(c))
        /\ \A d \in Calls : stage[d] = "opening" => WalletOf(d) # WalletOf(c)
        /\ Goes(c, "sent", "opening", NoReply)
  /\ UNCHANGED database

OpenWallet(c) ==
  /\ \E answer \in {Reply(201, 1)} \cup Outages : Goes(c, "opening", "handled", answer)
  /\ version' = [version EXCEPT ![WalletOf(c)] = 1]
  /\ UNCHANGED ops

ReadWallet(c) ==
  LET w == request[c].payload.wallet IN
  /\ Reaches(c, "wallet")
  /\ Handle(c, IF Exists(w) THEN Reply(200, version[w]) ELSE Failure("NOT_FOUND"))
  /\ UNCHANGED database

Answer(c) == Goes(c, "handled", "answered", reply[c]) /\ UNCHANGED database

\* The connection or the process goes, and what was not committed with it, or the
\* client is done with the answer and calls again.
Forget(c) ==
  /\ stage[c] # "idle"
  /\ stage' = [stage EXCEPT ![c] = "idle"]
  /\ request' = [request EXCEPT ![c] = AnyRequest]
  /\ reply' = [reply EXCEPT ![c] = NoReply]
  /\ before' = [d \in Calls |-> IF d = c THEN {} ELSE before[d] \ {c}]
  /\ UNCHANGED database

-----------------------------------------------------------------------------
(* Meanwhile *)

\* A message of the queue goes through the same use case.
Deliver ==
  /\ \E m \in Messages :
       /\ Exists(m.payload.wallet)
       /\ OfKey(m.provider, m.key) \cup OfName(m.provider, m.payload.name) = {}
       /\ LET new == NewOperation(m.provider, m.key, m.payload)
          IN  \E o \in {new} \cup Concluded(new) : Record(o)
  /\ UNCHANGED <<stage, request, reply, before>>

\* A worker concludes an operation that waits.
Resolve ==
  /\ \E o \in ops : o.state = "PENDING_REFERENCE" /\ \E p \in Concluded(o) : Record(p)
  /\ UNCHANGED <<stage, request, reply, before>>

-----------------------------------------------------------------------------

Init ==
  /\ stage = [c \in Calls |-> "idle"]
  /\ request = [c \in Calls |-> AnyRequest]
  /\ reply = [c \in Calls |-> NoReply]
  /\ before = [c \in Calls |-> {}]
  /\ ops = {}
  /\ version = [w \in Wallets |-> 0]

Next ==
  \/ \E c \in Calls :
       \/ Send(c)
       \/ Refuse(c)
       \/ Fail(c)
       \/ ProcessWager(c)
       \/ ReadTransaction(c)
       \/ CreateWallet(c)
       \/ OpenWallet(c)
       \/ ReadWallet(c)
       \/ Answer(c)
       \/ Forget(c)
  \/ Deliver
  \/ Resolve

Spec == Init /\ [][Next]_vars

-----------------------------------------------------------------------------
(* Properties *)

TypeOK ==
  /\ stage \in [Calls -> {"idle", "sent", "opening", "handled", "answered"}]
  /\ request \in [Calls -> Requests]
  /\ reply \in [Calls -> [status : Statuses, state : States \cup {""}, at : Nat]]
  /\ \A c \in Calls : reply[c].status = 0 <=> stage[c] \in {"idle", "sent", "opening"}
  /\ before \in [Calls -> SUBSET Calls]
  /\ version \in [Wallets -> Nat]
  /\ ops \subseteq Operations
  /\ \A o \in ops : o.at <= version[o.payload.wallet]

\* c was answered before d was sent, and both are answered.
Then(c, d) == stage[c] = "answered" /\ stage[d] = "answered" /\ c \in before[d]
Failed(c) == reply[c].status \in {500, 503}
Asks(c, route) == request[c].route = route /\ Refusal(request[c]) = 0

\* Both ask for, or send, the operation of one name of their own provider.
OfOwn(c) ==
  /\ Asks(c, "process") \/ Asks(c, "byId") \/ Asks(c, "byName")
  /\ request[c].provider = request[c].token.provider
SameOperation(c, d) ==
  /\ OfOwn(c) /\ OfOwn(d)
  /\ request[c].provider = request[d].provider
  /\ request[c].payload.name = request[d].payload.name

Repeats(c, d) ==
  request[d].key = request[c].key /\ request[d].payload = request[c].payload
Variant(c, d) == Asks(c, "process") /\ Asks(d, "process") /\ ~Repeats(c, d)
Continues(c, d) ==
  IF reply[c].state = "PENDING_REFERENCE" THEN reply[d].state \in States
  ELSE reply[d].state = reply[c].state /\ reply[d].at = reply[c].at

\* d is told that its operation is not the one there is, or that its wallet does
\* not exist, which is looked up first.
IsRefused(c, d) ==
  /\ Asks(d, "process")
  /\ Asks(c, "process") => ~Repeats(c, d)
  /\ \/ reply[d].status = 409
     \/ reply[d].status = 404 /\ (Asks(c, "process") => WalletOf(c) # WalletOf(d))

TellsTheSame(c, d) ==
  /\ reply[c].state # "" =>
       (Continues(c, d) /\ ~Variant(c, d)) \/ IsRefused(c, d)
  /\ Asks(c, "process") /\ Asks(d, "process") /\ Repeats(c, d) =>
       (reply[c].status = 409 => reply[d].status = 409)

\* Whoever asks again is told the same: an operation once reported is never
\* reported absent, a concluded one keeps its outcome and the balance it observed,
\* one that waits may have concluded; a variant of it, under another key or with
\* another payload, is refused, and what was a conflict stays one.  It makes no
\* difference what was lost, which answers failed, whether the queue brought the
\* operation too, or who concluded it.
AnswersTellOneStory ==
  \A c, d \in Calls :
    Then(c, d) /\ SameOperation(c, d) /\ ~Failed(d) => TellsTheSame(c, d)

\* A wallet once reported is never absent afterwards nor opened again, and a read
\* of it shows at least every movement answered before the read was sent.
WalletAnswersFollow ==
  \A c, d \in Calls :
    /\ Then(c, d) /\ WalletOf(c) = WalletOf(d)
    /\ Asks(c, "process") \/ Asks(c, "open") \/ Asks(c, "wallet")
    /\ reply[c].status \in {200, 201, 202, 409, 422}
    => /\ Asks(d, "process") \/ Asks(d, "wallet") => reply[d].status # 404
       /\ Asks(d, "open") => reply[d].status # 201
       /\ Asks(d, "wallet") => Failed(d) \/ reply[d].at >= reply[c].at

\* "Created" is said once: of calls that race for one operation or one wallet, at
\* most one is told it was the one.
CreatedOnce ==
  \A c, d \in Calls :
    /\ stage[c] = "answered" /\ reply[c].status = 201
    /\ stage[d] = "answered" /\ reply[d].status = 201
    /\ request[c].route = request[d].route
    => \/ c = d
       \/ IF request[c].route = "open" THEN WalletOf(c) # WalletOf(d)
          ELSE <<request[c].provider, request[c].payload.name>>
                 # <<request[d].provider, request[d].payload.name>>

\* Nothing a provider is told depends on the operations of another: it is never
\* shown one, and what it sends meets replays and conflicts of its own alone.
ProvidersAreApart ==
  \A c \in Calls :
    LET r == request[c]
        own == {o \in ops : o.provider = r.token.provider}
    IN  /\ r.route \in {"byId", "byName"} /\ reply[c].state # "" =>
             \E o \in own : o.payload.name = r.payload.name /\ r.provider = o.provider
        /\ r.route = "process" /\ reply[c].state # "" =>
             \E o \in own : o.key = r.key /\ o.payload = r.payload
        /\ r.route = "process" /\ reply[c].status = 409 =>
             \E o \in own : \/ o.key = r.key /\ o.payload # r.payload
                            \/ o.key # r.key /\ o.payload.name = r.payload.name

=============================================================================
