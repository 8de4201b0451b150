------------------------------ MODULE LedgerPages ------------------------------
(***************************************************************************)
(* Reading the ledger of a wallet page by page while operations settle in  *)
(* it.                                                                     *)
(*                                                                         *)
(* An operation is stamped when it arrives, before its transaction asks    *)
(* for the lock of the wallet, and its entry keeps that stamp; the lock    *)
(* then decides the order in which entries are committed.  Pages follow    *)
(* the stamps.  Settlement models what happens under the lock; here a      *)
(* movement commits in one step.                                           *)
(***************************************************************************)
EXTENDS Integers, Sequences, FiniteSets

CONSTANTS
  Writers,     \* goroutines settling operations of the wallet
  PageSize,    \* limit of the page requests
  MaxClock,    \* bound: instants of the clock
  MaxEntries   \* bound: entries of the ledger

ASSUME PagesAssumption == PageSize \in Nat \ {0} /\ MaxClock \in Nat /\ MaxEntries \in Nat

VARIABLES
  clock,       \* the clock every process reads
  receivedAt,  \* receivedAt[s]: the stamp of the operation s works on, if any
  entries,     \* the committed ledger entries of the wallet: [at, id]
  updatedAt,   \* the instant the wallet shows for its last movement
  cursor,      \* the cursor the reader sends next, if any
  pages,       \* the entries it was given so far
  reading,     \* whether another page follows
  atStart      \* the entries committed when it asked for the first page

reader == <<cursor, pages, reading, atStart>>
vars == <<clock, receivedAt, entries, updatedAt, reader>>

Entries == [at : 0..MaxClock, id : 1..MaxEntries]

TypeOK ==
  /\ clock \in 0..MaxClock
  /\ receivedAt \in [Writers -> SUBSET (0..MaxClock)]
  /\ entries \subseteq Entries
  /\ updatedAt \in 0..MaxClock
  /\ cursor \in SUBSET Entries /\ Cardinality(cursor) <= 1
  /\ pages \in Seq(Entries) /\ Len(pages) <= MaxEntries
  /\ reading \in BOOLEAN
  /\ atStart \subseteq entries

-----------------------------------------------------------------------------
(* Movements *)

Tick ==
  /\ clock < MaxClock
  /\ clock' = clock + 1
  /\ UNCHANGED <<receivedAt, entries, updatedAt, reader>>

\* receivedAt := uc.clock(), before the transaction begins.
Receive(s) ==
  /\ receivedAt[s] = {}
  /\ receivedAt' = [receivedAt EXCEPT ![s] = {clock}]
  /\ UNCHANGED <<clock, entries, updatedAt, reader>>

\* Under the lock: the entry, the instant of the wallet, and its balance and
\* version, which are not kept here.  The identifier is drawn by the process that
\* moves the wallet: between processes, and within a millisecond, identifiers
\* come in any order.
Move(s, id) ==
  /\ \A e \in entries : e.id # id
  /\ \E at \in receivedAt[s] :
       /\ entries' = entries \cup {[at |-> at, id |-> id]}
       /\ updatedAt' = at
  /\ receivedAt' = [receivedAt EXCEPT ![s] = {}]
  /\ UNCHANGED <<clock, reader>>

\* The operation is refused, or its transaction rolls back.
MoveNothing(s) ==
  /\ receivedAt[s] # {}
  /\ receivedAt' = [receivedAt EXCEPT ![s] = {}]
  /\ UNCHANGED <<clock, entries, updatedAt, reader>>

-----------------------------------------------------------------------------
(* Pages *)

\* (created_at, id) < (created_at, id)
Before(e, f) == e.at < f.at \/ (e.at = f.at /\ e.id < f.id)

\* WHERE (created_at, id) > cursor
FromCursorOn(found) == {e \in found : \A c \in cursor : ~Before(e, c)}
AfterCursor(found) == {e \in found : \A c \in cursor : Before(c, e)}

\* The first n rows, ORDER BY created_at, id.
Rank(e, found) == Cardinality({f \in found : Before(f, e)}) + 1
First(n, found) == {e \in found : Rank(e, found) <= n}
Ordered(found) ==
  [i \in 1..Cardinality(found) |-> CHOOSE e \in found : Rank(e, found) = i]

\* One entry is read beyond the page to tell whether another page follows; the
\* cursor names the last entry returned.
CursorOfExtra(read) == {e \in read : Rank(e, read) = PageSize + 1}
NextCursor(read) ==
  {e \in read : Rank(e, read) = PageSize /\ Cardinality(read) > PageSize}

ReadPage ==
  /\ reading
  /\ LET read == First(PageSize + 1, AfterCursor(entries))
     IN  /\ pages' = pages \o Ordered(First(PageSize, read))
         /\ cursor' = NextCursor(read)
         /\ reading' = (NextCursor(read) # {})
         /\ atStart' = IF cursor = {} THEN entries ELSE atStart
  /\ UNCHANGED <<clock, receivedAt, entries, updatedAt>>

\* The reader, done, begins again.
Restart ==
  /\ ~reading
  /\ reading' = TRUE
  /\ pages' = << >>
  /\ atStart' = {}
  /\ UNCHANGED <<clock, receivedAt, entries, updatedAt, cursor>>

-----------------------------------------------------------------------------

Init ==
  /\ clock = 0
  /\ receivedAt = [s \in Writers |-> {}]
  /\ entries = {}
  /\ updatedAt = 0
  /\ cursor = {}
  /\ pages = << >>
  /\ reading = TRUE
  /\ atStart = {}

Next ==
  \/ Tick
  \/ \E s \in Writers : Receive(s)
  \/ \E s \in Writers, id \in 1..MaxEntries : Move(s, id)
  \/ \E s \in Writers : MoveNothing(s)
  \/ ReadPage
  \/ Restart

Spec == Init /\ [][Next]_vars

-----------------------------------------------------------------------------
(* Properties *)

\* Whatever is committed between two pages, the pages are in order and no entry
\* is given twice.
PagesAreOrdered ==
  \A i, j \in DOMAIN pages : i < j => Before(pages[i], pages[j])

\* A reader that reached the last page was given every entry that was in the
\* ledger when it asked for the first one.
PagesHoldWhatWasThere ==
  ~reading => \A e \in atStart : \E i \in DOMAIN pages : pages[i] = e

\* Nothing is lost between pages (README on the ledger): a reader about to ask
\* for the next page was given every entry of an earlier instant than its cursor.
NothingIsLostBetweenPages ==
  \A c \in cursor : \A e \in entries :
    e.at < c.at => \E i \in DOMAIN pages : pages[i] = e

\* The instant of the wallet is that of its last movement and goes along with the
\* version (README on the reads): no movement of the wallet is later than it.
InstantGoesWithVersion == \A e \in entries : e.at <= updatedAt
=============================================================================
