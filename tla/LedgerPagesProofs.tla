--------------------------- MODULE LedgerPagesProofs ---------------------------
(***************************************************************************)
(* The pages of a ledger are ordered and complete, however many entries    *)
(* there are, however long the pages, and whatever settles in between.     *)
(*                                                                         *)
(* An entry is placed by its rank, the number of entries before it.  That  *)
(* each rank up to the number of entries is taken by an entry is a matter  *)
(* of counting: ranks differ, and there are as many as entries.            *)
(***************************************************************************)
EXTENDS LedgerPages, FiniteSetTheorems, SequenceTheorems, TLAPS

-----------------------------------------------------------------------------
(* Ranks *)

\* (created_at, id) is a strict total order of the entries.
LEMMA BeforeOrders ==
  /\ \A e \in Entries : ~Before(e, e)
  /\ \A e, f \in Entries : e # f => Before(e, f) \/ Before(f, e)
  /\ \A e, f, g \in Entries : Before(e, f) /\ Before(f, g) => Before(e, g)
  BY PagesAssumption DEF Entries, Before

\* An entry ranks within the number of entries, and earlier entries rank lower.
LEMMA RankIsPlace ==
  ASSUME NEW found \in SUBSET Entries, IsFiniteSet(found)
  PROVE  /\ Cardinality(found) \in Nat
         /\ \A e \in found : Rank(e, found) \in 1..Cardinality(found)
         /\ \A e, f \in found : Before(e, f) <=> Rank(e, found) < Rank(f, found)
         /\ \A e, f \in found : Rank(e, found) = Rank(f, found) => e = f
<1> DEFINE Earlier(e) == {f \in found : Before(f, e)}
<1>1. Cardinality(found) \in Nat
  BY FS_CardinalityType
<1>2. ASSUME NEW e \in found
      PROVE  /\ IsFiniteSet(Earlier(e)) /\ Cardinality(Earlier(e)) \in Nat
             /\ Cardinality(Earlier(e)) <= Cardinality(found) - 1
  <2>1. IsFiniteSet(found \ {e}) /\ Cardinality(found \ {e}) = Cardinality(found) - 1
    BY FS_RemoveElement
  <2>2. Earlier(e) \in SUBSET (found \ {e})
    BY BeforeOrders
  <2>3. IsFiniteSet(Earlier(e)) /\ Cardinality(Earlier(e)) <= Cardinality(found \ {e})
    BY <2>1, <2>2, FS_Subset
  <2>4. Cardinality(Earlier(e)) \in Nat
    BY <2>3, FS_CardinalityType
  <2> QED
    BY <2>1, <2>3, <2>4
<1>3. ASSUME NEW e \in found, NEW f \in found, Before(e, f)
      PROVE  Rank(e, found) < Rank(f, found)
  <2>1. IsFiniteSet(Earlier(e)) /\ IsFiniteSet(Earlier(f))
    BY <1>2
  <2>2. e \notin Earlier(e)
    BY BeforeOrders
  <2>3. Earlier(e) \cup {e} \in SUBSET Earlier(f)
    BY <1>3, BeforeOrders
  <2>4. Cardinality(Earlier(e) \cup {e}) = Cardinality(Earlier(e)) + 1
    BY <2>1, <2>2, FS_AddElement
  <2>5. Cardinality(Earlier(e) \cup {e}) <= Cardinality(Earlier(f))
    BY <2>1, <2>3, FS_Subset
  <2>6. Cardinality(Earlier(e)) \in Nat /\ Cardinality(Earlier(f)) \in Nat
    BY <1>2
  <2> QED
    BY <2>4, <2>5, <2>6 DEF Rank
<1>4. \A e \in found : Rank(e, found) \in 1..Cardinality(found)
  <2> SUFFICES ASSUME NEW e \in found PROVE Rank(e, found) \in 1..Cardinality(found)
    OBVIOUS
  <2>1. Cardinality(Earlier(e)) \in Nat /\ Cardinality(Earlier(e)) <= Cardinality(found) - 1
    BY <1>2
  <2>2. Rank(e, found) = Cardinality(Earlier(e)) + 1
    BY DEF Rank
  <2> HIDE DEF Earlier
  <2> QED
    BY <1>1, <2>1, <2>2
<1>5. \A e, f \in found : Rank(e, found) < Rank(f, found) => ~Before(f, e) /\ e # f
  <2> SUFFICES ASSUME NEW e \in found, NEW f \in found, Rank(e, found) < Rank(f, found)
               PROVE  ~Before(f, e) /\ e # f
    OBVIOUS
  <2>1. Rank(e, found) \in Int /\ Rank(f, found) \in Int
    BY <1>4
  <2> QED
    BY <1>3, <2>1
<1>6. \A e, f \in found : Before(e, f) <=> Rank(e, found) < Rank(f, found)
  BY <1>3, <1>5, BeforeOrders
<1>7. \A e, f \in found : Rank(e, found) = Rank(f, found) => e = f
  <2> SUFFICES ASSUME NEW e \in found, NEW f \in found, Rank(e, found) = Rank(f, found), e # f
               PROVE  FALSE
    OBVIOUS
  <2>1. Rank(e, found) \in Int
    BY <1>4
  <2>2. Before(e, f) \/ Before(f, e)
    BY BeforeOrders
  <2> QED
    BY <1>3, <2>1, <2>2
<1> QED
  BY <1>1, <1>4, <1>6, <1>7

\* Each place is taken: ranks differ, and there are as many as entries.
LEMMA RanksAreTaken ==
  ASSUME NEW found \in SUBSET Entries, IsFiniteSet(found),
         NEW i \in 1..Cardinality(found)
  PROVE  \E e \in found : Rank(e, found) = i
<1> DEFINE places == 1..Cardinality(found)
           placed == [e \in found |-> Rank(e, found)]
<1>1. IsFiniteSet(places) /\ Cardinality(places) = Cardinality(found)
  BY RankIsPlace, FS_Interval
<1>2. placed \in Injection(found, places)
  BY RankIsPlace DEF Injection, IsInjective
<1>3. placed \in Surjection(found, places)
  BY <1>1, <1>2, FS_Injection
<1> QED
  BY <1>3 DEF Surjection

\* The first entries keep their ranks among themselves.
LEMMA FirstKeepRanks ==
  ASSUME NEW found \in SUBSET Entries, IsFiniteSet(found), NEW n \in Nat
  PROVE  /\ First(n, found) \in SUBSET found /\ IsFiniteSet(First(n, found))
         /\ \A e \in First(n, found) : Rank(e, First(n, found)) = Rank(e, found)
<1>1. First(n, found) \in SUBSET found
  BY DEF First
<1>2. ASSUME NEW e \in First(n, found)
      PROVE  Rank(e, First(n, found)) = Rank(e, found)
  <2>1. ASSUME NEW f \in found, Before(f, e)
        PROVE  f \in First(n, found)
    <3>1. e \in found /\ Rank(e, found) <= n
      BY DEF First
    <3>2. Rank(f, found) < Rank(e, found) /\ Rank(f, found) \in Int /\ Rank(e, found) \in Int
      BY <2>1, <3>1, RankIsPlace
    <3>3. Rank(f, found) <= n
      BY <3>1, <3>2
    <3> QED
      BY <3>3 DEF First
  <2>2. {f \in First(n, found) : Before(f, e)} = {f \in found : Before(f, e)}
    BY <1>1, <2>1
  <2> QED
    BY <2>2 DEF Rank
<1> QED
  BY <1>1, <1>2, FS_Subset

-----------------------------------------------------------------------------
(* One page *)

ReadFrom(found) == First(PageSize + 1, found)
Page(found) == First(PageSize, ReadFrom(found))

\* The entry read beyond the page does not change what the page holds.
LEMMA PageIsFirst ==
  ASSUME NEW found \in SUBSET Entries, IsFiniteSet(found)
  PROVE  /\ Page(found) \in SUBSET found /\ IsFiniteSet(Page(found))
         /\ Page(found) = {e \in found : Rank(e, found) <= PageSize}
<1>1. PageSize + 1 \in Nat /\ PageSize \in Nat
  BY PagesAssumption
<1>2. /\ ReadFrom(found) \in SUBSET found /\ IsFiniteSet(ReadFrom(found))
      /\ \A e \in ReadFrom(found) : Rank(e, ReadFrom(found)) = Rank(e, found)
  BY <1>1, FirstKeepRanks DEF ReadFrom
<1>3. \A e \in found : Rank(e, found) <= PageSize => e \in ReadFrom(found)
  BY <1>1, RankIsPlace DEF ReadFrom, First
<1>4. Page(found) = {e \in found : Rank(e, found) <= PageSize}
  BY <1>2, <1>3 DEF Page, First
<1> QED
  BY <1>4, FS_Subset

\* There is a next page unless this one holds all that was found; its cursor is
\* the last entry of this one.
LEMMA CursorDivides ==
  ASSUME NEW found \in SUBSET Entries, IsFiniteSet(found)
  PROVE  /\ NextCursor(ReadFrom(found)) \in SUBSET found
         /\ \A c, d \in NextCursor(ReadFrom(found)) : c = d
         /\ NextCursor(ReadFrom(found)) = {} => Page(found) = found
         /\ \A c \in NextCursor(ReadFrom(found)), e \in found :
              IF e \in Page(found) THEN e = c \/ Before(e, c) ELSE Before(c, e)
<1> DEFINE read == ReadFrom(found)
<1>1. PageSize + 1 \in Nat /\ PageSize \in Nat \ {0}
  BY PagesAssumption
<1>2. /\ read \in SUBSET found /\ IsFiniteSet(read)
      /\ \A e \in read : Rank(e, read) = Rank(e, found)
  BY <1>1, FirstKeepRanks DEF ReadFrom
<1>3. \A e \in found : e \in read <=> Rank(e, found) <= PageSize + 1
  BY DEF ReadFrom, First
<1>4. Page(found) = {e \in found : Rank(e, found) <= PageSize}
  BY PageIsFirst
<1>5. \A c \in NextCursor(read) : c \in read /\ Rank(c, found) = PageSize
  BY <1>2 DEF NextCursor
<1> HIDE DEF read
<1>6. \A c, d \in NextCursor(read) : c = d
  BY <1>2, <1>5, RankIsPlace
<1>7. ASSUME NextCursor(read) = {}
      PROVE  Page(found) = found
  <2> SUFFICES ASSUME NEW e \in found, ~(Rank(e, found) <= PageSize)
               PROVE  FALSE
    BY <1>4
  <2>1. Rank(e, found) \in 1..Cardinality(found) /\ Cardinality(found) \in Nat
    BY RankIsPlace
  <2>2. PageSize + 1 \in 1..Cardinality(found)
    BY <1>1, <2>1
  <2>3. PICK f \in found : Rank(f, found) = PageSize + 1
    BY <2>2, RanksAreTaken
  <2>4. f \in read /\ Rank(f, read) = PageSize + 1
    BY <1>1, <1>2, <1>3, <2>3
  <2>5. read \in SUBSET Entries
    BY <1>2
  <2>6. PageSize + 1 \in 1..Cardinality(read) /\ Cardinality(read) \in Nat
    BY <1>2, <2>4, <2>5, RankIsPlace
  <2>7. PageSize \in 1..Cardinality(read) /\ Cardinality(read) > PageSize
    BY <1>1, <2>6
  <2>8. PICK g \in read : Rank(g, read) = PageSize
    BY <1>2, <2>5, <2>7, RanksAreTaken
  <2> QED
    BY <1>7, <2>7, <2>8 DEF NextCursor
<1>8. ASSUME NEW c \in NextCursor(read), NEW e \in found
      PROVE  IF e \in Page(found) THEN e = c \/ Before(e, c) ELSE Before(c, e)
  <2>1. c \in found /\ Rank(c, found) = PageSize
    BY <1>2, <1>5
  <2>2. Rank(e, found) \in Int
    BY RankIsPlace
  <2>3. CASE e \in Page(found)
    <3>1. Rank(e, found) < Rank(c, found) \/ Rank(e, found) = Rank(c, found)
      BY <1>1, <1>4, <2>1, <2>2, <2>3
    <3> QED
      BY <2>1, <2>3, <3>1, RankIsPlace
  <2>4. CASE e \notin Page(found)
    <3>1. Rank(c, found) < Rank(e, found)
      BY <1>1, <1>4, <2>1, <2>2, <2>4
    <3> QED
      BY <2>1, <2>4, <3>1, RankIsPlace
  <2> QED
    BY <2>3, <2>4
<1> QED
  BY <1>2, <1>5, <1>6, <1>7, <1>8 DEF read

\* The page as it is given: its entries and no others, in order.
LEMMA OrderedIsOrdered ==
  ASSUME NEW found \in SUBSET Entries, IsFiniteSet(found)
  PROVE  /\ Ordered(found) \in Seq(found)
         /\ \A e \in found : \E i \in DOMAIN Ordered(found) : Ordered(found)[i] = e
         /\ \A i, j \in DOMAIN Ordered(found) :
              i < j => Before(Ordered(found)[i], Ordered(found)[j])
<1> DEFINE n == Cardinality(found)
<1>1. n \in Nat
  BY RankIsPlace
<1>2. DOMAIN Ordered(found) = 1..n
  BY DEF Ordered
<1>3. ASSUME NEW i \in 1..n
      PROVE  Ordered(found)[i] \in found /\ Rank(Ordered(found)[i], found) = i
  <2>1. \E e \in found : Rank(e, found) = i
    BY RanksAreTaken
  <2>2. Ordered(found)[i] = CHOOSE e \in found : Rank(e, found) = i
    BY DEF Ordered
  <2> QED
    BY <2>1, <2>2
<1>4. Ordered(found) \in Seq(found)
  <2>1. Ordered(found) = [i \in 1..n |-> Ordered(found)[i]]
    BY DEF Ordered
  <2>2. Ordered(found) \in [1..n -> found]
    BY <1>3, <2>1
  <2> QED
    BY <1>1, <2>2, SeqDef
<1>5. ASSUME NEW e \in found
      PROVE  \E i \in 1..n : Ordered(found)[i] = e
  <2>1. Rank(e, found) \in 1..n
    BY RankIsPlace
  <2>2. /\ Ordered(found)[Rank(e, found)] \in found
        /\ Rank(Ordered(found)[Rank(e, found)], found) = Rank(e, found)
    BY <1>3, <2>1
  <2>3. Ordered(found)[Rank(e, found)] = e
    BY <2>2, RankIsPlace
  <2> QED
    BY <2>1, <2>3
<1>6. ASSUME NEW i \in 1..n, NEW j \in 1..n, i < j
      PROVE  Before(Ordered(found)[i], Ordered(found)[j])
  BY <1>3, <1>6, RankIsPlace
<1> QED
  BY <1>2, <1>4, <1>5, <1>6

-----------------------------------------------------------------------------
(* The reader *)

Given(e) == \E i \in DOMAIN pages : pages[i] = e

\* The ledger as far as reading depends on it.
LedgerInv ==
  /\ receivedAt \in [Writers -> SUBSET (0..MaxClock)]
  /\ clock \in 0..MaxClock
  /\ entries \in SUBSET Entries /\ IsFiniteSet(entries)

\* The cursor divides: what was given is not after it, and what was there and was
\* not given is.
ReaderInv ==
  /\ pages \in Seq(Entries) /\ PagesAreOrdered
  /\ cursor \in SUBSET entries /\ \A c, d \in cursor : c = d
  /\ cursor # {} => reading
  /\ reading /\ cursor = {} => pages = << >> /\ atStart = {}
  /\ \A c \in cursor, i \in DOMAIN pages : pages[i] = c \/ Before(pages[i], c)
  /\ atStart \in SUBSET entries
  /\ \A e \in atStart : Given(e) \/ (cursor # {} /\ \A c \in cursor : Before(c, e))

PagesInv == LedgerInv /\ ReaderInv

\* Entries are added, and the reader stands where it stood.
LEMMA MovementsPreserve ==
  ASSUME PagesInv,
         \/ Tick \/ \E s \in Writers : Receive(s) \/ MoveNothing(s)
         \/ \E s \in Writers, id \in 1..MaxEntries : Move(s, id)
  PROVE  PagesInv'
<1>1. LedgerInv /\ ReaderInv
  BY DEF PagesInv
<1>2. UNCHANGED <<cursor, pages, reading, atStart>>
  BY DEF Tick, Receive, MoveNothing, Move, reader
<1>3. LedgerInv' /\ entries \in SUBSET entries'
  <2>1. CASE Tick
    <3>1. clock' \in 0..MaxClock /\ UNCHANGED <<receivedAt, entries>>
      BY <1>1, <2>1, PagesAssumption DEF Tick, LedgerInv
    <3> QED
      BY <1>1, <3>1 DEF LedgerInv
  <2>2. ASSUME NEW s \in Writers, Receive(s) \/ MoveNothing(s)
        PROVE  LedgerInv' /\ entries \in SUBSET entries'
    <3>1. receivedAt' \in [Writers -> SUBSET (0..MaxClock)]
      BY <1>1, <2>2 DEF Receive, MoveNothing, LedgerInv
    <3>2. UNCHANGED <<clock, entries>>
      BY <2>2 DEF Receive, MoveNothing
    <3> QED
      BY <1>1, <3>1, <3>2 DEF LedgerInv
  <2>3. ASSUME NEW s \in Writers, NEW id \in 1..MaxEntries, Move(s, id)
        PROVE  LedgerInv' /\ entries \in SUBSET entries'
    <3>1. PICK at \in receivedAt[s] : entries' = entries \cup {[at |-> at, id |-> id]}
      BY <2>3 DEF Move
    <3>2. at \in 0..MaxClock
      BY <1>1, <3>1 DEF LedgerInv
    <3>3. entries' \in SUBSET Entries
      BY <1>1, <3>1, <3>2 DEF LedgerInv, Entries
    <3>4. IsFiniteSet(entries')
      BY <1>1, <3>1, FS_AddElement DEF LedgerInv
    <3>5. receivedAt' \in [Writers -> SUBSET (0..MaxClock)] /\ UNCHANGED clock
      BY <1>1, <2>3 DEF Move, LedgerInv
    <3> QED
      BY <1>1, <3>1, <3>3, <3>4, <3>5 DEF LedgerInv
  <2> QED
    BY <2>1, <2>2, <2>3
<1>4. ReaderInv'
  BY <1>1, <1>2, <1>3 DEF ReaderInv, Given, PagesAreOrdered
<1> QED
  BY <1>3, <1>4 DEF PagesInv

\* The reader, done, forgets what it was given.
LEMMA RestartPreserves ==
  ASSUME PagesInv, Restart
  PROVE  PagesInv'
<1>1. LedgerInv'
  BY DEF PagesInv, LedgerInv, Restart
<1>2. cursor = {} /\ cursor' = {} /\ pages' = << >> /\ atStart' = {} /\ reading'
  BY DEF PagesInv, ReaderInv, Restart
<1>3. pages' \in Seq(Entries) /\ DOMAIN pages' = {}
  BY <1>2
<1>4. ReaderInv'
  BY <1>2, <1>3 DEF ReaderInv, Given, PagesAreOrdered
<1> QED
  BY <1>1, <1>4 DEF PagesInv

\* A page continues where the cursor divides, and its cursor divides again.
LEMMA ReadPagePreserves ==
  ASSUME PagesInv, ReadPage
  PROVE  PagesInv'
<1> DEFINE found == AfterCursor(entries)
           next == Ordered(Page(found))
<1>1. LedgerInv /\ ReaderInv
  BY DEF PagesInv
<1>2. /\ reading
      /\ pages' = pages \o next
      /\ cursor' = NextCursor(ReadFrom(found))
      /\ reading' = (NextCursor(ReadFrom(found)) # {})
      /\ atStart' = IF cursor = {} THEN entries ELSE atStart
      /\ UNCHANGED <<clock, receivedAt, entries>>
  BY DEF ReadPage, ReadFrom, Page
<1>3. LedgerInv'
  BY <1>1, <1>2 DEF LedgerInv
<1>4. found \in SUBSET Entries /\ IsFiniteSet(found) /\ found \in SUBSET entries
  <2>1. found \in SUBSET entries
    BY DEF AfterCursor
  <2> QED
    BY <1>1, <2>1, FS_Subset DEF LedgerInv
<1>5. /\ Page(found) \in SUBSET found /\ IsFiniteSet(Page(found))
      /\ Page(found) \in SUBSET Entries
  BY <1>4, PageIsFirst
<1>6. /\ next \in Seq(Page(found))
      /\ \A e \in Page(found) : \E i \in DOMAIN next : next[i] = e
      /\ \A i, j \in DOMAIN next : i < j => Before(next[i], next[j])
  BY <1>5, OrderedIsOrdered
<1>7. /\ cursor' \in SUBSET found /\ \A c, d \in cursor' : c = d
      /\ cursor' = {} => Page(found) = found
      /\ \A c \in cursor', e \in found :
           IF e \in Page(found) THEN e = c \/ Before(e, c) ELSE Before(c, e)
  BY <1>2, <1>4, CursorDivides
\* What was given before is before what was found, and found is what is after.
<1>8. \A i \in DOMAIN pages, e \in found : Before(pages[i], e)
  <2> SUFFICES ASSUME NEW i \in DOMAIN pages, NEW e \in found
               PROVE  Before(pages[i], e)
    OBVIOUS
  <2>1. cursor # {}
    BY <1>1, <1>2 DEF ReaderInv
  <2>2. PICK c \in cursor : TRUE
    BY <2>1
  <2>3. Before(c, e) /\ (pages[i] = c \/ Before(pages[i], c))
    BY <1>1, <2>2 DEF ReaderInv, AfterCursor
  <2>4. c \in Entries /\ e \in Entries /\ pages[i] \in Entries
    BY <1>1, <1>4, <2>2 DEF ReaderInv, LedgerInv
  <2> QED
    BY <2>3, <2>4, BeforeOrders
<1>9. \A e \in atStart' : Given(e) \/ e \in found
  BY <1>1, <1>2 DEF ReaderInv, AfterCursor
<1> HIDE DEF found
<1>10. next \in Seq(Entries) /\ \A i \in DOMAIN next : next[i] \in Page(found)
  <2>1. next \in Seq(Entries)
    BY <1>5, <1>6, SeqMonotonic
  <2>2. \A i \in DOMAIN next : next[i] \in Page(found)
    BY <1>6, LenProperties, ElementOfSeq
  <2> QED
    BY <2>1, <2>2
<1> HIDE DEF next
<1>11. /\ pages' \in Seq(Entries)
       /\ DOMAIN pages = 1..Len(pages) /\ DOMAIN next = 1..Len(next)
       /\ Len(pages) \in Nat /\ Len(next) \in Nat
       /\ DOMAIN pages' = 1..(Len(pages) + Len(next))
       /\ \A i \in DOMAIN pages' : pages'[i] = IF i <= Len(pages) THEN pages[i] ELSE next[i - Len(pages)]
  <2>1. pages \in Seq(Entries)
    BY <1>1 DEF ReaderInv
  <2>2. /\ pages' \in Seq(Entries) /\ Len(pages') = Len(pages) + Len(next)
        /\ \A i \in 1..(Len(pages) + Len(next)) :
             pages'[i] = IF i <= Len(pages) THEN pages[i] ELSE next[i - Len(pages)]
    BY <1>2, <1>10, <2>1, ConcatProperties
  <2>3. DOMAIN pages' = 1..Len(pages')
    BY <2>2, LenProperties
  <2> QED
    BY <1>10, <2>1, <2>2, <2>3, LenProperties
<1>12. \A i \in DOMAIN pages' :
         \/ i \in DOMAIN pages /\ pages'[i] = pages[i]
         \/ i - Len(pages) \in DOMAIN next /\ pages'[i] = next[i - Len(pages)]
  BY <1>11
<1>13. PagesAreOrdered'
  <2> SUFFICES ASSUME NEW i \in DOMAIN pages', NEW j \in DOMAIN pages', i < j
               PROVE  Before(pages'[i], pages'[j])
    BY DEF PagesAreOrdered
  <2>1. CASE j <= Len(pages)
    <3>1. i \in DOMAIN pages /\ j \in DOMAIN pages /\ pages'[i] = pages[i] /\ pages'[j] = pages[j]
      BY <1>11, <2>1
    <3> QED
      BY <1>1, <3>1 DEF ReaderInv, PagesAreOrdered
  <2>2. CASE i <= Len(pages) /\ ~(j <= Len(pages))
    <3>1. i \in DOMAIN pages /\ j - Len(pages) \in DOMAIN next
          /\ pages'[i] = pages[i] /\ pages'[j] = next[j - Len(pages)]
      BY <1>11, <2>2
    <3>2. next[j - Len(pages)] \in found
      BY <1>5, <1>10, <3>1
    <3> QED
      BY <1>8, <3>1, <3>2
  <2>3. CASE ~(i <= Len(pages))
    <3>1. /\ i - Len(pages) \in DOMAIN next /\ j - Len(pages) \in DOMAIN next
          /\ i - Len(pages) < j - Len(pages)
          /\ pages'[i] = next[i - Len(pages)] /\ pages'[j] = next[j - Len(pages)]
      BY <1>11, <2>3
    <3> QED
      BY <1>6, <3>1
  <2> QED
    BY <1>11, <2>1, <2>2, <2>3
<1>14. \A c \in cursor', i \in DOMAIN pages' : pages'[i] = c \/ Before(pages'[i], c)
  <2> SUFFICES ASSUME NEW c \in cursor', NEW i \in DOMAIN pages'
               PROVE  pages'[i] = c \/ Before(pages'[i], c)
    OBVIOUS
  <2>1. CASE i \in DOMAIN pages /\ pages'[i] = pages[i]
    BY <1>7, <1>8, <2>1
  <2>2. CASE i - Len(pages) \in DOMAIN next /\ pages'[i] = next[i - Len(pages)]
    BY <1>5, <1>7, <1>10, <2>2
  <2> QED
    BY <1>12, <2>1, <2>2
<1>15. \A e : Given(e) \/ e \in Page(found) => Given(e)'
  <2>1. ASSUME NEW e, Given(e)
        PROVE  Given(e)'
    <3>1. PICK i \in DOMAIN pages : pages[i] = e
      BY <2>1 DEF Given
    <3>2. i \in DOMAIN pages' /\ pages'[i] = e
      BY <1>11, <3>1
    <3> QED
      BY <3>2 DEF Given
  <2>2. ASSUME NEW e \in Page(found)
        PROVE  Given(e)'
    <3>1. PICK i \in DOMAIN next : next[i] = e
      BY <1>6, <2>2 DEF next
    <3>2. Len(pages) + i \in DOMAIN pages' /\ pages'[Len(pages) + i] = next[i]
      BY <1>11
    <3> QED
      BY <3>1, <3>2 DEF Given
  <2> QED
    BY <2>1, <2>2
<1>16. \A e \in atStart' : Given(e)' \/ (cursor' # {} /\ \A c \in cursor' : Before(c, e))
  BY <1>7, <1>9, <1>15
<1>17. atStart' \in SUBSET entries' /\ cursor' \in SUBSET entries'
  BY <1>1, <1>2, <1>4, <1>7 DEF ReaderInv
<1>18. ReaderInv'
  BY <1>2, <1>7, <1>11, <1>13, <1>14, <1>16, <1>17 DEF ReaderInv
<1> QED
  BY <1>3, <1>18 DEF PagesInv

LEMMA PagesInvariant == Spec => []PagesInv
<1>1. Init => PagesInv
  <2> SUFFICES ASSUME Init PROVE PagesInv
    OBVIOUS
  <2>1. LedgerInv
    BY PagesAssumption, FS_EmptySet DEF Init, LedgerInv
  <2>2. pages \in Seq(Entries) /\ DOMAIN pages = {}
    BY DEF Init
  <2>3. ReaderInv
    BY <2>2 DEF Init, ReaderInv, PagesAreOrdered
  <2> QED
    BY <2>1, <2>3 DEF PagesInv
<1>2. PagesInv /\ [Next]_vars => PagesInv'
  <2> SUFFICES ASSUME PagesInv, [Next]_vars PROVE PagesInv'
    OBVIOUS
  <2>1. CASE UNCHANGED vars
    BY <2>1 DEF PagesInv, LedgerInv, ReaderInv, Given, PagesAreOrdered, vars, reader
  <2>2. CASE Next
    BY <2>2, MovementsPreserve, RestartPreserves, ReadPagePreserves DEF Next
  <2> QED
    BY <2>1, <2>2
<1> QED
  BY <1>1, <1>2, PTL DEF Spec

-----------------------------------------------------------------------------
(* Theorems *)

\* Over any number of pages of any length, and whatever is committed between two
\* of them, entries come in the order of their stamps and none twice.
THEOREM PagesComeInOrder == Spec => []PagesAreOrdered
<1>1. PagesInv => PagesAreOrdered
  BY DEF PagesInv, ReaderInv
<1> QED
  BY <1>1, PagesInvariant, PTL

\* Whoever read up to the last page was given everything that was in the ledger at
\* the first, also when entries were committed behind and before the cursor.
THEOREM PagesLeaveNothingOut == Spec => []PagesHoldWhatWasThere
<1>1. PagesInv => PagesHoldWhatWasThere
  BY DEF PagesInv, ReaderInv, PagesHoldWhatWasThere, Given
<1> QED
  BY <1>1, PagesInvariant, PTL
===============================================================================
