--------------------------- MODULE LockApiProofs ---------------------------
(***************************************************************************)
(* Proofs about listing locks and about the lock handlers, for any number  *)
(* of users, locks and pages, any limits and any behaviour of the clock.   *)
(*                                                                         *)
(* Paging: the cursor splits the listing.  Everything received is at or    *)
(* before it, and every lock held throughout is either received or still   *)
(* after it.                                                               *)
(*                                                                         *)
(* Handlers: every step of theirs is a step of LockPaging or leaves its    *)
(* variables alone, so its theorems carry over; what verify has said of the*)
(* locks received stays true because an ID is issued once and a lock never *)
(* changes hands.                                                          *)
(***************************************************************************)
EXTENDS LockApi, TLAPS

(* Listing page by page *)


\* The locks received so far are those up to the cursor.
Received ==
    phase = "walking" =>
        IF cursor = None
        THEN before = {} /\ page = {}
        ELSE \A l \in before \cup page : l = cursor \/ compareLocks(l, cursor)

\* A lock held since the walk began has been received or is still to come.
Covered ==
    phase = "walking" =>
        \A l \in held : \/ l \in before \cup page
                        \/ cursor = None
                        \/ compareLocks(cursor, l)

HeldMatches == phase = "walking" => held \subseteq Matches(locks, filter)

IInv == TypeOK /\ Received /\ Covered /\ HeldMatches /\ PagesAscend /\ NothingMissed

\* The fields a listing is sorted by are integers.
LEMMA LockFields ==
  ASSUME NEW l \in Lock
  PROVE  l.at \in Int /\ l.id \in Int
  <1>1. l.at \in Nat /\ l.id \in Ids
    BY DEF Lock
  <1>2. l.id \in Nat
    BY <1>1, IdsAssumption, ZenonT(30)
  <1>3. QED
    BY <1>1, <1>2

\* The listing order is transitive.
LEMMA OrderTransitive ==
  ASSUME NEW a \in Lock, NEW b \in Lock, NEW c \in Lock,
         compareLocks(a, b), compareLocks(b, c)
  PROVE  compareLocks(a, c)
  <1>1. /\ a.at \in Int /\ b.at \in Int /\ c.at \in Int
        /\ a.id \in Int /\ b.id \in Int /\ c.id \in Int
    BY LockFields
  <1>2. (a.at < b.at \/ (a.at = b.at /\ a.id < b.id))
    BY DEF compareLocks
  <1>3. (b.at < c.at \/ (b.at = c.at /\ b.id < c.id))
    BY DEF compareLocks
  <1>4. (a.at < c.at \/ (a.at = c.at /\ a.id < c.id))
    BY <1>1, <1>2, <1>3
  <1>5. QED
    BY <1>4 DEF compareLocks

\* A filter selects among the locks.
LEMMA MatchesSubset ==
  ASSUME NEW S, NEW f
  PROVE  Matches(S, f) \subseteq S
  BY DEF Matches, match

\* A lock keeps matching when others come and go.
LEMMA MatchesStable ==
  ASSUME NEW S, NEW T, NEW f, NEW l \in T, l \in Matches(S, f)
  PROVE  l \in Matches(T, f)
  BY DEF Matches, match

\* What MorePages returns: the page lies between the old cursor and the new.
LEMMA MorePagesFacts ==
  ASSUME TypeOK, MorePages
  PROVE  /\ cursor' \in Lock
         /\ page' \subseteq After(Matches(locks, filter), cursor)
         /\ cursor' \in page'
         /\ \A l \in page' : l = cursor' \/ compareLocks(l, cursor')
         /\ \A l \in After(Matches(locks, filter), cursor) \ page' : compareLocks(cursor', l)
  <1>1. PICK n \in Limits :
           \E P \in SUBSET After(Matches(locks, filter), cursor),
              last \in After(Matches(locks, filter), cursor) :
                /\ IsHead(P, After(Matches(locks, filter), cursor), Limit(n), last)
                /\ page' = P
                /\ cursor' = last
    BY DEF MorePages
  <1>2. cursor' \in After(Matches(locks, filter), cursor)
    BY <1>1
  <1>3. cursor' \in Lock
    BY <1>2, MatchesSubset DEF After, TypeOK
  <1>4. QED
    BY <1>1, <1>3 DEF IsHead

\* Every step preserves the invariant.
LEMMA PagingStep == IInv /\ [Next]_vars => IInv'
  <1> SUFFICES ASSUME IInv, [Next]_vars PROVE IInv'
    OBVIOUS
  <1> USE DEF IInv, storeVars, walkVars
  <1>1. ASSUME NEW p \in Paths, NEW i \in Ids \ issued, Create(p, i) PROVE IInv'
    <2>1. TypeOK'
      BY <1>1 DEF Create, TypeOK, Lock
    <2>2. HeldMatches'
      BY <1>1, MatchesSubset, MatchesStable DEF Create, HeldMatches
    <2>3. QED
      BY <1>1, <2>1, <2>2 DEF Create, Received, Covered, PagesAscend, NothingMissed
  <1>2. ASSUME NEW l \in locks, Unlock(l) PROVE IInv'
    <2>1. TypeOK'
      BY <1>2 DEF Unlock, TypeOK
    <2>2. HeldMatches'
      BY <1>2, MatchesSubset, MatchesStable DEF Unlock, HeldMatches
    <2>3. QED
      BY <1>2, <2>1, <2>2 DEF Unlock, Received, Covered, PagesAscend, NothingMissed
  <1>3. CASE SetClock
    <2>1. TypeOK'
      BY <1>3, LimitsAssumption DEF SetClock, TypeOK
    <2>2. QED
      BY <1>3, <2>1 DEF SetClock, Received, Covered, HeldMatches, PagesAscend, NothingMissed
  <1>4. CASE StartWalk
    <2>1. TypeOK'
      BY <1>4, MatchesSubset DEF StartWalk, TypeOK
    <2>2. QED
      BY <1>4, <2>1 DEF StartWalk, Received, Covered, HeldMatches, PagesAscend, NothingMissed
  <1>5. CASE LastPage
    <2> DEFINE rest == After(Matches(locks, filter), cursor)
    <2>1. page' = rest /\ before' = before \cup page /\ phase' = "done" /\ rest \subseteq Lock
      BY <1>5, MatchesSubset DEF LastPage, TypeOK, After
    <2>2. TypeOK'
      BY <1>5, <2>1 DEF LastPage, TypeOK
    <2>3. PagesAscend'
      <3> SUFFICES ASSUME NEW l \in before \cup page, NEW m \in rest
                   PROVE  compareLocks(l, m)
        BY <2>1 DEF PagesAscend
      <3>1. cursor \in Lock /\ (l = cursor \/ compareLocks(l, cursor)) /\ compareLocks(cursor, m)
        BY <1>5 DEF LastPage, Received, TypeOK, After
      <3>2. QED
        BY <2>1, <3>1, OrderTransitive DEF TypeOK
    <2>4. NothingMissed'
      BY <1>5, <2>1 DEF LastPage, NothingMissed, Covered, HeldMatches, After
    <2>5. QED
      BY <2>1, <2>2, <2>3, <2>4 DEF Received, Covered, HeldMatches
  <1>6. CASE MorePages
    <2> DEFINE rest == After(Matches(locks, filter), cursor)
    <2>1. /\ phase = "walking" /\ before' = before \cup page
          /\ UNCHANGED <<locks, issued, clock, phase, filter, held>>
      BY <1>6 DEF MorePages
    <2>2. /\ cursor' \in Lock /\ page' \subseteq rest /\ cursor' \in page'
          /\ \A l \in page' : l = cursor' \/ compareLocks(l, cursor')
          /\ \A l \in rest \ page' : compareLocks(cursor', l)
      BY <1>6, MorePagesFacts
    <2>3. rest \subseteq Lock
      BY MatchesSubset DEF TypeOK, After
    <2>4. TypeOK'
      BY <2>1, <2>2, <2>3 DEF TypeOK
    <2>5. PagesAscend'
      <3> SUFFICES ASSUME NEW l \in before \cup page, NEW m \in page'
                   PROVE  compareLocks(l, m)
        BY <2>1 DEF PagesAscend
      <3>1. cursor \in Lock /\ (l = cursor \/ compareLocks(l, cursor)) /\ compareLocks(cursor, m)
        BY <2>1, <2>2 DEF Received, TypeOK, After
      <3>2. QED
        BY <2>2, <2>3, <3>1, OrderTransitive DEF TypeOK
    <2>6. Received'
      <3> SUFFICES ASSUME NEW l \in before \cup page
                   PROVE  compareLocks(l, cursor')
        BY <2>1, <2>2, NoneIsNoLock DEF Received
      <3>1. QED
        BY <2>1, <2>2, <2>5 DEF PagesAscend
    <2>7. Covered'
      BY <2>1, <2>2 DEF Covered, HeldMatches, After
    <2>8. QED
      BY <2>1, <2>4, <2>5, <2>6, <2>7 DEF HeldMatches, NothingMissed
  <1>7. CASE UNCHANGED vars
    BY <1>7 DEF vars, TypeOK, Received, Covered, HeldMatches, PagesAscend, NothingMissed
  <1>8. QED
    BY <1>1, <1>2, <1>3, <1>4, <1>5, <1>6, <1>7 DEF Next

\* The invariant holds throughout.
LEMMA PagingInvariant == Spec => []IInv
  <1>1. Init => IInv
    BY DEF Init, IInv, TypeOK, Filters, Received, Covered, HeldMatches, PagesAscend, NothingMissed
  <1>2. QED
    BY <1>1, PagingStep, PTL DEF Spec

\* A completed walk has received every lock that was there throughout, for any
\* page limits, concurrent creates and releases, and clock.
THEOREM WalkMissesNothing == Spec => []NothingMissed
  BY PagingInvariant, PTL DEF IInv

\* Pages never repeat a lock or go back in the listing order.
THEOREM WalkRepeatsNothing == Spec => []PagesAscend
  BY PagingInvariant, PTL DEF IInv

-----------------------------------------------------------------------------
(* The handlers *)


Seen == before \cup page

\* Locks known to anybody have an ID that was issued, with an owner for life.
IssuedOnly == \A l \in locks \cup Seen \cup held : l.id \in issued

\* Verify has split what it has received by whose it is.
Split ==
    kind = "verify" =>
        /\ ours = {l \in Seen : Fold[owner[l.id]] = Fold[walker]}
        /\ theirs = Seen \ ours

ApiInv == IInv /\ owner \in [Ids -> Names \cup {None}] /\ IssuedOnly /\ Split

\* A handler's step is a step of the lock set and the walk, or changes neither.
LEMMA ApiStepIsPagingStep == ApiNext => [Next]_vars
  <1> SUFFICES ASSUME ApiNext PROVE [Next]_vars
    OBVIOUS
  <1>1. CASE Tick
    BY <1>1 DEF Tick, Next
  <1>2. ASSUME NEW r \in Result, NEW p \in Paths, CreateLockHandler(r, p) PROVE Next
    BY <1>2 DEF CreateLockHandler, Next
  <1>3. ASSUME NEW r \in Result, NEW l \in locks, NEW force \in BOOLEAN,
               UnlockHandler(r, l, force)
        PROVE  Next
    BY <1>3 DEF UnlockHandler, Next
  <1>4. CASE BeginWalk
    BY <1>4 DEF BeginWalk, Next
  <1>5. CASE ListLocksHandler
    BY <1>5 DEF ListLocksHandler, NextPage, Next
  <1>6. CASE VerifyLocksHandler
    BY <1>6 DEF VerifyLocksHandler, NextPage, Next
  <1>7. QED
    BY <1>1, <1>2, <1>3, <1>4, <1>5, <1>6 DEF ApiNext

\* The handlers implement the lock set that LockPaging describes.
THEOREM HandlersImplementPaging == ApiSpec => Spec
  <1>1. ApiInit => Init
    BY DEF ApiInit
  <1>2. [ApiNext]_apiVars => [Next]_vars
    BY ApiStepIsPagingStep DEF apiVars
  <1>3. QED
    BY <1>1, <1>2, PTL DEF ApiSpec, Spec

\* The page of a listing is taken from the lock set.
LEMMA PageFromLocks ==
  ASSUME IInv, NextPage
  PROVE  /\ page' \subseteq locks
         /\ before' = Seen
         /\ UNCHANGED <<locks, issued, held>>
  <1>1. CASE LastPage
    BY <1>1, MatchesSubset DEF LastPage, After, Seen, storeVars
  <1>2. CASE MorePages
    <2>1. page' \subseteq After(Matches(locks, filter), cursor)
      BY <1>2, MorePagesFacts DEF IInv
    <2>2. QED
      BY <1>2, <2>1, MatchesSubset DEF MorePages, After, Seen, storeVars
  <1>3. QED
    BY <1>1, <1>2 DEF NextPage

\* Every step preserves the handlers' invariant.
LEMMA ApiStep == ApiInv /\ [ApiNext]_apiVars => ApiInv'
  <1> SUFFICES ASSUME ApiInv, [ApiNext]_apiVars PROVE ApiInv'
    OBVIOUS
  <1>0. IInv'
    BY ApiStepIsPagingStep, PagingStep DEF ApiInv, apiVars
  <1> USE DEF ApiInv, storeVars, walkVars, apiWalkVars
  <1>1. CASE Tick
    BY <1>0, <1>1 DEF Tick, SetClock, IssuedOnly, Split, Seen
  <1>2. ASSUME NEW r \in Result, NEW p \in Paths, CreateLockHandler(r, p) PROVE ApiInv'
    <2>1. PICK i \in Ids \ issued : Create(p, i) /\ owner' = [owner EXCEPT ![i] = r.username]
      BY <1>2 DEF CreateLockHandler
    <2>2. UNCHANGED <<before, page, held, walker, kind, ours, theirs>>
      BY <1>2, <2>1 DEF CreateLockHandler, Create
    <2>3. r.username \in Names
      BY DEF Result
    <2>4. owner' \in [Ids -> Names \cup {None}]
      BY <2>1, <2>3
    <2>5. IssuedOnly'
      BY <2>1, <2>2 DEF Create, IssuedOnly, Seen
    <2>6. Seen' = Seen /\ \A l \in Seen : owner'[l.id] = owner[l.id]
      BY <2>1, <2>2 DEF IssuedOnly, Seen
    <2>7. Split'
      BY <2>2, <2>6 DEF Split
    <2>8. QED
      BY <1>0, <2>4, <2>5, <2>7
  <1>3. ASSUME NEW r \in Result, NEW l \in locks, NEW force \in BOOLEAN,
               UnlockHandler(r, l, force)
        PROVE  ApiInv'
    <2>1. /\ UNCHANGED <<issued, before, page, owner, walker, kind, ours, theirs>>
          /\ locks' \subseteq locks /\ held' \subseteq held
      BY <1>3 DEF UnlockHandler, Unlock
    <2>2. QED
      BY <1>0, <2>1 DEF IssuedOnly, Split, Seen
  <1>4. CASE BeginWalk
    <2>1. /\ UNCHANGED <<locks, issued, owner>>
          /\ before' = {} /\ page' = {} /\ ours' = {} /\ theirs' = {}
          /\ held' \subseteq locks
      BY <1>4, MatchesSubset DEF BeginWalk, StartWalk
    <2>2. QED
      BY <1>0, <2>1 DEF IssuedOnly, Split, Seen
  <1>5. CASE ListLocksHandler
    <2>1. NextPage /\ kind' = "list" /\ UNCHANGED owner
      BY <1>5 DEF ListLocksHandler
    <2>2. QED
      BY <1>0, <2>1, PageFromLocks DEF IssuedOnly, Split, Seen
  <1>6. CASE VerifyLocksHandler
    <2> DEFINE mine == {l \in page' : Fold[owner[l.id]] = Fold[walker]}
    <2>1. /\ NextPage /\ kind = "verify" /\ UNCHANGED <<owner, walker, kind>>
          /\ ours' = ours \cup mine /\ theirs' = theirs \cup (page' \ mine)
      BY <1>6 DEF VerifyLocksHandler
    <2>2. /\ page' \subseteq locks /\ Seen' = Seen \cup page'
          /\ UNCHANGED <<locks, issued, held>>
      BY <2>1, PageFromLocks DEF Seen
    <2>3. IssuedOnly'
      BY <2>2 DEF IssuedOnly
    <2>4. Split'
      BY <2>1, <2>2 DEF Split
    <2>5. QED
      BY <1>0, <2>1, <2>3, <2>4
  <1>7. CASE UNCHANGED apiVars
    BY <1>0, <1>7 DEF apiVars, vars, IssuedOnly, Split, Seen
  <1>8. QED
    BY <1>1, <1>2, <1>3, <1>4, <1>5, <1>6, <1>7 DEF ApiNext

\* The handlers' invariant holds throughout.
LEMMA ApiInvariant == ApiSpec => []ApiInv
  <1>1. ApiInit => IInv
    BY DEF ApiInit, Init, IInv, TypeOK, Filters, Received, Covered, HeldMatches,
           PagesAscend, NothingMissed
  <1>2. ApiInit => ApiInv
    BY <1>1 DEF ApiInit, Init, ApiInv, IssuedOnly, Split, Seen
  <1>3. QED
    BY <1>2, ApiStep, PTL DEF ApiSpec

\* A completed verify agrees with unlock on every lock that was there all along.
THEOREM VerifyIsRight == ApiSpec => []VerifyAgreesWithUnlock
  <1>1. ApiInv => VerifyAgreesWithUnlock
    BY DEF ApiInv, IInv, NothingMissed, Split, Seen, VerifyAgreesWithUnlock, MayRelease
  <1>2. QED
    BY <1>1, ApiInvariant, PTL
=============================================================================
