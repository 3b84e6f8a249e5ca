-------------------------- MODULE LeaseTableProofs --------------------------
(***************************************************************************)
(* Proofs about LeaseTable: the two statements of AcquireLease keep the    *)
(* promise of a granted lease, and implement a lock with a time limit, for *)
(* any number of instances, calls of one instance, clock differences and   *)
(* times to live.                                                          *)
(***************************************************************************)
EXTENDS LeaseTable, TLAPS

\* The clock an instance reads is never behind real time, nor far ahead.
LEMMA LocalBounds ==
  ASSUME TypeOK, NEW o \in Owners
  PROVE  Local(o) \in Int /\ clock <= Local(o) /\ Local(o) <= clock + MaxSkew
BY LeaseAssumption DEF TypeOK, Local

\* Every call names the instance it runs in.
LEMMA MeIsOwner == ASSUME NEW c \in Calls PROVE Me(c) \in Owners /\ Me(c) # NoOwner
BY LeaseAssumption DEF Me

\* What the two statements store is a row of the table.
LEMMA AcquiredType ==
  ASSUME NEW o \in Owners, NEW t \in Int
  PROVE  /\ LR!Acquired(o, t, TTL) \in LR!Lease
         /\ LR!Acquired(o, t, TTL).owner = o
         /\ LR!Acquired(o, t, TTL).expires = t + TTL
         /\ LR!Present(LR!Acquired(o, t, TTL))
BY LeaseAssumption DEF LR!Acquired, LR!Lease, LR!Present, LR!NoLease

LEMMA InitIInv == Init => IInv
BY LeaseAssumption
DEF Init, IInv, TypeOK, NowInPast, GrantCovers, RivalSeen, RefusedOnlyByRival, LR!Lease, LR!NoLease

LEMMA NextTypeOK == TypeOK /\ [Next]_vars => TypeOK'
<1>1. SUFFICES ASSUME TypeOK, [Next]_vars PROVE TypeOK'
  OBVIOUS
<1>2. CASE Tick
  BY <1>1, <1>2 DEF Tick, TypeOK
<1>3. ASSUME NEW c \in Calls, Start(c) PROVE TypeOK'
  BY <1>1, <1>3, LocalBounds, MeIsOwner DEF Start, Goto, TypeOK
<1>4. ASSUME NEW c \in Calls, Insert(c) PROVE TypeOK'
  <2>1. row' \in LR!Lease
    BY <1>1, <1>4, AcquiredType, MeIsOwner DEF Insert, TypeOK
  <2>2. QED
    BY <1>1, <1>4, <2>1 DEF Insert, Answer, Goto, Witness, TypeOK
<1>5. ASSUME NEW c \in Calls, Update(c) PROVE TypeOK'
  <2>1. row' \in LR!Lease
    BY <1>1, <1>5, AcquiredType, MeIsOwner DEF Update, TypeOK
  <2>2. QED
    BY <1>1, <1>5, <2>1 DEF Update, Answer, Goto, Witness, TypeOK
<1>6. ASSUME NEW c \in Calls, Finish(c) PROVE TypeOK'
  <2>1. row' \in LR!Lease
    BY <1>1, <1>6 DEF Finish, TypeOK, LR!Released, LR!Lease
  <2>2. QED
    BY <1>1, <1>6, <2>1 DEF Finish, Goto, Witness, TypeOK
<1>7. ASSUME NEW c \in Calls, Die(c) PROVE TypeOK'
  BY <1>1, <1>7 DEF Die, Goto, TypeOK
<1>8. CASE UNCHANGED vars
  BY <1>1, <1>8 DEF vars, TypeOK
<1>9. QED
  BY <1>1, <1>2, <1>3, <1>4, <1>5, <1>6, <1>7, <1>8 DEF Next

\* The time of a call was read before, and clocks run forward.
LEMMA NextNowInPast == TypeOK /\ NowInPast /\ [Next]_vars => NowInPast'
<1>1. SUFFICES ASSUME TypeOK, NowInPast, [Next]_vars,
                      NEW p \in Calls, pc'[p] # "idle"
               PROVE  now'[p] <= clock' + Skew[Me(p)]
  BY DEF NowInPast, Local, Me
<1> USE LeaseAssumption, MeIsOwner DEF TypeOK, NowInPast, Goto, Answer, Local
<1>2. CASE Tick
  BY <1>1, <1>2 DEF Tick
<1>3. ASSUME NEW c \in Calls, Start(c) PROVE now'[p] <= clock' + Skew[Me(p)]
  BY <1>1, <1>3 DEF Start
<1>4. ASSUME NEW c \in Calls, Insert(c) \/ Update(c) \/ Finish(c) \/ Die(c)
      PROVE  now'[p] <= clock' + Skew[Me(p)]
  BY <1>1, <1>4 DEF Insert, Update, Finish, Die
<1>5. CASE UNCHANGED vars
  BY <1>1, <1>5 DEF vars
<1>6. QED
  BY <1>1, <1>2, <1>3, <1>4, <1>5 DEF Next

\* A statement of another instance leaves a covered row alone: the time it
\* carries is not past the expiry.
LEMMA CoveredNotClaimable ==
  ASSUME TypeOK, NowInPast, NEW c \in Calls, NEW p \in Calls, Me(c) # Me(p),
         row.owner = Me(p), row.expires >= now[p] + TTL, clock + MaxSkew <= now[p] + TTL,
         pc[c] # "idle"
  PROVE  LR!Present(row) /\ ~LR!Claimable(row, Me(c), now[c])
<1>1. now[c] \in Int /\ now[p] \in Int /\ row.expires \in Int /\ clock \in Int
  BY DEF TypeOK, LR!Lease, LR!NoLease
<1>2. now[c] <= clock + MaxSkew
  BY <1>1, LocalBounds, MeIsOwner, LeaseAssumption DEF NowInPast
<1>3. LR!Present(row)
  BY MeIsOwner DEF LR!Present, LR!NoLease
<1>4. ~(row.expires < now[c])
  BY <1>1, <1>2, LeaseAssumption
<1>5. QED
  BY <1>3, <1>4 DEF LR!Claimable

\* What a statement of another call leaves of a covered grant, when it does not
\* undercut it: the row as it was, or one of the same instance that ends no
\* sooner.
LEMMA StaysCovered ==
  ASSUME TypeOK, NEW c \in Calls, NEW p \in Calls, c # p, Witness(c),
         pc[p] = "held", row.owner = Me(p), row'.owner \in {Me(p), NoOwner},
         row' \in LR!Lease, ~undercut'[p]
  PROVE  row'.owner = Me(p) /\ row'.expires >= now[p] + TTL
<1>1. ~Undercuts(p)
  BY DEF Witness, TypeOK
<1>2. LR!Present(row')
  BY <1>1 DEF Undercuts
<1>3. row'.owner = Me(p)
  BY <1>2, LeaseAssumption DEF LR!Present, LR!Lease, LR!NoLease
<1>4. ~(row'.expires < now[p] + TTL)
  BY <1>1, <1>3 DEF Undercuts
<1>5. row'.expires \in Int /\ now[p] + TTL \in Int
  BY <1>2, LeaseAssumption DEF TypeOK, LR!Lease, LR!NoLease
<1>6. QED
  BY <1>3, <1>4, <1>5

LEMMA NextGrantCovers == IInv /\ [Next]_vars => GrantCovers'
<1>1. SUFFICES ASSUME IInv, [Next]_vars, NEW p \in Calls, pc'[p] = "held",
                      clock' + MaxSkew <= now'[p] + TTL, ~undercut'[p]
               PROVE  row'.owner = Me(p) /\ row'.expires >= now'[p] + TTL
  BY DEF GrantCovers, Me
<1> DEFINE Covered == row'.owner = Me(p) /\ row'.expires >= now'[p] + TTL
<1>2. TypeOK /\ NowInPast /\ GrantCovers
  BY <1>1 DEF IInv
<1>3. TypeOK'
  BY <1>1, <1>2, NextTypeOK
<1>4. ASSUME NEW c \in Calls, c # p, Witness(c), pc[p] = "held", now'[p] = now[p],
             clock' = clock, pc[c] # "idle",
             \/ row' = row
             \/ row' = LR!Released(row, Me(c))
             \/ /\ LR!MayAcquire(row, Me(c), now[c])
                /\ row' = LR!Acquired(Me(c), now[c], TTL)
      PROVE  Covered
  <2>1. ~undercut[p]
    BY <1>1, <1>2, <1>4 DEF Witness, TypeOK
  <2>2. row.owner = Me(p) /\ row.expires >= now[p] + TTL
    BY <1>1, <1>2, <1>4, <2>1 DEF GrantCovers
  <2>3. row'.owner \in {Me(p), NoOwner}
    <3>1. CASE Me(c) = Me(p)
      BY <1>2, <1>4, <2>2, <3>1, AcquiredType, MeIsOwner
      DEF LR!Released, LR!NoLease, TypeOK
    <3>2. CASE Me(c) # Me(p)
      <4>1. LR!Present(row) /\ ~LR!Claimable(row, Me(c), now[c])
        BY <1>1, <1>2, <1>4, <2>2, <3>2, CoveredNotClaimable
      <4>2. row' = row
        BY <1>4, <2>2, <3>2, <4>1 DEF LR!MayAcquire, LR!Released
      <4>3. QED
        BY <2>2, <4>2
    <3>3. QED
      BY <3>1, <3>2
  <2>4. row' \in LR!Lease
    BY <1>3 DEF TypeOK
  <2>5. QED
    BY <1>1, <1>2, <1>4, <2>2, <2>3, <2>4, StaysCovered
<1>5. CASE Tick
  BY <1>1, <1>2, <1>5, LeaseAssumption DEF Tick, GrantCovers, TypeOK
<1>6. ASSUME NEW c \in Calls, Start(c) PROVE Covered
  <2>1. c # p
    BY <1>1, <1>2, <1>6 DEF Start, Goto, TypeOK
  <2>2. QED
    BY <1>1, <1>2, <1>6, <2>1 DEF Start, Goto, GrantCovers, TypeOK
<1>7. ASSUME NEW c \in Calls, Insert(c) \/ Update(c) PROVE Covered
  <2>1. CASE c = p
    <3>1. pc[p] # "held" /\ now'[p] = now[p]
      BY <1>7, <2>1 DEF Insert, Update
    <3>2. row' = LR!Acquired(Me(p), now[p], TTL)
      BY <1>1, <1>2, <1>7, <2>1, <3>1 DEF Insert, Update, Answer, Goto, TypeOK
    <3>3. QED
      BY <1>2, <3>1, <3>2, AcquiredType, MeIsOwner, LeaseAssumption DEF TypeOK
  <2>2. CASE c # p
    <3>1. pc[p] = "held" /\ now'[p] = now[p] /\ clock' = clock /\ pc[c] # "idle"
      BY <1>1, <1>2, <1>7, <2>2 DEF Insert, Update, Answer, Goto, TypeOK
    <3>2. Witness(c)
      BY <1>7 DEF Insert, Update
    <3>3. \/ row' = row
          \/ /\ LR!MayAcquire(row, Me(c), now[c])
             /\ row' = LR!Acquired(Me(c), now[c], TTL)
      BY <1>7 DEF Insert, Update, LR!MayAcquire
    <3>4. QED
      BY <1>4, <2>2, <3>1, <3>2, <3>3
  <2>3. QED
    BY <2>1, <2>2
<1>8. ASSUME NEW c \in Calls, Finish(c) PROVE Covered
  <2>1. c # p
    BY <1>1, <1>2, <1>8 DEF Finish, Goto, TypeOK
  <2>2. pc[p] = "held" /\ now'[p] = now[p] /\ clock' = clock /\ pc[c] # "idle"
    BY <1>1, <1>2, <1>8, <2>1 DEF Finish, Goto, TypeOK
  <2>3. Witness(c) /\ (row' = row \/ row' = LR!Released(row, Me(c)))
    BY <1>8 DEF Finish
  <2>4. QED
    BY <1>4, <2>1, <2>2, <2>3
<1>9. ASSUME NEW c \in Calls, Die(c) PROVE Covered
  BY <1>1, <1>2, <1>9 DEF Die, Goto, GrantCovers, TypeOK
<1>10. CASE UNCHANGED vars
  BY <1>1, <1>2, <1>10 DEF vars, GrantCovers
<1>11. QED
  BY <1>1, <1>5, <1>6, <1>7, <1>8, <1>9, <1>10 DEF Next

\* What a statement of any call leaves of a row that p has met: its own
\* instance's, a rival's, or none, which then was deleted by another call.
LEMMA SeenStays ==
  ASSUME TypeOK, TypeOK', NEW c \in Calls, NEW p \in Calls, Witness(c),
         rival[p] \/ undercut[p] \/ row.owner = Me(p),
         c = p => row' = row
  PROVE  rival'[p] \/ undercut'[p] \/ row'.owner = Me(p)
<1>1. CASE rival[p] \/ undercut[p]
  BY <1>1 DEF Witness, TypeOK
<1>2. CASE row.owner = Me(p)
  <2>1. CASE row'.owner \notin {Me(p), NoOwner}
    BY <2>1 DEF Witness, TypeOK
  <2>2. CASE row'.owner = NoOwner
    <3>1. ~LR!Present(row')
      BY <2>2, LeaseAssumption DEF TypeOK, LR!Present, LR!Lease, LR!NoLease
    <3>2. c # p
      BY <1>2, <2>2, MeIsOwner
    <3>3. Undercuts(p)
      BY <1>2, <3>1 DEF Undercuts
    <3>4. QED
      BY <3>2, <3>3 DEF Witness, TypeOK
  <2>3. QED
    BY <2>1, <2>2
<1>3. QED
  BY <1>1, <1>2

\* A row found by the INSERT is a rival's or of the caller's instance, until
\* another call of that instance deletes it.
LEMMA NextRivalSeen == TypeOK /\ RivalSeen /\ [Next]_vars => RivalSeen'
<1>1. SUFFICES ASSUME TypeOK, RivalSeen, [Next]_vars, NEW p \in Calls, pc'[p] = "update"
               PROVE  rival'[p] \/ undercut'[p] \/ row'.owner = Me(p)
  BY DEF RivalSeen, Me
<1> DEFINE Seen == rival'[p] \/ undercut'[p] \/ row'.owner = Me(p)
<1>2. TypeOK'
  BY <1>1, NextTypeOK
<1>3. ASSUME NEW c \in Calls, Start(c) \/ Die(c) PROVE Seen
  BY <1>1, <1>3 DEF Start, Die, Goto, RivalSeen, TypeOK
<1>4. ASSUME NEW c \in Calls, Insert(c) \/ Update(c) \/ Finish(c), c # p PROVE Seen
  <2>1. pc[p] = "update" /\ Witness(c)
    BY <1>1, <1>4 DEF Insert, Update, Finish, Answer, Goto, TypeOK
  <2>2. rival[p] \/ undercut[p] \/ row.owner = Me(p)
    BY <1>1, <2>1 DEF RivalSeen
  <2>3. QED
    BY <1>1, <1>2, <1>4, <2>1, <2>2, SeenStays
<1>5. ASSUME Insert(p) PROVE Seen
  <2>1. LR!Present(row) /\ row' = row /\ Witness(p)
    BY <1>1, <1>5 DEF Insert, Answer, Goto, TypeOK
  <2>2. row.owner \in Owners
    BY <1>1, <2>1 DEF TypeOK, LR!Lease, LR!Present
  <2>3. QED
    BY <1>1, <2>1, <2>2, LeaseAssumption DEF Witness, TypeOK
<1>6. ASSUME Update(p) \/ Finish(p) PROVE FALSE
  BY <1>1, <1>6 DEF Update, Finish, Answer, Goto, TypeOK
<1>7. CASE Tick \/ UNCHANGED vars
  BY <1>1, <1>7 DEF Tick, vars, RivalSeen
<1>8. QED
  BY <1>1, <1>3, <1>4, <1>5, <1>6, <1>7 DEF Next

\* The UPDATE of a call that still finds its own row is never refused.
LEMMA NextRefused == TypeOK /\ RivalSeen /\ RefusedOnlyByRival /\ [Next]_vars => RefusedOnlyByRival'
<1>1. SUFFICES ASSUME TypeOK, RivalSeen, RefusedOnlyByRival, [Next]_vars,
                      NEW p \in Calls, pc'[p] = "refused"
               PROVE  rival'[p] \/ undercut'[p]
  BY DEF RefusedOnlyByRival
<1>2. ASSUME NEW c \in Calls, Start(c) \/ Die(c) PROVE rival'[p] \/ undercut'[p]
  BY <1>1, <1>2 DEF Start, Die, Goto, RefusedOnlyByRival, TypeOK
<1>3. ASSUME NEW c \in Calls, Insert(c) \/ Finish(c) PROVE rival'[p] \/ undercut'[p]
  BY <1>1, <1>3 DEF Insert, Finish, Answer, Goto, Witness, RefusedOnlyByRival, TypeOK
<1>4. ASSUME NEW c \in Calls, Update(c) PROVE rival'[p] \/ undercut'[p]
  <2>1. CASE c = p /\ row.owner = Me(p)
    <3>1. LR!Claimable(row, Me(c), now[c])
      BY <2>1, MeIsOwner DEF LR!Claimable, LR!Present, LR!NoLease
    <3>2. QED
      BY <1>1, <1>4, <2>1, <3>1 DEF Update, Answer, Goto, TypeOK
  <2>2. CASE c = p /\ row.owner # Me(p)
    BY <1>1, <1>4, <2>2 DEF Update, Answer, Goto, Witness, RivalSeen, TypeOK
  <2>3. CASE c # p
    BY <1>1, <1>4, <2>3 DEF Update, Answer, Goto, Witness, RefusedOnlyByRival, TypeOK
  <2>4. QED
    BY <2>1, <2>2, <2>3
<1>5. CASE Tick \/ UNCHANGED vars
  BY <1>1, <1>5 DEF Tick, vars, RefusedOnlyByRival
<1>6. QED
  BY <1>1, <1>2, <1>3, <1>4, <1>5 DEF Next

\* What AcquireLease answers holds, whatever other calls do between its
\* statements and after: "true" is worth its time to live unless a call of the
\* same instance cut it short, and "false" means that a rival had the row or
\* that a call of the same instance released it meanwhile.
THEOREM GrantHolds == Spec => []IInv
<1>1. IInv /\ [Next]_vars => IInv'
  BY NextTypeOK, NextNowInPast, NextGrantCovers, NextRivalSeen, NextRefused DEF IInv
<1>2. QED
  BY <1>1, InitIInv, PTL DEF Spec

-----------------------------------------------------------------------------
\* What the answers are worth where nothing of the same instance can interfere:
\* as GrantCovers and RefusedOnlyByRival, with no exception.
GrantWhole ==
  \A c \in Calls :
    /\ pc[c] = "held" /\ clock + MaxSkew <= now[c] + TTL =>
         row.owner = Me(c) /\ row.expires >= now[c] + TTL
    /\ pc[c] = "refused" => rival[c]

\* A row of the holder's instance ends no sooner than was granted.
GrantKept ==
  \A c \in Calls : pc[c] = "held" /\ row.owner = Me(c) => row.expires >= now[c] + TTL

Uncut == \A c \in Calls : ~undercut[c]

AloneInv == GrantKept /\ Uncut

\* A statement run for another owner leaves a row of p's owner to that owner as
\* it is.
LEMMA OthersRowStays ==
  ASSUME TypeOK, NEW c \in Calls, NEW p \in Calls, Me(c) # Me(p),
         Insert(c) \/ Update(c) \/ Finish(c),
         (row.owner = Me(p) /\ ~LR!Present(row')) \/ row'.owner = Me(p)
  PROVE  row' = row
<1>1. CASE Finish(c)
  <2>1. row' = row \/ (row.owner = Me(c) /\ row' = LR!NoLease)
    BY <1>1 DEF Finish, LR!Released
  <2>2. QED
    BY <2>1, MeIsOwner DEF LR!NoLease
<1>2. CASE Insert(c) \/ Update(c)
  <2>1. row' = row \/ row' = LR!Acquired(Me(c), now[c], TTL)
    BY <1>2 DEF Insert, Update
  <2>2. QED
    BY <2>1, AcquiredType, MeIsOwner DEF TypeOK
<1>3. QED
  BY <1>1, <1>2

\* A grant stays what it was, and no call is undercut, by the calls of others.
LEMMA NextAlone == OneCallEach /\ TypeOK /\ AloneInv /\ [Next]_vars => AloneInv'
<1>1. SUFFICES ASSUME OneCallEach, TypeOK, AloneInv, [Next]_vars, NEW p \in Calls
               PROVE  /\ ~undercut'[p]
                      /\ pc'[p] = "held" /\ row'.owner = Me(p) => row'.expires >= now'[p] + TTL
  BY DEF AloneInv, Uncut, GrantKept, Me
<1> DEFINE Kept == pc'[p] = "held" /\ row'.owner = Me(p) => row'.expires >= now'[p] + TTL
<1>2. ~undercut[p] /\ (pc[p] = "held" /\ row.owner = Me(p) => row.expires >= now[p] + TTL)
  BY <1>1 DEF AloneInv, Uncut, GrantKept
<1>3. ASSUME NEW c \in Calls, Start(c) \/ Die(c) PROVE ~undercut'[p] /\ Kept
  BY <1>1, <1>2, <1>3 DEF Start, Die, Goto, TypeOK
<1>4. ASSUME NEW c \in Calls, Insert(c) \/ Update(c) \/ Finish(c), c # p
      PROVE  ~undercut'[p] /\ Kept
  <2>1. Me(c) # Me(p)
    BY <1>1, <1>4 DEF OneCallEach
  <2>2. pc'[p] = pc[p] /\ now' = now /\ Witness(c)
    BY <1>1, <1>4 DEF Insert, Update, Finish, Answer, Goto, TypeOK
  <2>3. Kept
    BY <1>1, <1>2, <1>4, <2>1, <2>2, OthersRowStays
  <2>4. ~Undercuts(p)
    <3>1. SUFFICES ASSUME Undercuts(p) PROVE FALSE
      OBVIOUS
    <3>2. row' = row
      BY <1>1, <1>4, <2>1, <3>1, OthersRowStays DEF Undercuts
    <3>3. pc[p] = "held" /\ row.owner = Me(p) /\ row.expires < now[p] + TTL
      BY <3>1, <3>2, MeIsOwner DEF Undercuts, LR!Present, LR!NoLease
    <3>4. row.expires \in Int /\ now[p] + TTL \in Int
      BY <1>1, LeaseAssumption DEF TypeOK, LR!Lease, LR!NoLease
    <3>5. QED
      BY <1>2, <3>3, <3>4
  <2>5. QED
    BY <1>1, <1>2, <2>2, <2>3, <2>4 DEF Witness, TypeOK
<1>5. ASSUME Insert(p) \/ Update(p) \/ Finish(p) PROVE ~undercut'[p] /\ Kept
  <2>1. ~undercut'[p]
    BY <1>1, <1>2, <1>5 DEF Insert, Update, Finish, Witness, TypeOK
  <2>2. pc'[p] = "held" => row' = LR!Acquired(Me(p), now[p], TTL) /\ now' = now
    BY <1>1, <1>5 DEF Insert, Update, Finish, Answer, Goto, TypeOK
  <2>3. now[p] + TTL \in Int /\ now[p] \in Int
    BY <1>1, LeaseAssumption DEF TypeOK
  <2>4. QED
    BY <2>1, <2>2, <2>3, AcquiredType, MeIsOwner
<1>6. CASE Tick \/ UNCHANGED vars
  BY <1>1, <1>2, <1>6 DEF Tick, vars
<1>7. QED
  BY <1>1, <1>3, <1>4, <1>5, <1>6 DEF Next

\* Where no two calls share an instance, as on the leader lease, which only the
\* ticker of an instance takes and which is never released, the answers of
\* AcquireLease are worth what they say with no exception.
THEOREM GrantAlone == OneCallEach /\ Spec => []GrantWhole
<1>1. SUFFICES ASSUME OneCallEach PROVE Spec => []GrantWhole
  OBVIOUS
<1>2. Init => AloneInv
  BY DEF Init, AloneInv, GrantKept, Uncut
<1>3. IInv /\ AloneInv /\ [Next]_vars => AloneInv'
  BY <1>1, NextAlone DEF IInv
<1>4. IInv /\ AloneInv => GrantWhole
  BY DEF IInv, AloneInv, Uncut, GrantCovers, RefusedOnlyByRival, GrantWhole
<1>5. QED
  BY <1>2, <1>3, <1>4, GrantHolds, PTL DEF Spec

-----------------------------------------------------------------------------
\* A step of the two statements is a step of the lock, or none.
LEMMA LockStep == IInv /\ [Next]_vars => [Lock!Next]_<<clock, row>>
<1>1. SUFFICES ASSUME IInv, [Next]_vars PROVE [Lock!Next]_<<clock, row>>
  OBVIOUS
<1>2. TypeOK /\ NowInPast
  BY <1>1 DEF IInv
<1>3. ASSUME NEW c \in Calls, pc[c] # "idle", UNCHANGED clock,
             LR!MayAcquire(row, Me(c), now[c]), row' = LR!Acquired(Me(c), now[c], TTL)
      PROVE  Lock!Take(Me(c))
  <2>1. now[c] <= Local(Me(c)) /\ now[c] \in Int /\ Local(Me(c)) \in Int
    BY <1>2, <1>3, LocalBounds, MeIsOwner DEF NowInPast, TypeOK
  <2>2. row'.owner = Me(c) /\ row'.expires <= Local(Me(c)) + TTL
    BY <1>3, <2>1, AcquiredType, MeIsOwner, LeaseAssumption
  <2>3. row = Lock!Free \/ row.owner = Me(c) \/ row.expires < now[c]
    BY <1>3 DEF LR!MayAcquire, LR!Claimable, LR!Present, LR!NoLease, Lock!Free
  <2>4. row = Lock!Free \/ row.expires \in Int
    BY <1>2 DEF TypeOK, LR!Lease, LR!NoLease, Lock!Free
  <2>5. QED
    BY <1>3, <2>1, <2>2, <2>3, <2>4 DEF Lock!Take, Lock!Local, Local
<1>4. CASE Tick
  BY <1>4 DEF Tick, Lock!Next, Lock!Tick
<1>5. ASSUME NEW c \in Calls, Start(c) \/ Die(c) PROVE UNCHANGED <<clock, row>>
  BY <1>5 DEF Start, Die
<1>6. ASSUME NEW c \in Calls, Insert(c) \/ Update(c)
      PROVE  Lock!Take(Me(c)) \/ UNCHANGED <<clock, row>>
  BY <1>3, <1>6 DEF Insert, Update, LR!MayAcquire
<1>7. ASSUME NEW c \in Calls, Finish(c)
      PROVE  Lock!Drop(Me(c)) \/ UNCHANGED <<clock, row>>
  BY <1>7 DEF Finish, LR!Released, LR!NoLease, Lock!Drop, Lock!Free
<1>8. CASE UNCHANGED vars
  BY <1>8 DEF vars
<1>9. QED
  BY <1>1, <1>4, <1>5, <1>6, <1>7, <1>8, MeIsOwner DEF Next, Lock!Next

\* AcquireLease in two statements implements the lock with a time limit.
THEOREM TwoStatementsImplementLock == Spec => ImplementsLock
<1>1. Init => Lock!Init
  BY DEF Init, Lock!Init, LR!NoLease, Lock!Free
<1>2. QED
  BY <1>1, GrantHolds, LockStep, PTL DEF Spec, ImplementsLock, Lock!Spec
=============================================================================
