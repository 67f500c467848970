-------------------------- MODULE CheckerPool_proofs --------------------------
(***************************************************************************)
(* Proofs about the checker pool for any number of requests, slots, files  *)
(* and calls.                                                              *)
(***************************************************************************)
EXTENDS CheckerPool, TLAPS, FiniteSetTheorems

(***************************************************************************)
(* The strengthening.  Each conjunct ties two pieces of the pool's state   *)
(* together; ExclusiveLease alone is not inductive because a step consults *)
(* the slots, the marks and the associations, not the leases.              *)
(***************************************************************************)

\* No two slots hold the same checker.
SlotsDistinct == \A i, j \in Filled : checkers[i] = checkers[j] => i = j

\* The outermost lease of a request names a slot whose checker is in use.
OutermostIsReal ==
    \A r \in Request : leases[r] # <<>> =>
        /\ leases[r][1].index \in Slot
        /\ checkers[leases[r][1].index] = leases[r][1].checker
        /\ leases[r][1].checker \in inUse

\* A lease nested in another repeats its checker and has nothing to release.
NestedIsNoop ==
    \A r \in Request : \A n \in 2 .. Len(leases[r]) :
        /\ leases[r][n].checker = leases[r][1].checker
        /\ leases[r][n].index = NoSlot

\* The associations of the requests that have an ID are exactly their leases.
AssociationIsLease ==
    \A r \in Request :
        requestAssociations[r] = IF leases[r] = <<>> \/ r \in Anonymous
                                 THEN NoSlot ELSE leases[r][1].index

\* Two requests never lease the same slot.
SlotsExclusive ==
    \A r, q \in Request :
        (leases[r] # <<>> /\ leases[q] # <<>> /\ leases[r][1].index = leases[q][1].index)
            => r = q

\* A waiting request holds nothing, an anonymous one at most one checker.
WaitsEmptyHanded ==
    \A r \in Request :
        /\ pc[r] \in {"parked", "woken"} => leases[r] = <<>>
        /\ r \in Anonymous => Len(leases[r]) <= 1 /\ pc[r] # "looked"

IInv ==
    /\ TypeOK
    /\ SlotsDistinct
    /\ OutermostIsReal
    /\ NestedIsNoop
    /\ AssociationIsLease
    /\ SlotsExclusive
    /\ WaitsEmptyHanded
    /\ UnlockedLookIsCurrent

-----------------------------------------------------------------------------
\* A request that holds nothing is lent the checker c of slot i, which no lease
\* names: the common effect of TakeIdle and createCheckerLocked.
LEMMA LendPreserves ==
    ASSUME IInv, NEW r \in Request, NEW k \in Call, NEW i \in Slot, NEW c \in Checker,
           leases[r] = <<>>,
           checkers' \in [Slot -> Checker \cup {NoChecker}],
           checkers'[i] = c,
           \A j \in Slot : j # i => checkers'[j] = checkers[j] /\ checkers[j] # c,
           \A q \in Request : leases[q] # <<>> => leases[q][1].index # i,
           inUse' = inUse \cup {c},
           Associate(r, i), AssociateFile(k, i), Push(r, k, i, c),
           wasCanceled' \subseteq Checker,
           call' \in [Request -> Call],
           seen' \in [Request -> Slot \cup {NoSlot}],
           \A q \in Request : q # r => seen'[q] = seen[q],
           ctxCanceled' \subseteq Request,
           calls' \in [Request -> 0 .. MaxCalls]
    PROVE  IInv'
<1> DEFINE l == [index |-> i, checker |-> c, early |-> k.early]
<1>1. l \in Lease
    BY DEF Lease, Call
<1>2. /\ leases'[r] # <<>> /\ Len(leases'[r]) = 1
      /\ leases'[r][1].index = i /\ leases'[r][1].checker = c
      /\ \A q \in Request : q # r => leases'[q] = leases[q]
  <2>1. leases' = [leases EXCEPT ![r] = <<l>>]
      BY DEF Push
  <2>2. QED
      BY <2>1 DEF IInv, TypeOK
<1>3. /\ pc'[r] = "running"
      /\ \A q \in Request : q # r => pc'[q] = pc[q]
    BY DEF IInv, TypeOK, Push
<1>4. TypeOK'
  <2>1. leases' \in [Request -> Seq(Lease)]
      BY <1>1 DEF IInv, TypeOK, Push
  <2>2. using' \in [Request -> Checker \cup {NoChecker}]
      BY DEF IInv, TypeOK, Push
  <2>3. pc' \in [Request -> {"running", "looked", "parked", "woken", "done"}]
      BY DEF IInv, TypeOK, Push
  <2>4. fileAssociations' \in [File -> Slot \cup {NoSlot}]
      BY DEF IInv, TypeOK, AssociateFile, Call
  <2>5. requestAssociations' \in [Request -> Slot \cup {NoSlot}]
      BY DEF IInv, TypeOK, Associate
  <2>6. inUse' \subseteq Checker
      BY DEF IInv, TypeOK
  <2>7. QED
      BY <2>1, <2>2, <2>3, <2>4, <2>5, <2>6 DEF TypeOK
<1>5. SlotsDistinct'
    BY DEF IInv, SlotsDistinct, Filled
<1>6. OutermostIsReal'
  <2> SUFFICES ASSUME NEW q \in Request, leases'[q] # <<>>
               PROVE  /\ leases'[q][1].index \in Slot
                      /\ checkers'[leases'[q][1].index] = leases'[q][1].checker
                      /\ leases'[q][1].checker \in inUse'
      BY DEF OutermostIsReal
  <2>1. CASE q = r
      BY <2>1, <1>2
  <2>2. CASE q # r
      BY <2>2, <1>2 DEF IInv, OutermostIsReal
  <2>3. QED
      BY <2>1, <2>2
<1>7. NestedIsNoop'
    BY <1>2 DEF IInv, NestedIsNoop
<1>8. AssociationIsLease'
    BY <1>2 DEF IInv, TypeOK, AssociationIsLease, Associate
<1>9. SlotsExclusive'
  <2> SUFFICES ASSUME NEW p \in Request, NEW q \in Request,
                      leases'[p] # <<>>, leases'[q] # <<>>,
                      leases'[p][1].index = leases'[q][1].index
               PROVE  p = q
      BY DEF SlotsExclusive
  <2>1. CASE p = r \/ q = r
      BY <2>1, <1>2
  <2>2. CASE p # r /\ q # r
      BY <2>2, <1>2 DEF IInv, SlotsExclusive
  <2>3. QED
      BY <2>1, <2>2
<1>10. WaitsEmptyHanded'
  <2> SUFFICES ASSUME NEW q \in Request
               PROVE  /\ pc'[q] \in {"parked", "woken"} => leases'[q] = <<>>
                      /\ q \in Anonymous => Len(leases'[q]) <= 1 /\ pc'[q] # "looked"
      BY DEF WaitsEmptyHanded
  <2>1. CASE q = r
      BY <2>1, <1>2, <1>3
  <2>2. CASE q # r
      BY <2>2, <1>2, <1>3 DEF IInv, WaitsEmptyHanded
  <2>3. QED
      BY <2>1, <2>2
<1>11. UnlockedLookIsCurrent'
    BY <1>3 DEF IInv, TypeOK, UnlockedLookIsCurrent, Associate
<1>12. QED
    BY <1>4, <1>5, <1>6, <1>7, <1>8, <1>9, <1>10, <1>11 DEF IInv

\* A request that holds its checker is handed it once more, with a release that
\* does nothing.
LEMMA SharePreserves ==
    ASSUME IInv, NEW r \in Request, r \notin Anonymous,
           getRequestCheckerLocked(r, requestAssociations[r]),
           Finds(requestAssociations[r]),
           seen' \in [Request -> Slot \cup {NoSlot}],
           \A q \in Request : q # r => seen'[q] = seen[q],
           UNCHANGED ctxCanceled,
           calls' \in [Request -> 0 .. MaxCalls]
    PROVE  IInv'
<1> DEFINE i == requestAssociations[r]
           s == leases[r]
           l == [index |-> NoSlot, checker |-> checkers[i], early |-> FALSE]
<1>1. /\ s # <<>> /\ s \in Seq(Lease)
      /\ i \in Slot /\ checkers[i] \in inUse /\ checkers[i] = s[1].checker
      /\ s[1].index = i
    BY DEF IInv, TypeOK, OutermostIsReal, AssociationIsLease, Finds, Filled, NoSlot, Slot
<1>2. l \in Lease
    BY <1>1 DEF Lease, IInv, TypeOK
<1>3. /\ leases' = [leases EXCEPT ![r] = Append(s, l)]
      /\ pc' = [pc EXCEPT ![r] = "running"]
      /\ using' = [using EXCEPT ![r] = checkers[i]]
      /\ UNCHANGED <<checkers, inUse, fileAssociations, requestAssociations, wasCanceled, call>>
    BY <1>1 DEF getRequestCheckerLocked, Push, NoCall
<1>4. /\ leases'[r] # <<>> /\ Len(leases'[r]) = Len(s) + 1
      /\ leases'[r][1] = s[1]
      /\ \A n \in 1 .. Len(s) : leases'[r][n] = s[n]
      /\ leases'[r][Len(s) + 1] = l
      /\ \A q \in Request : q # r => leases'[q] = leases[q]
  <2>1. leases'[r] = Append(s, l) /\ \A q \in Request : q # r => leases'[q] = leases[q]
      BY <1>3 DEF IInv, TypeOK
  <2>2. Len(s) \in Nat \ {0}
      BY <1>1
  <2> HIDE DEF s, l
  <2>3. /\ Len(Append(s, l)) = Len(s) + 1
        /\ \A n \in 1 .. Len(s) : Append(s, l)[n] = s[n]
        /\ Append(s, l)[Len(s) + 1] = l
        /\ Append(s, l) # <<>>
      BY <1>1, <1>2
  <2>4. Append(s, l)[1] = s[1]
      BY <2>2, <2>3
  <2>5. QED
      BY <2>1, <2>3, <2>4
<1>5. /\ pc'[r] = "running"
      /\ \A q \in Request : q # r => pc'[q] = pc[q]
    BY <1>3 DEF IInv, TypeOK
<1>6. TypeOK'
  <2>1. leases' \in [Request -> Seq(Lease)]
      BY <1>1, <1>2, <1>3 DEF IInv, TypeOK
  <2>2. using' \in [Request -> Checker \cup {NoChecker}]
      BY <1>1, <1>3 DEF IInv, TypeOK
  <2>3. pc' \in [Request -> {"running", "looked", "parked", "woken", "done"}]
      BY <1>3 DEF IInv, TypeOK
  <2>4. QED
      BY <1>3, <2>1, <2>2, <2>3 DEF IInv, TypeOK
<1>7. SlotsDistinct'
    BY <1>3 DEF IInv, SlotsDistinct, Filled
<1>8. OutermostIsReal'
  <2> SUFFICES ASSUME NEW q \in Request, leases'[q] # <<>>
               PROVE  /\ leases'[q][1].index \in Slot
                      /\ checkers[leases'[q][1].index] = leases'[q][1].checker
                      /\ leases'[q][1].checker \in inUse
      BY <1>3 DEF OutermostIsReal
  <2>1. CASE q = r
      BY <2>1, <1>1, <1>4
  <2>2. CASE q # r
      BY <2>2, <1>4 DEF IInv, OutermostIsReal
  <2>3. QED
      BY <2>1, <2>2
<1>9. NestedIsNoop'
  <2> SUFFICES ASSUME NEW q \in Request, NEW n \in 2 .. Len(leases'[q])
               PROVE  /\ leases'[q][n].checker = leases'[q][1].checker
                      /\ leases'[q][n].index = NoSlot
      BY DEF NestedIsNoop
  <2>1. CASE q # r
      BY <2>1, <1>4 DEF IInv, NestedIsNoop
  <2>2. CASE q = r /\ n = Len(s) + 1
      BY <2>2, <1>1, <1>4
  <2>3. CASE q = r /\ n # Len(s) + 1
    <3>1. n \in 2 .. Len(s)
        BY <2>3, <1>1, <1>4
    <3>2. QED
        BY <2>3, <3>1, <1>4 DEF IInv, NestedIsNoop
  <2>4. QED
      BY <2>1, <2>2, <2>3
<1>10. AssociationIsLease'
    BY <1>1, <1>3, <1>4 DEF IInv, AssociationIsLease
<1>11. SlotsExclusive'
  <2>1. \A q \in Request : leases'[q] # <<>> =>
            leases[q] # <<>> /\ leases'[q][1].index = leases[q][1].index
    <3> TAKE q \in Request
    <3>1. CASE q = r
        BY <1>1, <1>4, <3>1
    <3>2. CASE q # r
        BY <1>4, <3>2
    <3>3. QED
        BY <3>1, <3>2
  <2>2. QED
      BY <2>1 DEF IInv, SlotsExclusive
<1>12. WaitsEmptyHanded'
    BY <1>4, <1>5 DEF IInv, WaitsEmptyHanded
<1>13. UnlockedLookIsCurrent'
    BY <1>3, <1>5 DEF IInv, UnlockedLookIsCurrent
<1>14. QED
    BY <1>6, <1>7, <1>8, <1>9, <1>10, <1>11, <1>12, <1>13 DEF IInv

\* A step that leaves the slots, the marks, the associations and the leases
\* alone, and puts no holder to sleep.
LEMMA BystanderPreserves ==
    ASSUME IInv, TypeOK', UnlockedLookIsCurrent', WaitsEmptyHanded',
           UNCHANGED <<checkers, inUse, requestAssociations, leases>>
    PROVE  IInv'
BY DEF IInv, SlotsDistinct, Filled, OutermostIsReal, NestedIsNoop,
       AssociationIsLease, SlotsExclusive

\* Dropping the last element of a sequence keeps the others.
LEMMA Dropped ==
    ASSUME NEW S, NEW s \in Seq(S), Len(s) \in Nat \ {0, 1}
    PROVE  LET t == SubSeq(s, 1, Len(s) - 1)
           IN  /\ t \in Seq(S) /\ Len(t) = Len(s) - 1 /\ t # <<>>
               /\ \A n \in 1 .. Len(t) : t[n] = s[n]
<1>1. Len(s) \in Nat /\ Len(s) - 1 \in Nat
    OBVIOUS
<1>2. \A n \in 1 .. Len(s) : s[n] \in S
    OBVIOUS
<1>3. SubSeq(s, 1, Len(s) - 1) = [n \in 1 .. Len(s) - 1 |-> s[n]]
    BY <1>1
<1>4. SubSeq(s, 1, Len(s) - 1) \in Seq(S)
    BY <1>1, <1>2, <1>3
<1>5. Len(SubSeq(s, 1, Len(s) - 1)) = Len(s) - 1
  <2>1. \A m \in Nat : Len([n \in 1 .. m |-> s[n]]) = m
      OBVIOUS
  <2>2. QED
      BY <1>1, <1>3, <2>1
<1>6. ASSUME SubSeq(s, 1, Len(s) - 1) = <<>> PROVE FALSE
  <2>1. Len(s) - 1 = 0
      BY <1>5, <1>6
  <2>2. QED
      BY <1>1, <2>1
<1>7. \A n \in 1 .. Len(s) - 1 : SubSeq(s, 1, Len(s) - 1)[n] = s[n]
    BY <1>3
<1>8. QED
    BY <1>4, <1>5, <1>6, <1>7

\* The innermost lease of a request that has one.
LEMMA TopIsLease ==
    ASSUME TypeOK, NEW r \in Request, leases[r] # <<>>
    PROVE  Top(r) \in Lease /\ Len(leases[r]) \in Nat \ {0}
<1>1. leases[r] \in Seq(Lease)
    BY DEF TypeOK
<1>2. Len(leases[r]) \in Nat \ {0}
    BY <1>1
<1>3. QED
    BY <1>1, <1>2 DEF Top

\* A release that does nothing pops a nested lease.
LEMMA NoopReleasePreserves ==
    ASSUME IInv, NEW r \in Request, Release(r), Top(r).index = NoSlot
    PROVE  IInv'
<1> DEFINE s == leases[r]
           t == SubSeq(s, 1, Len(s) - 1)
<1>1. /\ s \in Seq(Lease) /\ s # <<>> /\ Len(s) \in Nat \ {0}
      /\ leases' = [leases EXCEPT ![r] = t]
      /\ UNCHANGED <<checkers, inUse, requestAssociations, pc, seen>>
    BY DEF Release, Pop, IInv, TypeOK, Slot, NoSlot
<1>2. Len(s) \in Nat \ {0, 1}
    BY <1>1 DEF IInv, OutermostIsReal, Top, Slot, NoSlot
<1>3. /\ t \in Seq(Lease) /\ Len(t) = Len(s) - 1 /\ t # <<>>
      /\ \A n \in 1 .. Len(t) : t[n] = s[n]
    BY <1>1, <1>2, Dropped
<1>4. t[1] = s[1]
    BY <1>1, <1>2, <1>3
<1> HIDE DEF t
<1>5. /\ leases'[r] = t
      /\ \A q \in Request : q # r => leases'[q] = leases[q]
    BY <1>1 DEF IInv, TypeOK
<1>6. TypeOK'
  <2>1. leases' \in [Request -> Seq(Lease)]
      BY <1>1, <1>3 DEF IInv, TypeOK
  <2>2. using' \in [Request -> Checker \cup {NoChecker}]
      BY <1>1, TopIsLease DEF Release, Pop, IInv, TypeOK, Lease
  <2>3. QED
      BY <1>1, <2>1, <2>2 DEF IInv, TypeOK, Release
<1>7. SlotsDistinct'
    BY <1>1 DEF IInv, SlotsDistinct, Filled
<1>8. OutermostIsReal'
    BY <1>1, <1>3, <1>4, <1>5 DEF IInv, OutermostIsReal
<1>9. NestedIsNoop'
  <2> SUFFICES ASSUME NEW q \in Request, NEW n \in 2 .. Len(leases'[q])
               PROVE  /\ leases'[q][n].checker = leases'[q][1].checker
                      /\ leases'[q][n].index = NoSlot
      BY DEF NestedIsNoop
  <2>1. CASE q # r
      BY <2>1, <1>5 DEF IInv, NestedIsNoop
  <2>2. CASE q = r
    <3>1. n \in 2 .. Len(s) /\ t[n] = s[n]
        BY <2>2, <1>1, <1>3, <1>5
    <3>2. QED
        BY <2>2, <3>1, <1>4, <1>5 DEF IInv, NestedIsNoop
  <2>3. QED
      BY <2>1, <2>2
<1>10. AssociationIsLease'
    BY <1>1, <1>3, <1>4, <1>5 DEF IInv, AssociationIsLease
<1>11. SlotsExclusive'
    BY <1>1, <1>4, <1>5 DEF IInv, SlotsExclusive
<1>12. WaitsEmptyHanded'
  <2> SUFFICES ASSUME NEW q \in Request
               PROVE  /\ pc'[q] \in {"parked", "woken"} => leases'[q] = <<>>
                      /\ q \in Anonymous => Len(leases'[q]) <= 1 /\ pc'[q] # "looked"
      BY DEF WaitsEmptyHanded
  <2>1. CASE q = r
      BY <2>1, <1>1, <1>2, <1>3, <1>5 DEF IInv, WaitsEmptyHanded
  <2>2. CASE q # r
      BY <2>2, <1>1, <1>5 DEF IInv, WaitsEmptyHanded
  <2>3. QED
      BY <2>1, <2>2
<1>13. UnlockedLookIsCurrent'
    BY <1>1 DEF IInv, UnlockedLookIsCurrent
<1>14. QED
    BY <1>6, <1>7, <1>8, <1>9, <1>10, <1>11, <1>12, <1>13 DEF IInv

\* The outermost release gives the checker back, disposes it if it was canceled
\* and signals a waiter.
LEMMA OuterReleasePreserves ==
    ASSUME IInv, NEW r \in Request, Release(r), Top(r).index # NoSlot
    PROVE  IInv'
<1> DEFINE s == leases[r]
           i == s[1].index
           c == s[1].checker
<1>1. /\ s \in Seq(Lease) /\ s # <<>> /\ Len(s) \in Nat \ {0}
      /\ pc[r] = "running"
      /\ leases' = [leases EXCEPT ![r] = SubSeq(s, 1, Len(s) - 1)]
    BY DEF Release, Pop, IInv, TypeOK
<1>2. Len(s) = 1 /\ Top(r) = s[1]
  <2>1. ASSUME Len(s) # 1 PROVE FALSE
    <3>1. \A n \in Nat \ {0} : n # 1 => n \in 2 .. n
        OBVIOUS
    <3>2. Len(s) \in 2 .. Len(s)
        BY <1>1, <2>1, <3>1
    <3>3. QED
        BY <3>2 DEF IInv, NestedIsNoop, Top
  <2>2. Len(s) = 1
      BY <2>1
  <2>3. QED
      BY <2>2 DEF Top
<1>3. i \in Slot /\ c \in inUse /\ checkers[i] = c /\ c \in Checker
    BY <1>1 DEF IInv, TypeOK, OutermostIsReal
<1>4. /\ leases'[r] = <<>>
      /\ \A q \in Request : q # r => leases'[q] = leases[q]
  <2>1. SubSeq(s, 1, 0) = <<>>
      BY <1>1
  <2>2. leases'[r] = SubSeq(s, 1, 0)
      BY <1>1, <1>2 DEF IInv, TypeOK
  <2>3. QED
      BY <1>1, <2>1, <2>2 DEF IInv, TypeOK
<1>5. /\ inUse' = inUse \ {c}
      /\ checkers' = IF c \in wasCanceled THEN [checkers EXCEPT ![i] = NoChecker]
                                          ELSE checkers
      /\ requestAssociations' = [requestAssociations EXCEPT ![r] = NoSlot]
      /\ Signal
      /\ UNCHANGED <<fileAssociations, wasCanceled, call, seen, ctxCanceled, calls>>
    BY <1>2 DEF Release, GiveBack, Dissociate
<1>6. /\ pc' \in [Request -> {"running", "looked", "parked", "woken", "done"}]
      /\ \A q \in Request : pc'[q] # pc[q] => pc[q] = "parked" /\ pc'[q] = "woken"
    BY <1>5 DEF Signal, Parked, IInv, TypeOK
<1> HIDE DEF i, c
<1>7. \A j \in Slot : j # i => checkers[j] # c /\ checkers'[j] = checkers[j]
  <2> TAKE j \in Slot
  <2>1. c # NoChecker
      BY <1>3, PoolAssumption
  <2>2. j # i => checkers[j] # c
      BY <1>3, <2>1 DEF IInv, SlotsDistinct, Filled
  <2>3. QED
      BY <1>3, <1>5, <2>2 DEF IInv, TypeOK
<1>8. TypeOK'
  <2>1. leases' \in [Request -> Seq(Lease)]
      BY <1>1, <1>2 DEF IInv, TypeOK
  <2>2. using' \in [Request -> Checker \cup {NoChecker}]
      BY <1>1, TopIsLease DEF Release, Pop, IInv, TypeOK, Lease
  <2>3. checkers' \in [Slot -> Checker \cup {NoChecker}]
      BY <1>5 DEF IInv, TypeOK
  <2>4. requestAssociations' \in [Request -> Slot \cup {NoSlot}]
      BY <1>5 DEF IInv, TypeOK
  <2>5. inUse' \subseteq Checker
      BY <1>5 DEF IInv, TypeOK
  <2>6. QED
      BY <1>5, <1>6, <2>1, <2>2, <2>3, <2>4, <2>5 DEF IInv, TypeOK
<1>9. SlotsDistinct'
    BY <1>3, <1>5 DEF IInv, TypeOK, SlotsDistinct, Filled
<1>10. OutermostIsReal'
  <2> SUFFICES ASSUME NEW q \in Request, leases'[q] # <<>>
               PROVE  /\ leases'[q][1].index \in Slot
                      /\ checkers'[leases'[q][1].index] = leases'[q][1].checker
                      /\ leases'[q][1].checker \in inUse'
      BY DEF OutermostIsReal
  <2>1. q # r /\ leases'[q] = leases[q]
      BY <1>4
  <2>2. leases[q][1].index # i
      BY <1>1, <2>1 DEF IInv, SlotsExclusive, i
  <2>3. QED
      BY <2>1, <2>2, <1>5, <1>7 DEF IInv, OutermostIsReal
<1>11. NestedIsNoop'
    BY <1>4 DEF IInv, NestedIsNoop
<1>12. AssociationIsLease'
    BY <1>4, <1>5 DEF IInv, TypeOK, AssociationIsLease
<1>13. SlotsExclusive'
    BY <1>4 DEF IInv, SlotsExclusive
<1>14. WaitsEmptyHanded'
  <2> SUFFICES ASSUME NEW q \in Request
               PROVE  /\ pc'[q] \in {"parked", "woken"} => leases'[q] = <<>>
                      /\ q \in Anonymous => Len(leases'[q]) <= 1 /\ pc'[q] # "looked"
      BY DEF WaitsEmptyHanded
  <2>1. pc'[q] \in {"parked", "woken"} => leases'[q] = <<>>
      BY <1>4, <1>6 DEF IInv, TypeOK, WaitsEmptyHanded
  <2>2. q \in Anonymous => pc'[q] # "looked"
      BY <1>6 DEF IInv, TypeOK, WaitsEmptyHanded
  <2>3. Len(leases'[q]) <= Len(leases[q])
      BY <1>1, <1>2, <1>4 DEF IInv, TypeOK
  <2>4. Len(leases[q]) \in Nat /\ Len(leases'[q]) \in Nat
      BY <1>1, <1>2, <1>4 DEF IInv, TypeOK
  <2>5. QED
      BY <2>1, <2>2, <2>3, <2>4 DEF IInv, WaitsEmptyHanded
<1>15. UnlockedLookIsCurrent'
    BY <1>1, <1>5, <1>6 DEF IInv, TypeOK, UnlockedLookIsCurrent
<1>16. QED
    BY <1>8, <1>9, <1>10, <1>11, <1>12, <1>13, <1>14, <1>15 DEF IInv

-----------------------------------------------------------------------------
\* A request the pool finds no checker for holds none.
LEMMA UnassociatedHoldsNothing ==
    ASSUME IInv, NEW r \in Request,
           r \in Anonymous => leases[r] = <<>>,
           ~Finds(requestAssociations[r])
    PROVE  leases[r] = <<>>
<1> SUFFICES ASSUME leases[r] # <<>>, r \notin Anonymous PROVE FALSE
    OBVIOUS
<1>1. leases[r] \in Seq(Lease)
    BY DEF IInv, TypeOK
<1>2. /\ requestAssociations[r] = leases[r][1].index
      /\ requestAssociations[r] \in Slot
      /\ checkers[requestAssociations[r]] \in inUse
    BY DEF IInv, AssociationIsLease, OutermostIsReal
<1>3. QED
    BY <1>2, PoolAssumption DEF Finds, Filled, IInv, TypeOK

\* Taking an idle checker preserves the invariant ...
LEMMA TakeIdlePreserves ==
    ASSUME IInv, NEW r \in Request, NEW k \in Call, NEW i \in Idle,
           leases[r] = <<>>, TakeIdle(r, k, i),
           call' \in [Request -> Call],
           seen' \in [Request -> Slot \cup {NoSlot}],
           \A q \in Request : q # r => seen'[q] = seen[q],
           UNCHANGED ctxCanceled,
           calls' \in [Request -> 0 .. MaxCalls]
    PROVE  IInv'
<1>1. i \in Slot /\ checkers[i] \in Checker /\ checkers[i] \notin inUse
    BY DEF Idle, Filled, IInv, TypeOK
<1>2. \A j \in Slot : j # i => checkers[j] # checkers[i]
    BY <1>1, PoolAssumption DEF IInv, SlotsDistinct, Filled
<1>3. \A q \in Request : leases[q] # <<>> => leases[q][1].index # i
    BY <1>1 DEF IInv, OutermostIsReal
<1>4. /\ checkers' = checkers /\ wasCanceled' = wasCanceled
      /\ inUse' = inUse \cup {checkers[i]}
      /\ Associate(r, i) /\ AssociateFile(k, i) /\ Push(r, k, i, checkers[i])
    BY DEF TakeIdle
<1>5. /\ checkers' \in [Slot -> Checker \cup {NoChecker}]
      /\ wasCanceled' \subseteq Checker
      /\ ctxCanceled' \subseteq Request
    BY <1>4 DEF IInv, TypeOK
<1>6. QED
    BY <1>1, <1>2, <1>3, <1>4, <1>5, LendPreserves

\* ... and so does creating one in an empty slot.
LEMMA CreatePreserves ==
    ASSUME IInv, NEW r \in Request, NEW k \in Call, NEW i \in Empty, NEW c \in Checker,
           leases[r] = <<>>, createCheckerLocked(r, k, i, c),
           call' \in [Request -> Call],
           seen' \in [Request -> Slot \cup {NoSlot}],
           \A q \in Request : q # r => seen'[q] = seen[q],
           UNCHANGED ctxCanceled,
           calls' \in [Request -> 0 .. MaxCalls]
    PROVE  IInv'
<1>1. i \in Slot /\ checkers[i] = NoChecker
    BY DEF Empty
<1>2. \A q \in Request : leases[q] # <<>> => leases[q][1].index # i
    BY <1>1, PoolAssumption DEF IInv, TypeOK, OutermostIsReal
<1>3. /\ checkers' = [checkers EXCEPT ![i] = c]
      /\ wasCanceled' = wasCanceled \ {c}
      /\ inUse' = inUse \cup {c}
      /\ Associate(r, i) /\ AssociateFile(k, i) /\ Push(r, k, i, c)
    BY DEF createCheckerLocked
<1>4. /\ checkers' \in [Slot -> Checker \cup {NoChecker}]
      /\ checkers'[i] = c
      /\ wasCanceled' \subseteq Checker
      /\ ctxCanceled' \subseteq Request
    BY <1>1, <1>3 DEF IInv, TypeOK
<1>5. \A j \in Slot : j # i => checkers'[j] = checkers[j] /\ checkers[j] # c
    BY <1>1, <1>3 DEF createCheckerLocked, Fresh, IInv, TypeOK
<1>6. QED
    BY <1>1, <1>2, <1>3, <1>4, <1>5, LendPreserves

\* A request without a checker that asks for one gets it or waits.
LEMMA GetPreserves ==
    ASSUME IInv, NEW r \in Request, NEW k \in Call,
           leases[r] = <<>>, getCheckerLocked(r, k),
           seen' \in [Request -> Slot \cup {NoSlot}],
           \A q \in Request : q # r => seen'[q] = seen[q],
           UNCHANGED ctxCanceled,
           calls' \in [Request -> 0 .. MaxCalls]
    PROVE  IInv'
<1>1. ASSUME NEW i \in Slot, IsFirst(i, Idle), TakeIdle(r, k, i), UNCHANGED call
      PROVE  IInv'
  <2>1. i \in Idle
      BY <1>1 DEF IsFirst
  <2>2. call' \in [Request -> Call]
      BY <1>1 DEF IInv, TypeOK
  <2>3. QED
      BY <1>1, <2>1, <2>2, TakeIdlePreserves
<1>2. ASSUME NEW i \in Slot, IsFirst(i, Empty), NEW c \in Checker,
             createCheckerLocked(r, k, i, c), UNCHANGED call
      PROVE  IInv'
  <2>1. i \in Empty
      BY <1>2 DEF IsFirst
  <2>2. call' \in [Request -> Call]
      BY <1>2 DEF IInv, TypeOK
  <2>3. QED
      BY <1>2, <2>1, <2>2, CreatePreserves
<1>3. ASSUME Park(r, k)
      PROVE  IInv'
  <2>1. /\ UNCHANGED <<checkers, inUse, fileAssociations, requestAssociations,
                       wasCanceled, leases, using>>
        /\ pc' = [pc EXCEPT ![r] = "parked"]
        /\ call' = [call EXCEPT ![r] = k]
      BY <1>3 DEF Park, poolVars
  <2>2. TypeOK'
      BY <2>1 DEF IInv, TypeOK
  <2>3. WaitsEmptyHanded'
      BY <2>1 DEF IInv, TypeOK, WaitsEmptyHanded
  <2>4. UnlockedLookIsCurrent'
      BY <2>1 DEF IInv, TypeOK, UnlockedLookIsCurrent
  <2>5. QED
      BY <2>1, <2>2, <2>3, <2>4, BystanderPreserves
<1>4. QED
    BY <1>1, <1>2, <1>3 DEF getCheckerLocked

-----------------------------------------------------------------------------
\* The invariant holds of an empty pool.
LEMMA InitEstablishes == Init => IInv
<1> SUFFICES ASSUME Init PROVE IInv
    OBVIOUS
<1>1. TypeOK
    BY PoolAssumption DEF Init, TypeOK, Call, NoCall, Slot, NoSlot
<1>2. \A r \in Request : leases[r] = <<>> /\ Len(leases[r]) = 0
    BY DEF Init
<1>3. SlotsDistinct /\ OutermostIsReal /\ NestedIsNoop /\ SlotsExclusive
    BY <1>2 DEF Init, SlotsDistinct, Filled, OutermostIsReal, NestedIsNoop, SlotsExclusive
<1>4. AssociationIsLease /\ WaitsEmptyHanded /\ UnlockedLookIsCurrent
    BY <1>2 DEF Init, AssociationIsLease, WaitsEmptyHanded, UnlockedLookIsCurrent
<1>5. QED
    BY <1>1, <1>3, <1>4 DEF IInv

\* No step of a handler breaks the invariant.
LEMMA NextPreserves == IInv /\ [Next]_vars => IInv'
<1> SUFFICES ASSUME IInv, [Next]_vars PROVE IInv'
    OBVIOUS
<1>1. ASSUME NEW r \in Request, NEW f \in File, GetCheckerForFile(r, f)
      PROVE  IInv'
  <2> DEFINE k == [file |-> f, early |-> FALSE]
  <2>1. /\ UNCHANGED <<seen, ctxCanceled>>
        /\ seen' \in [Request -> Slot \cup {NoSlot}]
        /\ calls' \in [Request -> 0 .. MaxCalls]
        /\ r \in Anonymous => leases[r] = <<>>
      BY <1>1, PoolAssumption DEF GetCheckerForFile, StartCall, IInv, TypeOK
  <2>2. k \in Call
      BY DEF Call
  <2>3. CASE /\ Finds(requestAssociations[r])
             /\ getRequestCheckerLocked(r, requestAssociations[r])
    <3>1. r \notin Anonymous
        BY <2>3 DEF IInv, AssociationIsLease, Finds, Filled, Slot, NoSlot
    <3>2. QED
        BY <2>1, <2>3, <3>1, SharePreserves
  <2>4. CASE /\ ~Finds(requestAssociations[r])
             /\ fileAssociations[f] \in Idle
             /\ TakeIdle(r, k, fileAssociations[f])
             /\ UNCHANGED call
    <3>1. leases[r] = <<>>
        BY <2>1, <2>4, UnassociatedHoldsNothing
    <3>2. call' \in [Request -> Call]
        BY <2>4 DEF IInv, TypeOK
    <3> HIDE DEF k
    <3>3. QED
        BY <2>1, <2>2, <2>4, <3>1, <3>2, TakeIdlePreserves
  <2>5. CASE ~Finds(requestAssociations[r]) /\ getCheckerLocked(r, k)
    <3>1. leases[r] = <<>>
        BY <2>1, <2>5, UnassociatedHoldsNothing
    <3> HIDE DEF k
    <3>2. QED
        BY <2>1, <2>2, <2>5, <3>1, GetPreserves
  <2>6. QED
      BY <1>1, <2>3, <2>4, <2>5 DEF GetCheckerForFile
<1>2. ASSUME NEW r \in Request, GetChecker(r)
      PROVE  IInv'
  <2> DEFINE k == [file |-> NoFile, early |-> r \in StringCompletion]
  <2>1. /\ UNCHANGED <<seen, ctxCanceled>>
        /\ seen' \in [Request -> Slot \cup {NoSlot}]
        /\ calls' \in [Request -> 0 .. MaxCalls]
        /\ leases[r] = <<>>
        /\ getCheckerLocked(r, k)
      BY <1>2, PoolAssumption DEF GetChecker, StartCall, IInv, TypeOK
  <2>2. k \in Call
      BY DEF Call
  <2> HIDE DEF k
  <2>3. QED
      BY <2>1, <2>2, GetPreserves
<1>3. ASSUME NEW r \in Request, GetAllCheckersLook(r)
      PROVE  IInv'
  <2>1. /\ UNCHANGED <<checkers, inUse, fileAssociations, requestAssociations,
                       wasCanceled, call, leases, using, ctxCanceled>>
        /\ pc' = [pc EXCEPT ![r] = "looked"]
        /\ seen' = [seen EXCEPT ![r] = requestAssociations[r]]
        /\ calls' \in [Request -> 0 .. MaxCalls]
      BY <1>3, PoolAssumption DEF GetAllCheckersLook, StartCall, poolVars, IInv, TypeOK
  <2>2. TypeOK'
      BY <2>1 DEF IInv, TypeOK
  <2>3. WaitsEmptyHanded'
      BY <1>3, <2>1 DEF GetAllCheckersLook, IInv, TypeOK, WaitsEmptyHanded
  <2>4. UnlockedLookIsCurrent'
      BY <2>1 DEF IInv, TypeOK, UnlockedLookIsCurrent
  <2>5. QED
      BY <2>1, <2>2, <2>3, <2>4, BystanderPreserves
<1>4. ASSUME NEW r \in Request, GetAllCheckersTake(r)
      PROVE  IInv'
  <2>1. /\ seen[r] = requestAssociations[r]
        /\ r \notin Anonymous
        /\ seen' \in [Request -> Slot \cup {NoSlot}]
        /\ \A q \in Request : q # r => seen'[q] = seen[q]
        /\ UNCHANGED ctxCanceled
        /\ calls' \in [Request -> 0 .. MaxCalls]
      BY <1>4 DEF GetAllCheckersTake, IInv, TypeOK, UnlockedLookIsCurrent, WaitsEmptyHanded
  <2>2. CASE Finds(seen[r]) /\ getRequestCheckerLocked(r, seen[r])
      BY <2>1, <2>2, SharePreserves
  <2>3. CASE ~Finds(seen[r]) /\ getCheckerLocked(r, NoCall)
    <3>1. leases[r] = <<>>
        BY <2>1, <2>3, UnassociatedHoldsNothing
    <3>2. NoCall \in Call
        BY DEF NoCall, Call
    <3>3. QED
        BY <2>1, <2>3, <3>1, <3>2, GetPreserves
  <2>4. QED
      BY <1>4, <2>2, <2>3 DEF GetAllCheckersTake
<1>5. ASSUME NEW r \in Request, waitForAvailableChecker(r)
      PROVE  IInv'
  <2>1. /\ leases[r] = <<>> /\ call[r] \in Call
        /\ pc[r] = "woken"
        /\ UNCHANGED <<seen, ctxCanceled, calls>>
        /\ seen' \in [Request -> Slot \cup {NoSlot}]
        /\ calls' \in [Request -> 0 .. MaxCalls]
      BY <1>5 DEF waitForAvailableChecker, IInv, TypeOK, WaitsEmptyHanded
  <2>2. ASSUME NEW i \in Slot, IsFirst(i, Idle), TakeIdle(r, call[r], i),
               call' = [call EXCEPT ![r] = NoCall]
        PROVE  IInv'
    <3>1. i \in Idle
        BY <2>2 DEF IsFirst
    <3>2. call' \in [Request -> Call]
        BY <2>2 DEF IInv, TypeOK, NoCall, Call
    <3>3. QED
        BY <2>1, <2>2, <3>1, <3>2, TakeIdlePreserves
  <2>3. ASSUME Park(r, call[r])
        PROVE  IInv'
    <3>1. /\ UNCHANGED <<checkers, inUse, fileAssociations, requestAssociations,
                         wasCanceled, leases, using>>
          /\ pc' = [pc EXCEPT ![r] = "parked"]
          /\ call' = [call EXCEPT ![r] = call[r]]
        BY <2>3 DEF Park, poolVars
    <3>2. TypeOK'
        BY <2>1, <3>1 DEF IInv, TypeOK
    <3>3. WaitsEmptyHanded'
        BY <2>1, <3>1 DEF IInv, TypeOK, WaitsEmptyHanded
    <3>4. UnlockedLookIsCurrent'
        BY <2>1, <3>1 DEF IInv, TypeOK, UnlockedLookIsCurrent
    <3>5. QED
        BY <3>1, <3>2, <3>3, <3>4, BystanderPreserves
  <2>4. QED
      BY <1>5, <2>2, <2>3 DEF waitForAvailableChecker
<1>6. ASSUME NEW r \in Request, Release(r)
      PROVE  IInv'
    BY <1>6, NoopReleasePreserves, OuterReleasePreserves
<1>7. ASSUME NEW r \in Request,
             CheckSourceFile(r) \/ StopUsing(r) \/ EndRequest(r) \/ CancelContext(r)
      PROVE  IInv'
  <2>1. UNCHANGED <<checkers, inUse, fileAssociations, requestAssociations,
                    seen, call, leases, calls>>
      BY <1>7 DEF CheckSourceFile, StopUsing, EndRequest, CancelContext, poolVars
  <2>2. /\ pc' \in [Request -> {"running", "looked", "parked", "woken", "done"}]
        /\ \A q \in Request : pc'[q] = pc[q] \/ pc'[q] = "done"
      BY <1>7 DEF CheckSourceFile, StopUsing, EndRequest, CancelContext, IInv, TypeOK
  <2>3. /\ wasCanceled' \subseteq Checker
        /\ using' \in [Request -> Checker \cup {NoChecker}]
        /\ ctxCanceled' \subseteq Request
      BY <1>7 DEF CheckSourceFile, StopUsing, EndRequest, CancelContext, IInv, TypeOK
  <2>4. TypeOK'
      BY <2>1, <2>2, <2>3 DEF IInv, TypeOK
  <2>5. WaitsEmptyHanded'
      BY <2>1, <2>2 DEF IInv, WaitsEmptyHanded
  <2>6. UnlockedLookIsCurrent'
      BY <2>1, <2>2 DEF IInv, UnlockedLookIsCurrent
  <2>7. QED
      BY <2>1, <2>4, <2>5, <2>6, BystanderPreserves
<1>8. CASE UNCHANGED vars
  <2>1. TypeOK' /\ WaitsEmptyHanded' /\ UnlockedLookIsCurrent'
      BY <1>8 DEF vars, poolVars, IInv, TypeOK, WaitsEmptyHanded, UnlockedLookIsCurrent
  <2>2. QED
      BY <1>8, <2>1, BystanderPreserves DEF vars, poolVars
<1>9. QED
    BY <1>1, <1>2, <1>3, <1>4, <1>5, <1>6, <1>7, <1>8 DEF Next, Handler

\* The invariant from which the properties of the pool follow: the leases of the handlers
\* and the tables of checkerPool always agree.
THEOREM Invariance == Spec => []IInv
BY InitEstablishes, NextPreserves, PTL DEF Spec

-----------------------------------------------------------------------------
\* The variables of the pool and of its requests keep their types.
THEOREM TypeCorrect == Spec => []TypeOK
<1>1. IInv => TypeOK
    BY DEF IInv
<1>2. QED
    BY <1>1, Invariance, PTL

\* The outermost lease of a request names a slot that has its checker, in use.
LEMMA HolderLeasesSlot ==
    ASSUME IInv, NEW r \in Request, leases[r] # <<>>
    PROVE  /\ leases[r][1].index \in Slot
           /\ checkers[leases[r][1].index] = leases[r][1].checker
           /\ leases[r][1].checker \in inUse /\ leases[r][1].checker \in Checker
BY DEF IInv, TypeOK, OutermostIsReal

\* Two requests with the same checker are the same.
LEMMA LeasesExclusive ==
    ASSUME IInv, NEW r \in Request, NEW q \in Request,
           leases[r] # <<>>, leases[q] # <<>>,
           leases[r][1].checker = leases[q][1].checker
    PROVE  r = q
<1>1. /\ leases[r][1].index \in Slot /\ leases[q][1].index \in Slot
      /\ checkers[leases[r][1].index] = checkers[leases[q][1].index]
      /\ checkers[leases[r][1].index] \in Checker
    BY HolderLeasesSlot
<1>2. leases[r][1].index = leases[q][1].index
    BY <1>1, PoolAssumption DEF IInv, SlotsDistinct, Filled
<1>3. QED
    BY <1>2 DEF IInv, SlotsExclusive

\* A checker is held by one request at a time (GetCheckerForFile, GetChecker,
\* GetAllCheckers and the releases, in any interleaving).
THEOREM Exclusive == Spec => []ExclusiveLease
<1>1. IInv => ExclusiveLease
    BY LeasesExclusive DEF ExclusiveLease, Holds
<1>2. QED
    BY <1>1, Invariance, PTL

\* A request never works with two checkers, and a nested acquisition does not
\* give back the checker of the enclosing one.
THEOREM OneChecker == Spec => []OneCheckerPerRequest
<1>1. ASSUME IInv PROVE OneCheckerPerRequest
  <2> SUFFICES ASSUME NEW r \in Request, NEW n \in 1 .. Len(leases[r])
               PROVE  /\ leases[r][n].checker = leases[r][1].checker
                      /\ leases[r][n].index = NoSlot <=> n # 1
      BY DEF OneCheckerPerRequest
  <2>1. leases[r] \in Seq(Lease) /\ Len(leases[r]) \in Nat
      BY <1>1 DEF IInv, TypeOK
  <2>2. CASE n = 1
    <3>1. leases[r] # <<>>
        BY <2>1, <2>2
    <3>2. QED
        BY <1>1, <2>2, <3>1, HolderLeasesSlot DEF Slot, NoSlot
  <2>3. CASE n # 1
    <3>1. n \in 2 .. Len(leases[r])
        BY <2>1, <2>3
    <3>2. QED
        BY <1>1, <2>3, <3>1 DEF IInv, NestedIsNoop
  <2>4. QED
      BY <2>2, <2>3
<1>2. QED
    BY <1>1, Invariance, PTL

\* A checker found in use through the association of a request is in use by that
\* request, as getRequestCheckerLocked assumes.
THEOREM SameRequest == Spec => []InUseByTheSameRequest
<1>1. ASSUME IInv PROVE InUseByTheSameRequest
  <2> SUFFICES ASSUME NEW r \in Request \ Anonymous, requestAssociations[r] # NoSlot
               PROVE  /\ checkers[requestAssociations[r]] \in inUse
                      /\ Holds(r, checkers[requestAssociations[r]])
      BY DEF InUseByTheSameRequest
  <2>1. leases[r] # <<>> /\ requestAssociations[r] = leases[r][1].index
      BY <1>1 DEF IInv, AssociationIsLease
  <2>2. QED
      BY <1>1, <2>1, HolderLeasesSlot DEF Holds
<1>2. QED
    BY <1>1, Invariance, PTL

\* The cleanup of a request never panics.
THEOREM CleanupSafe == Spec => []CleanupNeverPanics
<1>1. IInv => CleanupNeverPanics
    BY DEF IInv, AssociationIsLease, CleanupNeverPanics, isRequestCheckerInUse,
           Filled, Slot, NoSlot
<1>2. QED
    BY <1>1, Invariance, PTL

\* What GetAllCheckers reads without the lock is current when it is used.
THEOREM LookIsCurrent == Spec => []UnlockedLookIsCurrent
<1>1. IInv => UnlockedLookIsCurrent
    BY DEF IInv
<1>2. QED
    BY <1>1, Invariance, PTL

-----------------------------------------------------------------------------
(***************************************************************************)
(* What a step does to the leases: it lends a checker to a request that    *)
(* has none, hands a request its checker once more, takes such a handing   *)
(* out back, gives a checker back, or leaves the leases alone.             *)
(***************************************************************************)

\* The handler of r is where a checker can be lent to it.
Asks(r, k) ==
    /\ leases[r] = <<>>
    /\ pc[r] \in {"running", "looked", "woken"}
    /\ pc[r] = "running" => using[r] = NoChecker
    /\ k \in Call
    /\ k.early => k = call[r] \/ r \in StringCompletion
    /\ UNCHANGED ctxCanceled
    /\ \A q \in Request : call'[q].early => call[q].early

Takes(r, k, i) == Asks(r, k) /\ i \in Idle /\ TakeIdle(r, k, i)

Creates(r, k, i, c) == Asks(r, k) /\ Idle = {} /\ i \in Empty /\ createCheckerLocked(r, k, i, c)

\* The request already has the checker it is handed.
Shares(r) ==
    /\ leases[r] # <<>>
    /\ checkers[leases[r][1].index] = leases[r][1].checker
    /\ leases' = [leases EXCEPT ![r] =
                     Append(@, [index |-> NoSlot, checker |-> leases[r][1].checker,
                                early |-> FALSE])]
    /\ using' = [using EXCEPT ![r] = leases[r][1].checker]
    /\ pc[r] \in {"running", "looked"}
    /\ pc' = [pc EXCEPT ![r] = "running"]
    /\ UNCHANGED <<checkers, inUse, wasCanceled, call, ctxCanceled>>

ReleasesNested(r) ==
    /\ Len(leases[r]) \in Nat \ {0, 1}
    /\ leases' = [leases EXCEPT ![r] = SubSeq(@, 1, Len(@) - 1)]
    /\ using' = [using EXCEPT ![r] = IF Top(r).early THEN Top(r).checker ELSE @]
    /\ Top(r) = leases[r][Len(leases[r])]
    /\ UNCHANGED <<checkers, inUse, wasCanceled, pc, call, ctxCanceled>>

ReleasesLast(r) ==
    /\ pc[r] = "running"
    /\ leases[r] # <<>> /\ Len(leases[r]) = 1
    /\ leases' = [leases EXCEPT ![r] = <<>>]
    /\ using' = [using EXCEPT ![r] = IF leases[r][1].early THEN leases[r][1].checker
                                                             ELSE NoChecker]
    /\ GiveBack(leases[r][1])
    /\ Signal
    /\ UNCHANGED <<wasCanceled, call, ctxCanceled>>

Bystands ==
    /\ UNCHANGED <<checkers, inUse, leases>>
    /\ \/ \E r \in Request, k \in Call :
              /\ pc[r] \in {"running", "looked", "woken"}
              /\ leases[r] = <<>> /\ Idle = {}
              /\ pc[r] = "running" => using[r] = NoChecker
              /\ k.early => k = call[r] \/ r \in StringCompletion
              /\ Park(r, k) /\ UNCHANGED ctxCanceled
       \/ \E r \in Request : GetAllCheckersLook(r) \/ CheckSourceFile(r) \/ StopUsing(r)
                             \/ EndRequest(r) \/ CancelContext(r)
       \/ UNCHANGED vars

\* Every step is one of these.
LEMMA LeaseSteps ==
    ASSUME IInv, [Next]_vars
    PROVE  \/ \E r \in Request, k \in Call, i \in Slot : Takes(r, k, i)
           \/ \E r \in Request, k \in Call, i \in Slot, c \in Checker : Creates(r, k, i, c)
           \/ \E r \in Request : Shares(r) \/ ReleasesNested(r) \/ ReleasesLast(r)
           \/ Bystands
<1> DEFINE Goal ==
           \/ \E r \in Request, k \in Call, i \in Slot : Takes(r, k, i)
           \/ \E r \in Request, k \in Call, i \in Slot, c \in Checker : Creates(r, k, i, c)
           \/ \E r \in Request : Shares(r) \/ ReleasesNested(r) \/ ReleasesLast(r)
           \/ Bystands
<1>1. ASSUME NEW r \in Request, NEW k \in Call,
             leases[r] = <<>>, pc[r] \in {"running", "looked", "woken"},
             pc[r] = "running" => using[r] = NoChecker,
             k.early => k = call[r] \/ r \in StringCompletion,
             UNCHANGED ctxCanceled, getCheckerLocked(r, k)
      PROVE  Goal
  <2>1. ASSUME NEW i \in Slot, IsFirst(i, Idle), TakeIdle(r, k, i), UNCHANGED call
        PROVE  Goal
    <3>1. Takes(r, k, i)
        BY <1>1, <2>1 DEF Takes, Asks, IsFirst
    <3>2. QED
        BY <2>1, <3>1
  <2>2. ASSUME Idle = {}, NEW i \in Slot, IsFirst(i, Empty), NEW c \in Checker,
               createCheckerLocked(r, k, i, c), UNCHANGED call
        PROVE  Goal
    <3>1. Creates(r, k, i, c)
        BY <1>1, <2>2 DEF Creates, Asks, IsFirst
    <3>2. QED
        BY <2>2, <3>1
  <2>3. ASSUME Idle = {}, Park(r, k)
        PROVE  Goal
    <3>1. Bystands
        BY <1>1, <2>3 DEF Bystands, Park, poolVars
    <3>2. QED
        BY <3>1
  <2>4. QED
      BY <1>1, <2>1, <2>2, <2>3 DEF getCheckerLocked
<1>2. ASSUME NEW r \in Request, r \notin Anonymous,
             Finds(requestAssociations[r]), pc[r] \in {"running", "looked"},
             getRequestCheckerLocked(r, requestAssociations[r]),
             UNCHANGED ctxCanceled
      PROVE  Goal
  <2>1. /\ leases[r] # <<>>
        /\ requestAssociations[r] = leases[r][1].index
        /\ checkers[leases[r][1].index] = leases[r][1].checker
        /\ leases[r][1].checker \in inUse
      BY <1>2 DEF IInv, OutermostIsReal, AssociationIsLease, Finds, Filled, NoSlot, Slot
  <2>2. /\ Push(r, NoCall, NoSlot, leases[r][1].checker)
        /\ UNCHANGED <<checkers, inUse, wasCanceled, call>>
      BY <1>2, <2>1 DEF getRequestCheckerLocked
  <2>3. Shares(r)
      BY <1>2, <2>1, <2>2 DEF Shares, Push, NoCall
  <2>4. QED
      BY <2>3
<1>3. ASSUME NEW r \in Request, NEW f \in File, GetCheckerForFile(r, f)
      PROVE  Goal
  <2> DEFINE k == [file |-> f, early |-> FALSE]
  <2>1. /\ pc[r] = "running" /\ UNCHANGED ctxCanceled
        /\ leases[r] = <<>> => using[r] = NoChecker
        /\ r \in Anonymous => leases[r] = <<>>
        /\ k \in Call /\ ~k.early
      BY <1>3 DEF GetCheckerForFile, StartCall, Call
  <2>2. CASE /\ Finds(requestAssociations[r])
             /\ getRequestCheckerLocked(r, requestAssociations[r])
    <3>1. r \notin Anonymous
        BY <2>2 DEF IInv, AssociationIsLease, Finds, Filled, Slot, NoSlot
    <3>2. QED
        BY <1>2, <2>1, <2>2, <3>1
  <2>3. CASE /\ ~Finds(requestAssociations[r])
             /\ fileAssociations[f] \in Idle
             /\ TakeIdle(r, k, fileAssociations[f])
             /\ UNCHANGED call
    <3>1. leases[r] = <<>>
        BY <2>1, <2>3, UnassociatedHoldsNothing
    <3>2. fileAssociations[f] \in Slot
        BY <2>3 DEF Idle, Filled
    <3> HIDE DEF k
    <3>3. Takes(r, k, fileAssociations[f])
        BY <2>1, <2>3, <3>1 DEF Takes, Asks
    <3>4. QED
        BY <2>1, <3>2, <3>3
  <2>4. CASE ~Finds(requestAssociations[r]) /\ getCheckerLocked(r, k)
    <3>1. leases[r] = <<>>
        BY <2>1, <2>4, UnassociatedHoldsNothing
    <3> HIDE DEF k
    <3>2. QED
        BY <1>1, <2>1, <2>4, <3>1
  <2>5. QED
      BY <1>3, <2>2, <2>3, <2>4 DEF GetCheckerForFile
<1>4. ASSUME NEW r \in Request, GetChecker(r)
      PROVE  Goal
  <2> DEFINE k == [file |-> NoFile, early |-> r \in StringCompletion]
  <2>1. /\ pc[r] = "running" /\ UNCHANGED ctxCanceled
        /\ leases[r] = <<>> /\ using[r] = NoChecker
        /\ getCheckerLocked(r, k)
      BY <1>4 DEF GetChecker, StartCall
  <2>2. k \in Call /\ (k.early => r \in StringCompletion)
    <3>1. (r \in StringCompletion) \in BOOLEAN
        OBVIOUS
    <3>2. QED
        BY <3>1 DEF Call
  <2> HIDE DEF k
  <2>3. QED
      BY <1>1, <2>1, <2>2
<1>5. ASSUME NEW r \in Request, GetAllCheckersTake(r)
      PROVE  Goal
  <2>1. /\ seen[r] = requestAssociations[r] /\ pc[r] = "looked"
        /\ r \notin Anonymous /\ UNCHANGED ctxCanceled
      BY <1>5 DEF GetAllCheckersTake, IInv, UnlockedLookIsCurrent, WaitsEmptyHanded
  <2>2. CASE Finds(seen[r]) /\ getRequestCheckerLocked(r, seen[r])
      BY <1>2, <2>1, <2>2
  <2>3. CASE ~Finds(seen[r]) /\ getCheckerLocked(r, NoCall)
    <3>1. leases[r] = <<>>
        BY <2>1, <2>3, UnassociatedHoldsNothing
    <3>2. NoCall \in Call /\ ~NoCall.early
        BY DEF NoCall, Call
    <3>3. QED
        BY <1>1, <2>1, <2>3, <3>1, <3>2
  <2>4. QED
      BY <1>5, <2>2, <2>3 DEF GetAllCheckersTake
<1>6. ASSUME NEW r \in Request, waitForAvailableChecker(r)
      PROVE  Goal
  <2>1. /\ leases[r] = <<>> /\ call[r] \in Call /\ pc[r] = "woken"
        /\ UNCHANGED ctxCanceled
      BY <1>6 DEF waitForAvailableChecker, IInv, TypeOK, WaitsEmptyHanded
  <2>2. ASSUME NEW i \in Slot, IsFirst(i, Idle), TakeIdle(r, call[r], i),
               call' = [call EXCEPT ![r] = NoCall]
        PROVE  Goal
    <3>1. \A q \in Request : call'[q].early => call[q].early
        BY <2>2 DEF IInv, TypeOK, NoCall
    <3>2. Takes(r, call[r], i)
        BY <2>1, <2>2, <3>1 DEF Takes, Asks, IsFirst
    <3>3. QED
        BY <2>1, <3>2
  <2>3. ASSUME Idle = {}, Park(r, call[r])
        PROVE  Goal
    <3>1. Bystands
        BY <2>1, <2>3 DEF Bystands, Park, poolVars
    <3>2. QED
        BY <3>1
  <2>4. QED
      BY <1>6, <2>2, <2>3 DEF waitForAvailableChecker
<1>7. ASSUME NEW r \in Request, Release(r)
      PROVE  Goal
  <2>1. /\ leases[r] \in Seq(Lease) /\ Len(leases[r]) \in Nat \ {0}
        /\ leases[r] # <<>> /\ pc[r] = "running"
      BY <1>7 DEF Release, IInv, TypeOK
  <2>2. CASE Top(r).index = NoSlot
    <3>1. Len(leases[r]) # 1
        BY <2>1, <2>2 DEF IInv, OutermostIsReal, Top, Slot, NoSlot
    <3>2. /\ Pop(r)
          /\ UNCHANGED <<checkers, inUse, wasCanceled, pc, call, ctxCanceled>>
        BY <1>7, <2>2 DEF Release
    <3>3. ReleasesNested(r)
        BY <2>1, <3>1, <3>2 DEF ReleasesNested, Pop, Top
    <3>4. QED
        BY <3>3
  <2>3. CASE Top(r).index # NoSlot
    <3>1. Len(leases[r]) \notin 2 .. Len(leases[r])
        BY <2>1, <2>3 DEF IInv, NestedIsNoop, Top
    <3>2. Len(leases[r]) = 1
      <4>1. \A n \in Nat \ {0} : n \notin 2 .. n => n = 1
          OBVIOUS
      <4>2. QED
          BY <2>1, <3>1, <4>1
    <3>3. Top(r) = leases[r][1]
        BY <3>2 DEF Top
    <3>4. SubSeq(leases[r], 1, Len(leases[r]) - 1) = <<>>
        BY <2>1, <3>2
    <3>5. /\ Pop(r) /\ GiveBack(Top(r)) /\ Signal
          /\ UNCHANGED <<wasCanceled, call, ctxCanceled>>
        BY <1>7, <2>3 DEF Release
    <3>6. ReleasesLast(r)
        BY <2>1, <3>2, <3>3, <3>4, <3>5 DEF ReleasesLast, Pop
    <3>7. QED
        BY <3>6
  <2>4. QED
      BY <2>2, <2>3
<1>8. ASSUME NEW r \in Request,
             GetAllCheckersLook(r) \/ CheckSourceFile(r) \/ StopUsing(r)
             \/ EndRequest(r) \/ CancelContext(r)
      PROVE  Goal
  <2>1. UNCHANGED <<checkers, inUse, leases>>
      BY <1>8 DEF GetAllCheckersLook, CheckSourceFile, StopUsing, EndRequest,
                  CancelContext, poolVars
  <2>2. Bystands
      BY <1>8, <2>1 DEF Bystands
  <2>3. QED
      BY <2>2
<1>9. ASSUME UNCHANGED vars PROVE Goal
  <2>1. Bystands
      BY <1>9 DEF Bystands, vars, poolVars
  <2>2. QED
      BY <2>1
<1>10. QED
  <2> HIDE DEF Goal
  <2>1. ASSUME NEW r \in Request, Handler(r) \/ CancelContext(r)
        PROVE  Goal
      BY <1>3, <1>4, <1>5, <1>6, <1>7, <1>8, <2>1 DEF Handler
  <2>2. Goal
      BY <1>9, <2>1 DEF Next
  <2>3. QED
      BY <2>2 DEF Goal

-----------------------------------------------------------------------------
\* A checker to be lent is in nobody's hands: an idle one is not in use, a new
\* one is in no slot.
LEMMA NobodyHolds ==
    ASSUME IInv, NEW c, c \notin inUse \/ \A i \in Slot : checkers[i] # c
    PROVE  \A q \in Request : Lent[q] # c \/ c = NoChecker
BY DEF IInv, OutermostIsReal, Lent

\* What lending leaves: one lease, the outermost.
LEMMA AfterPush ==
    ASSUME IInv, NEW r \in Request, NEW k, NEW i, NEW c,
           leases[r] = <<>>, Push(r, k, i, c)
    PROVE  /\ leases'[r] # <<>> /\ Len(leases'[r]) = 1
           /\ leases'[r][1].checker = c /\ leases'[r][1].early = k.early
           /\ using'[r] = IF k.early THEN using[r] ELSE c
           /\ pc'[r] = "running"
           /\ \A q \in Request : q # r =>
                  leases'[q] = leases[q] /\ using'[q] = using[q] /\ pc'[q] = pc[q]
<1> DEFINE l == [index |-> i, checker |-> c, early |-> k.early]
<1>1. leases' = [leases EXCEPT ![r] = <<l>>]
    BY DEF Push
<1>2. leases'[r] = <<l>> /\ \A q \in Request : q # r => leases'[q] = leases[q]
    BY <1>1 DEF IInv, TypeOK
<1>3. <<l>> # <<>> /\ Len(<<l>>) = 1 /\ <<l>>[1] = l
    OBVIOUS
<1> HIDE DEF l
<1>4. /\ using'[r] = IF k.early THEN using[r] ELSE c
      /\ pc'[r] = "running"
      /\ \A q \in Request : q # r => using'[q] = using[q] /\ pc'[q] = pc[q]
    BY DEF Push, IInv, TypeOK
<1>5. QED
    BY <1>2, <1>3, <1>4 DEF l

\* What handing a request its checker once more leaves: the leases it had, and
\* one nested in them.
LEMMA AfterShare ==
    ASSUME IInv, NEW r \in Request, Shares(r)
    PROVE  /\ leases'[r] # <<>> /\ Len(leases'[r]) = Len(leases[r]) + 1
           /\ Len(leases[r]) \in Nat \ {0}
           /\ leases'[r][1] = leases[r][1]
           /\ \A n \in 1 .. Len(leases[r]) : leases'[r][n] = leases[r][n]
           /\ ~leases'[r][Len(leases[r]) + 1].early
           /\ using'[r] = leases[r][1].checker
           /\ pc'[r] = "running"
           /\ \A q \in Request : q # r =>
                  leases'[q] = leases[q] /\ using'[q] = using[q] /\ pc'[q] = pc[q]
<1> DEFINE s == leases[r]
           l == [index |-> NoSlot, checker |-> s[1].checker, early |-> FALSE]
<1>1. s \in Seq(Lease) /\ s # <<>> /\ Len(s) \in Nat \ {0}
    BY DEF Shares, IInv, TypeOK
<1>2. /\ leases'[r] = Append(s, l)
      /\ \A q \in Request : q # r => leases'[q] = leases[q]
    BY DEF Shares, IInv, TypeOK
<1>3. l \in Lease /\ ~l.early
    BY <1>1, HolderLeasesSlot DEF Lease
<1>4. /\ using'[r] = s[1].checker /\ pc'[r] = "running"
      /\ \A q \in Request : q # r => using'[q] = using[q] /\ pc'[q] = pc[q]
    BY DEF Shares, IInv, TypeOK
<1> HIDE DEF s, l
<1>5. /\ Append(s, l) # <<>> /\ Len(Append(s, l)) = Len(s) + 1
      /\ \A n \in 1 .. Len(s) : Append(s, l)[n] = s[n]
      /\ Append(s, l)[Len(s) + 1] = l
    BY <1>1, <1>3
<1>6. Append(s, l)[1] = s[1]
    BY <1>1, <1>5
<1>7. QED
    BY <1>1, <1>2, <1>3, <1>4, <1>5, <1>6 DEF s

\* What a nested release leaves: the leases below it.
LEMMA AfterNested ==
    ASSUME IInv, NEW r \in Request, ReleasesNested(r)
    PROVE  /\ leases[r] # <<>> /\ leases'[r] # <<>>
           /\ Len(leases[r]) \in Nat \ {0, 1}
           /\ Len(leases'[r]) = Len(leases[r]) - 1
           /\ \A n \in 1 .. Len(leases'[r]) : leases'[r][n] = leases[r][n]
           /\ leases'[r][1] = leases[r][1]
           /\ \A q \in Request : q # r => leases'[q] = leases[q] /\ using'[q] = using[q]
<1> DEFINE s == leases[r]
<1>1. s \in Seq(Lease) /\ Len(s) \in Nat \ {0, 1}
    BY DEF ReleasesNested, IInv, TypeOK
<1>2. s # <<>>
    BY <1>1
<1>3. LET t == SubSeq(s, 1, Len(s) - 1)
      IN  /\ t # <<>> /\ Len(t) = Len(s) - 1
          /\ \A n \in 1 .. Len(t) : t[n] = s[n]
    BY <1>1, Dropped
<1>4. /\ leases'[r] = SubSeq(s, 1, Len(s) - 1)
      /\ \A q \in Request : q # r => leases'[q] = leases[q] /\ using'[q] = using[q]
    BY DEF ReleasesNested, IInv, TypeOK
<1>5. leases'[r][1] = s[1]
    BY <1>1, <1>3, <1>4
<1>6. QED
    BY <1>1, <1>2, <1>3, <1>4, <1>5

\* What the outermost release leaves: nothing.
LEMMA AfterLast ==
    ASSUME IInv, NEW r \in Request, ReleasesLast(r)
    PROVE  /\ leases'[r] = <<>>
           /\ using'[r] = IF leases[r][1].early THEN leases[r][1].checker ELSE NoChecker
           /\ pc'[r] = "running"
           /\ \A q \in Request : q # r => leases'[q] = leases[q] /\ using'[q] = using[q]
           /\ \A q \in Request : pc'[q] = pc[q] \/ (pc[q] = "parked" /\ pc'[q] = "woken")
<1>1. \A q \in Request : pc'[q] = pc[q] \/ (pc[q] = "parked" /\ pc'[q] = "woken")
    BY DEF ReleasesLast, Signal, Parked, IInv, TypeOK
<1>2. pc[r] = "running" /\ pc'[r] = "running"
    BY <1>1 DEF ReleasesLast
<1>3. QED
    BY <1>1, <1>2 DEF ReleasesLast, IInv, TypeOK

\* Every step of the pool lends one checker to one request that has none, takes
\* one back, or changes nothing the abstract specification speaks of.
LEMMA StepLendsOrReturns ==
    ASSUME IInv, [Next]_vars
    PROVE  [Promise!Next]_Lent
<1>1. ASSUME NEW r \in Request, NEW k \in Call, NEW i \in Slot, Takes(r, k, i)
      PROVE  Promise!Next
  <2>1. /\ checkers[i] \in Checker /\ checkers[i] \notin inUse
        /\ leases[r] = <<>> /\ Push(r, k, i, checkers[i])
      BY <1>1 DEF Takes, Asks, TakeIdle, Idle, Filled, IInv, TypeOK
  <2>2. /\ leases'[r] # <<>> /\ leases'[r][1].checker = checkers[i]
        /\ \A q \in Request : q # r => leases'[q] = leases[q]
      BY <2>1, AfterPush
  <2>3. Lent[r] = NoChecker /\ Lent' = [Lent EXCEPT ![r] = checkers[i]]
      BY <2>1, <2>2 DEF Lent
  <2>4. Promise!Lend(r, checkers[i])
      BY <2>1, <2>3, NobodyHolds, PoolAssumption DEF Promise!Lend
  <2>5. QED
      BY <2>1, <2>4 DEF Promise!Next
<1>2. ASSUME NEW r \in Request, NEW k \in Call, NEW i \in Slot, NEW c \in Checker,
             Creates(r, k, i, c)
      PROVE  Promise!Next
  <2>1. /\ \A j \in Slot : checkers[j] # c
        /\ leases[r] = <<>> /\ Push(r, k, i, c)
      BY <1>2 DEF Creates, Asks, createCheckerLocked, Fresh
  <2>2. /\ leases'[r] # <<>> /\ leases'[r][1].checker = c
        /\ \A q \in Request : q # r => leases'[q] = leases[q]
      BY <2>1, AfterPush
  <2>3. Lent[r] = NoChecker /\ Lent' = [Lent EXCEPT ![r] = c]
      BY <2>1, <2>2 DEF Lent
  <2>4. Promise!Lend(r, c)
      BY <2>1, <2>3, NobodyHolds, PoolAssumption DEF Promise!Lend
  <2>5. QED
      BY <2>4 DEF Promise!Next
<1>3. ASSUME NEW r \in Request, Shares(r)
      PROVE  UNCHANGED Lent
  <2>1. leases[r] # <<>>
      BY <1>3 DEF Shares
  <2>2. QED
      BY <1>3, <2>1, AfterShare DEF Lent
<1>4. ASSUME NEW r \in Request, ReleasesNested(r)
      PROVE  UNCHANGED Lent
    BY <1>4, AfterNested DEF Lent
<1>5. ASSUME NEW r \in Request, ReleasesLast(r)
      PROVE  Promise!Next
  <2>1. leases[r] # <<>> /\ leases[r][1].checker \in Checker
      BY <1>5, HolderLeasesSlot DEF ReleasesLast
  <2>2. Lent[r] # NoChecker
      BY <2>1, PoolAssumption DEF Lent
  <2>3. Lent' = [Lent EXCEPT ![r] = NoChecker]
      BY <1>5, AfterLast DEF Lent
  <2>4. QED
      BY <2>2, <2>3 DEF Promise!Next, Promise!Return
<1>6. ASSUME Bystands
      PROVE  UNCHANGED Lent
    BY <1>6 DEF Bystands, Lent
<1>7. QED
    BY LeaseSteps, <1>1, <1>2, <1>3, <1>4, <1>5, <1>6

\* The pool, with its slots, waits, associations and disposals, implements the
\* lending of one checker to one request that CheckerLease specifies.
THEOREM ImplementsLease == Spec => LendsOneCheckerToOneRequest
<1>1. Init => Promise!Init
    BY DEF Init, Promise!Init, Lent
<1>2. QED
    BY <1>1, StepLendsOrReturns, Invariance, PTL
       DEF Spec, LendsOneCheckerToOneRequest, Promise!Spec

-----------------------------------------------------------------------------
(***************************************************************************)
(* What a handler computes with.  CanceledNeverReused needs to know that a *)
(* handler that holds a checker computes with no other, for it is the      *)
(* checker the handler computes with that a canceled context spoils.       *)
(***************************************************************************)

\* A handler that holds a checker computes with it; one that holds none computes
\* with none, unless it completes in a string literal.
UsesWhatItHolds ==
    \A r \in Request :
        /\ leases[r] # <<>> => using[r] \in {NoChecker, leases[r][1].checker}
        /\ leases[r] = <<>> /\ using[r] # NoChecker =>
               pc[r] = "running" /\ r \in StringCompletion

\* Only a completion in a string literal gives its checker back early, and only
\* its outermost one.
EarlyIsOutermost ==
    \A r \in Request :
        /\ call[r].early => r \in StringCompletion
        /\ \A n \in 1 .. Len(leases[r]) :
              leases[r][n].early => n = 1 /\ r \in StringCompletion

UInv == IInv /\ UsesWhatItHolds /\ EarlyIsOutermost

\* A step in which the handler of r is lent a checker.
LEMMA UsesAfterPush ==
    ASSUME UInv, NEW r \in Request, NEW k \in Call, NEW i, NEW c,
           Asks(r, k), Push(r, k, i, c)
    PROVE  UsesWhatItHolds' /\ EarlyIsOutermost'
<1>1. leases[r] = <<>> /\ using[r] = NoChecker
    BY DEF Asks, UInv, UsesWhatItHolds
<1>2. k.early => r \in StringCompletion
    BY DEF Asks, UInv, EarlyIsOutermost
<1>3. /\ leases'[r] # <<>> /\ Len(leases'[r]) = 1
      /\ leases'[r][1].checker = c /\ leases'[r][1].early = k.early
      /\ using'[r] \in {NoChecker, c}
      /\ \A q \in Request : q # r =>
             leases'[q] = leases[q] /\ using'[q] = using[q] /\ pc'[q] = pc[q]
  <2>1. IInv
      BY DEF UInv
  <2> HIDE DEF UInv
  <2>2. QED
      BY <1>1, <2>1, AfterPush
<1>4. UsesWhatItHolds'
    BY <1>3 DEF UInv, UsesWhatItHolds
<1>5. EarlyIsOutermost'
  <2> SUFFICES ASSUME NEW q \in Request
               PROVE  /\ call'[q].early => q \in StringCompletion
                      /\ \A n \in 1 .. Len(leases'[q]) :
                            leases'[q][n].early => n = 1 /\ q \in StringCompletion
      BY DEF EarlyIsOutermost
  <2>1. call'[q].early => q \in StringCompletion
      BY DEF Asks, UInv, EarlyIsOutermost
  <2>2. CASE q = r
      BY <1>2, <1>3, <2>1, <2>2
  <2>3. CASE q # r
      BY <1>3, <2>1, <2>3 DEF UInv, EarlyIsOutermost
  <2>4. QED
      BY <2>2, <2>3
<1>6. QED
    BY <1>4, <1>5

\* No step makes a handler compute with a checker that it does not hold, string
\* completions excepted.
LEMMA UsesPreserved == UInv /\ [Next]_vars => UInv'
<1> SUFFICES ASSUME UInv, [Next]_vars PROVE UsesWhatItHolds' /\ EarlyIsOutermost'
    BY NextPreserves DEF UInv
<1> USE DEF UInv
<1>1. ASSUME NEW r \in Request, NEW k \in Call, NEW i \in Slot, Takes(r, k, i)
      PROVE  UsesWhatItHolds' /\ EarlyIsOutermost'
    BY <1>1, UsesAfterPush DEF Takes, TakeIdle
<1>2. ASSUME NEW r \in Request, NEW k \in Call, NEW i \in Slot, NEW c \in Checker,
             Creates(r, k, i, c)
      PROVE  UsesWhatItHolds' /\ EarlyIsOutermost'
    BY <1>2, UsesAfterPush DEF Creates, createCheckerLocked
<1>3. ASSUME NEW r \in Request, Shares(r)
      PROVE  UsesWhatItHolds' /\ EarlyIsOutermost'
  <2>1. UsesWhatItHolds'
      BY <1>3, AfterShare DEF UsesWhatItHolds
  <2>2. EarlyIsOutermost'
    <3> SUFFICES ASSUME NEW q \in Request, NEW n \in 1 .. Len(leases'[q]),
                        leases'[q][n].early
                 PROVE  n = 1 /\ q \in StringCompletion
        BY <1>3 DEF Shares, EarlyIsOutermost
    <3>1. CASE q # r
        BY <1>3, <3>1, AfterShare DEF EarlyIsOutermost
    <3>2. CASE q = r
      <4>1. n \in 1 .. Len(leases[r])
          BY <1>3, <3>2, AfterShare
      <4>2. QED
          BY <1>3, <3>2, <4>1, AfterShare DEF EarlyIsOutermost
    <3>3. QED
        BY <3>1, <3>2
  <2>3. QED
      BY <2>1, <2>2
<1>4. ASSUME NEW r \in Request, ReleasesNested(r)
      PROVE  UsesWhatItHolds' /\ EarlyIsOutermost'
  <2>1. using'[r] = using[r] /\ \A q \in Request : pc'[q] = pc[q]
    <3>1. Len(leases[r]) \in 1 .. Len(leases[r]) /\ Len(leases[r]) # 1
        BY <1>4, AfterNested
    <3>2. ~Top(r).early
        BY <1>4, <3>1 DEF ReleasesNested, EarlyIsOutermost
    <3>3. QED
        BY <1>4, <3>2 DEF ReleasesNested, IInv, TypeOK
  <2>2. UsesWhatItHolds'
      BY <1>4, <2>1, AfterNested DEF UsesWhatItHolds
  <2>3. EarlyIsOutermost'
    <3> SUFFICES ASSUME NEW q \in Request, NEW n \in 1 .. Len(leases'[q]),
                        leases'[q][n].early
                 PROVE  n = 1 /\ q \in StringCompletion
        BY <1>4 DEF ReleasesNested, EarlyIsOutermost
    <3>1. n \in 1 .. Len(leases[q]) /\ leases'[q][n] = leases[q][n]
        BY <1>4, AfterNested
    <3>2. QED
        BY <3>1 DEF EarlyIsOutermost
  <2>4. QED
      BY <2>2, <2>3
<1>5. ASSUME NEW r \in Request, ReleasesLast(r)
      PROVE  UsesWhatItHolds' /\ EarlyIsOutermost'
  <2>1. Len(leases[r]) = 1
      BY <1>5 DEF ReleasesLast
  <2>2. leases[r][1].early => r \in StringCompletion
      BY <2>1 DEF EarlyIsOutermost
  <2>3. UsesWhatItHolds'
      BY <1>5, <2>2, AfterLast DEF UsesWhatItHolds
  <2>4. Len(<<>>) = 0
      OBVIOUS
  <2>5. EarlyIsOutermost'
      BY <1>5, <2>4, AfterLast DEF EarlyIsOutermost, ReleasesLast
  <2>6. QED
      BY <2>3, <2>5
<1>6. ASSUME Bystands
      PROVE  UsesWhatItHolds' /\ EarlyIsOutermost'
  <2>1. UNCHANGED leases
      BY <1>6 DEF Bystands
  <2>2. ASSUME NEW r \in Request, NEW k \in Call, leases[r] = <<>>,
               pc[r] \in {"running", "looked", "woken"},
               pc[r] = "running" => using[r] = NoChecker,
               k.early => k = call[r] \/ r \in StringCompletion, Park(r, k)
        PROVE  UsesWhatItHolds' /\ EarlyIsOutermost'
    <3>1. using[r] = NoChecker
        BY <2>2 DEF UsesWhatItHolds
    <3>2. k.early => r \in StringCompletion
        BY <2>2 DEF EarlyIsOutermost
    <3>3. /\ UNCHANGED using
          /\ \A q \in Request : q # r => pc'[q] = pc[q] /\ call'[q] = call[q]
          /\ call'[r] = k
        BY <2>2 DEF Park, IInv, TypeOK
    <3>4. UsesWhatItHolds'
        BY <2>1, <3>1, <3>3 DEF UsesWhatItHolds
    <3>5. EarlyIsOutermost'
        BY <2>1, <3>2, <3>3 DEF EarlyIsOutermost
    <3>6. QED
        BY <3>4, <3>5
  <2>3. ASSUME NEW r \in Request, GetAllCheckersLook(r)
        PROVE  UsesWhatItHolds' /\ EarlyIsOutermost'
    <3>1. UNCHANGED <<using, call>> /\ (leases[r] = <<>> => using[r] = NoChecker)
        BY <2>3 DEF GetAllCheckersLook, StartCall
    <3>2. \A q \in Request : q # r => pc'[q] = pc[q]
        BY <2>3 DEF GetAllCheckersLook, IInv, TypeOK
    <3>3. QED
        BY <2>1, <3>1, <3>2 DEF UsesWhatItHolds, EarlyIsOutermost
  <2>4. ASSUME NEW r \in Request, CheckSourceFile(r)
        PROVE  UsesWhatItHolds' /\ EarlyIsOutermost'
      BY <2>1, <2>4 DEF CheckSourceFile, poolVars, UsesWhatItHolds, EarlyIsOutermost
  <2>5. ASSUME NEW r \in Request, StopUsing(r)
        PROVE  UsesWhatItHolds' /\ EarlyIsOutermost'
    <3>1. /\ UNCHANGED <<pc, call>> /\ using'[r] = NoChecker
          /\ \A q \in Request : q # r => using'[q] = using[q]
        BY <2>5 DEF StopUsing, IInv, TypeOK
    <3>2. QED
        BY <2>1, <3>1 DEF UsesWhatItHolds, EarlyIsOutermost
  <2>6. ASSUME NEW r \in Request, EndRequest(r)
        PROVE  UsesWhatItHolds' /\ EarlyIsOutermost'
    <3>1. /\ UNCHANGED <<using, call>> /\ using[r] = NoChecker
          /\ \A q \in Request : q # r => pc'[q] = pc[q]
        BY <2>6 DEF EndRequest, IInv, TypeOK
    <3>2. QED
        BY <2>1, <3>1 DEF UsesWhatItHolds, EarlyIsOutermost
  <2>7. ASSUME NEW r \in Request, CancelContext(r)
        PROVE  UsesWhatItHolds' /\ EarlyIsOutermost'
      BY <2>1, <2>7 DEF CancelContext, poolVars, UsesWhatItHolds, EarlyIsOutermost
  <2>8. CASE UNCHANGED vars
      BY <2>8 DEF vars, poolVars, UsesWhatItHolds, EarlyIsOutermost
  <2>9. QED
      BY <1>6, <2>2, <2>3, <2>4, <2>5, <2>6, <2>7, <2>8 DEF Bystands
<1>7. QED
    BY LeaseSteps, <1>1, <1>2, <1>3, <1>4, <1>5, <1>6

\* What handlers compute with, in every behaviour.
LEMMA UsesInvariant == Spec => []UInv
<1>1. Init => UInv
  <2>1. Len(<<>>) = 0
      OBVIOUS
  <2>2. Init => UsesWhatItHolds /\ EarlyIsOutermost
      BY <2>1 DEF Init, UsesWhatItHolds, EarlyIsOutermost, NoCall
  <2>3. QED
      BY <2>2, InitEstablishes DEF UInv
<1>2. QED
    BY <1>1, UsesPreserved, PTL DEF Spec

\* No two handlers that complete no string literals compute with the same checker.
OthersUseExclusively ==
    \A r, q \in Request \ StringCompletion :
        using[r] = using[q] /\ using[r] # NoChecker => r = q

\* The handlers that return their checker when they are done with it compute with one
\* of their own, even beside completions in string literals, which return theirs before
\* they use it.
THEOREM OthersAreExclusive == Spec => []OthersUseExclusively
<1>1. ASSUME UInv PROVE OthersUseExclusively
  <2> SUFFICES ASSUME NEW r \in Request \ StringCompletion, NEW q \in Request \ StringCompletion,
                      using[r] = using[q], using[r] # NoChecker
               PROVE  r = q
      BY DEF OthersUseExclusively
  <2>1. /\ leases[r] # <<>> /\ leases[r][1].checker = using[r]
        /\ leases[q] # <<>> /\ leases[q][1].checker = using[r]
      BY <1>1 DEF UInv, UsesWhatItHolds
  <2>2. QED
      BY <1>1, <2>1, LeasesExclusive DEF UInv
<1>2. QED
    BY <1>1, UsesInvariant, PTL

\* But for completions in string literals no two handlers ever compute with the same
\* checker.
THEOREM ExclusiveUseButForStrings ==
    ASSUME StringCompletion = {}
    PROVE  Spec => []ExclusiveUse
<1>1. OthersUseExclusively => ExclusiveUse
    BY DEF OthersUseExclusively, ExclusiveUse
<1>2. QED
    BY <1>1, OthersAreExclusive, PTL

-----------------------------------------------------------------------------
\* A step that spoils no checker and takes no spoiled one from its holder.
LEMMA HoldersKeepTheSpoiled ==
    ASSUME IInv, CanceledNeverReused, ctxCanceled \subseteq ctxCanceled',
           \A j \in Slot : checkers'[j] # NoChecker /\ checkers'[j] \in wasCanceled' =>
               /\ checkers'[j] = checkers[j] /\ checkers[j] \in wasCanceled
               /\ \A q \in Request : Holds(q, checkers[j]) =>
                      leases'[q] # <<>> /\ leases'[q][1].checker = checkers[j]
    PROVE  CanceledNeverReused'
<1> SUFFICES ASSUME NEW j \in Slot, checkers'[j] # NoChecker, checkers'[j] \in wasCanceled'
             PROVE  \E q \in ctxCanceled' :
                       leases'[q] # <<>> /\ leases'[q][1].checker = checkers'[j]
    BY DEF CanceledNeverReused, Filled, Holds
<1>1. PICK q \in ctxCanceled : Holds(q, checkers[j])
    BY DEF CanceledNeverReused, Filled
<1>2. q \in Request
    BY DEF IInv, TypeOK
<1>3. QED
    BY <1>1, <1>2

\* A spoiled checker stays with the canceled request that spoiled it, and leaves
\* the pool when that request gives it back.
LEMMA CanceledStays == UInv /\ CanceledNeverReused /\ [Next]_vars => CanceledNeverReused'
<1> SUFFICES ASSUME UInv, CanceledNeverReused, [Next]_vars PROVE CanceledNeverReused'
    OBVIOUS
<1>0. IInv
    BY DEF UInv
<1>1. ASSUME NEW r \in Request, NEW k \in Call, NEW i \in Slot, Takes(r, k, i)
      PROVE  CanceledNeverReused'
  <2>1. /\ leases[r] = <<>> /\ Push(r, k, i, checkers[i])
        /\ UNCHANGED <<checkers, wasCanceled, ctxCanceled>>
      BY <1>1 DEF Takes, Asks, TakeIdle
  <2>2. \A q \in Request : q # r => leases'[q] = leases[q]
      BY <1>0, <2>1, AfterPush
  <2>3. QED
      BY <1>0, <2>1, <2>2, HoldersKeepTheSpoiled DEF Holds
<1>2. ASSUME NEW r \in Request, NEW k \in Call, NEW i \in Slot, NEW c \in Checker,
             Creates(r, k, i, c)
      PROVE  CanceledNeverReused'
  <2>1. /\ leases[r] = <<>> /\ Push(r, k, i, c)
        /\ checkers' = [checkers EXCEPT ![i] = c]
        /\ wasCanceled' = wasCanceled \ {c}
        /\ UNCHANGED ctxCanceled
      BY <1>2 DEF Creates, Asks, createCheckerLocked
  <2>2. \A q \in Request : q # r => leases'[q] = leases[q]
      BY <1>0, <2>1, AfterPush
  <2>3. \A j \in Slot : checkers'[j] # c => checkers'[j] = checkers[j]
      BY <1>0, <2>1 DEF IInv, TypeOK
  <2>4. QED
      BY <1>0, <2>1, <2>2, <2>3, HoldersKeepTheSpoiled DEF Holds
<1>3. ASSUME NEW r \in Request, Shares(r) \/ ReleasesNested(r)
      PROVE  CanceledNeverReused'
  <2>1. \A c : \A q \in Request : Holds(q, c) => leases'[q] # <<>> /\ leases'[q][1].checker = c
      BY <1>0, <1>3, AfterShare, AfterNested DEF Holds
  <2>2. UNCHANGED <<checkers, wasCanceled, ctxCanceled>>
      BY <1>3 DEF Shares, ReleasesNested
  <2>3. QED
      BY <1>0, <2>1, <2>2, HoldersKeepTheSpoiled
<1>4. ASSUME NEW r \in Request, ReleasesLast(r)
      PROVE  CanceledNeverReused'
  <2> DEFINE i == leases[r][1].index
             c == leases[r][1].checker
  <2>1. /\ leases[r] # <<>> /\ UNCHANGED <<wasCanceled, ctxCanceled>>
        /\ checkers' = IF c \in wasCanceled THEN [checkers EXCEPT ![i] = NoChecker]
                                            ELSE checkers
      BY <1>4 DEF ReleasesLast, GiveBack
  <2>2. /\ i \in Slot /\ checkers[i] = c /\ c \in Checker
      BY <1>0, <2>1, HolderLeasesSlot
  <2>3. \A q \in Request : q # r => leases'[q] = leases[q]
      BY <1>0, <1>4, AfterLast
  <2> HIDE DEF i, c
  <2>4. ASSUME NEW j \in Slot, checkers'[j] # NoChecker, checkers'[j] \in wasCanceled
        PROVE  checkers[j] = checkers'[j] /\ checkers[j] # c
    <3>1. CASE c \in wasCanceled
      <4>1. j # i /\ checkers[j] = checkers'[j]
          BY <1>0, <2>1, <2>2, <2>4, <3>1 DEF IInv, TypeOK
      <4>2. QED
          BY <1>0, <2>2, <2>4, <4>1 DEF IInv, SlotsDistinct, Filled
    <3>2. CASE c \notin wasCanceled
        BY <2>1, <2>4, <3>2
    <3>3. QED
        BY <3>1, <3>2
  <2>5. \A d : \A q \in Request : d # c /\ Holds(q, d) =>
            leases'[q] # <<>> /\ leases'[q][1].checker = d
      BY <2>3 DEF Holds, c
  <2>6. QED
      BY <1>0, <2>1, <2>4, <2>5, HoldersKeepTheSpoiled
<1>5. ASSUME NEW r \in Request, CheckSourceFile(r)
      PROVE  CanceledNeverReused'
  <2>1. /\ r \in ctxCanceled /\ Holds(r, using[r])
        /\ wasCanceled' = wasCanceled \cup {using[r]}
        /\ UNCHANGED <<checkers, leases, ctxCanceled>>
    <3>1. using[r] # NoChecker
        BY <1>5, PoolAssumption DEF CheckSourceFile
    <3>2. QED
        BY <1>5, <3>1 DEF CheckSourceFile, poolVars, UInv, UsesWhatItHolds, Holds
  <2>2. QED
      BY <2>1 DEF CanceledNeverReused, Filled, Holds
<1>6. ASSUME NEW r \in Request,
             GetAllCheckersLook(r) \/ StopUsing(r) \/ EndRequest(r) \/ CancelContext(r)
      PROVE  CanceledNeverReused'
  <2>1. /\ UNCHANGED <<checkers, wasCanceled, leases>>
        /\ ctxCanceled \subseteq ctxCanceled'
      BY <1>6 DEF GetAllCheckersLook, StartCall, StopUsing, EndRequest, CancelContext, poolVars
  <2>2. QED
      BY <2>1 DEF CanceledNeverReused, Filled, Holds
<1>7. ASSUME NEW r \in Request, NEW k \in Call, Park(r, k), UNCHANGED ctxCanceled
      PROVE  CanceledNeverReused'
    BY <1>7 DEF Park, poolVars, CanceledNeverReused, Filled, Holds
<1>8. CASE UNCHANGED vars
    BY <1>8 DEF vars, poolVars, CanceledNeverReused, Filled, Holds
<1>9. Bystands => CanceledNeverReused'
    BY <1>5, <1>6, <1>7, <1>8 DEF Bystands
<1>10. QED
    BY <1>0, <1>1, <1>2, <1>3, <1>4, <1>9, LeaseSteps

\* A checker interrupted by a canceled context is never there for another
\* request to take (GetDiagnostics would panic: "previously cancelled").
THEOREM CanceledIsNeverReused == Spec => []CanceledNeverReused
<1>1. Init => CanceledNeverReused
    BY DEF Init, CanceledNeverReused
<1>2. QED
    BY <1>1, CanceledStays, UsesInvariant, PTL DEF Spec

-----------------------------------------------------------------------------
(***************************************************************************)
(* Counting idle checkers against the waiters that have been woken.        *)
(***************************************************************************)

\* There are finitely many slots, hence idle checkers, and requests, hence woken ones.
LEMMA Finite == IsFiniteSet(Idle) /\ IsFiniteSet(Woken)
<1>1. IsFiniteSet(Slot)
    BY FS_Interval, PoolAssumption DEF Slot
<1>2. Idle \in SUBSET Slot /\ Woken \in SUBSET Request
    BY DEF Idle, Filled, Woken
<1>3. QED
    BY <1>1, <1>2, FS_Subset, RequestsAreFinite

\* The same after a step.
LEMMA FiniteNext == IsFiniteSet(Idle') /\ IsFiniteSet(Woken')
<1>1. IsFiniteSet(Slot)
    BY FS_Interval, PoolAssumption DEF Slot
<1>2. Idle' \in SUBSET Slot /\ Woken' \in SUBSET Request
    BY DEF Idle, Filled, Woken
<1>3. QED
    BY <1>1, <1>2, FS_Subset, RequestsAreFinite

\* Nothing to announce.
LEMMA NothingIdle == Idle' = {} => IdleCheckersAreAnnounced'
<1>1. Idle' = {} => Cardinality(Idle') = 0
    BY FS_EmptySet
<1>2. Cardinality(Woken') \in Nat
    BY FiniteNext, FS_CardinalityType
<1>3. QED
    BY <1>1, <1>2 DEF IdleCheckersAreAnnounced

\* No step leaves more checkers idle than waiters have been woken for, while one is parked.
LEMMA AnnouncedStays ==
    IInv /\ IdleCheckersAreAnnounced /\ [Next]_vars => IdleCheckersAreAnnounced'
<1> SUFFICES ASSUME IInv, IdleCheckersAreAnnounced, [Next]_vars
             PROVE  IdleCheckersAreAnnounced'
    OBVIOUS
<1>1. ASSUME NEW r \in Request, NEW k \in Call, NEW i \in Slot, Takes(r, k, i)
      PROVE  IdleCheckersAreAnnounced'
  <2>1. /\ i \in Idle /\ leases[r] = <<>> /\ pc[r] \in {"running", "looked", "woken"}
        /\ inUse' = inUse \cup {checkers[i]} /\ UNCHANGED checkers
        /\ Push(r, k, i, checkers[i])
      BY <1>1 DEF Takes, Asks, TakeIdle
  <2>2. Idle' = Idle \ {i}
      BY <2>1 DEF Idle, Filled, IInv, SlotsDistinct
  <2>3. pc'[r] = "running" /\ \A q \in Request : q # r => pc'[q] = pc[q]
      BY <2>1, AfterPush
  <2>4. Woken' = Woken \ {r} /\ Parked' = Parked
      BY <2>1, <2>3 DEF Woken, Parked
  <2>5. /\ Cardinality(Idle') = Cardinality(Idle) - 1
        /\ Cardinality(Woken') \in {Cardinality(Woken), Cardinality(Woken) - 1}
      BY <2>1, <2>2, <2>4, Finite, FS_RemoveElement
  <2>6. Cardinality(Idle) \in Nat /\ Cardinality(Woken) \in Nat
      BY Finite, FS_CardinalityType
  <2>7. QED
      BY <2>4, <2>5, <2>6 DEF IdleCheckersAreAnnounced
<1>2. ASSUME NEW r \in Request, NEW k \in Call, NEW i \in Slot, NEW c \in Checker,
             Creates(r, k, i, c)
      PROVE  IdleCheckersAreAnnounced'
  <2>1. /\ Idle = {} /\ inUse' = inUse \cup {c}
        /\ checkers' = [checkers EXCEPT ![i] = c]
      BY <1>2 DEF Creates, createCheckerLocked
  <2>2. \A j \in Slot : checkers'[j] = c \/ checkers'[j] = checkers[j]
      BY <2>1 DEF IInv, TypeOK
  <2>3. Idle' = {}
      BY <2>1, <2>2 DEF Idle, Filled
  <2>4. QED
      BY <2>3, NothingIdle
<1>3. ASSUME UNCHANGED <<checkers, inUse>>,
             \A q \in Request : pc'[q] # pc[q] => {pc[q], pc'[q]} \cap {"parked", "woken"} = {}
      PROVE  IdleCheckersAreAnnounced'
  <2>1. Idle' = Idle /\ Woken' = Woken /\ Parked' = Parked
      BY <1>3 DEF Idle, Filled, Woken, Parked
  <2>2. QED
      BY <2>1 DEF IdleCheckersAreAnnounced
<1>4. ASSUME NEW r \in Request, Shares(r) \/ ReleasesNested(r)
      PROVE  IdleCheckersAreAnnounced'
    BY <1>3, <1>4 DEF Shares, ReleasesNested, IInv, TypeOK
<1>5. ASSUME NEW r \in Request, ReleasesLast(r)
      PROVE  IdleCheckersAreAnnounced'
  <2> DEFINE i == leases[r][1].index
             c == leases[r][1].checker
  <2>1. /\ leases[r] # <<>> /\ Signal /\ inUse' = inUse \ {c}
        /\ checkers' = IF c \in wasCanceled THEN [checkers EXCEPT ![i] = NoChecker]
                                            ELSE checkers
      BY <1>5 DEF ReleasesLast, GiveBack
  <2>2. i \in Slot /\ checkers[i] = c /\ c \in Checker /\ c # NoChecker
      BY <2>1, HolderLeasesSlot, PoolAssumption
  <2> HIDE DEF i, c
  <2>3. \A j \in Slot : j # i => checkers'[j] = checkers[j] /\ checkers[j] # c
      BY <2>1, <2>2 DEF IInv, TypeOK, SlotsDistinct, Filled
  <2>4. Idle' \in SUBSET (Idle \cup {i})
      BY <2>1, <2>3 DEF Idle, Filled
  <2>5. Cardinality(Idle') <= Cardinality(Idle) + 1
    <3>1. /\ IsFiniteSet(Idle \cup {i})
          /\ Cardinality(Idle \cup {i}) \in {Cardinality(Idle), Cardinality(Idle) + 1}
        BY Finite, FS_AddElement
    <3>2. Cardinality(Idle') <= Cardinality(Idle \cup {i})
        BY <2>4, <3>1, FS_Subset
    <3>3. Cardinality(Idle) \in Nat /\ Cardinality(Idle') \in Nat
        BY Finite, FiniteNext, FS_CardinalityType
    <3>4. QED
        BY <3>1, <3>2, <3>3
  <2>6. CASE Parked = {} /\ UNCHANGED pc
      BY <2>6 DEF IdleCheckersAreAnnounced, Parked
  <2>7. ASSUME NEW w \in Parked, pc' = [pc EXCEPT ![w] = "woken"]
        PROVE  IdleCheckersAreAnnounced'
    <3>1. w \notin Woken /\ Woken' = Woken \cup {w}
        BY <2>7 DEF Woken, Parked, IInv, TypeOK
    <3>2. Cardinality(Woken') = Cardinality(Woken) + 1
        BY <3>1, Finite, FS_AddElement
    <3>3. /\ Cardinality(Idle) \in Nat /\ Cardinality(Idle') \in Nat
          /\ Cardinality(Woken) \in Nat
        BY Finite, FiniteNext, FS_CardinalityType
    <3>4. Cardinality(Idle) <= Cardinality(Woken)
        BY <2>7 DEF IdleCheckersAreAnnounced
    <3>5. QED
        BY <2>5, <3>2, <3>3, <3>4 DEF IdleCheckersAreAnnounced
  <2>8. QED
      BY <2>1, <2>6, <2>7 DEF Signal
<1>6. ASSUME NEW r \in Request,
             GetAllCheckersLook(r) \/ CheckSourceFile(r) \/ StopUsing(r)
             \/ EndRequest(r) \/ CancelContext(r)
      PROVE  IdleCheckersAreAnnounced'
  <2>1. UNCHANGED <<checkers, inUse>>
      BY <1>6 DEF GetAllCheckersLook, CheckSourceFile, StopUsing, EndRequest,
                  CancelContext, poolVars
  <2>2. \A q \in Request : pc'[q] = pc[q] \/ (pc[q] = "running" /\ pc'[q] \in {"looked", "done"})
      BY <1>6 DEF GetAllCheckersLook, StartCall, CheckSourceFile, StopUsing, EndRequest,
                  CancelContext, poolVars, IInv, TypeOK
  <2>3. QED
      BY <1>3, <2>1, <2>2
<1>7. ASSUME Idle = {}, NEW r \in Request, NEW k \in Call, Park(r, k)
      PROVE  IdleCheckersAreAnnounced'
  <2>1. Idle' = {}
      BY <1>7 DEF Park, poolVars, Idle, Filled
  <2>2. QED
      BY <2>1, NothingIdle
<1>8. ASSUME UNCHANGED vars
      PROVE  IdleCheckersAreAnnounced'
    BY <1>3, <1>8 DEF vars, poolVars
<1>9. Bystands => IdleCheckersAreAnnounced'
    BY <1>6, <1>7, <1>8 DEF Bystands
<1>10. QED
    BY <1>1, <1>2, <1>4, <1>5, <1>9, LeaseSteps

\* While requests wait, a wake-up is under way for every idle checker: the one
\* Signal per release loses none (waitForAvailableChecker looks again).
THEOREM IdleAnnounced == Spec => []IdleCheckersAreAnnounced
<1>1. Init => IdleCheckersAreAnnounced
    BY DEF Init, IdleCheckersAreAnnounced, Parked
<1>2. QED
    BY <1>1, AnnouncedStays, Invariance, PTL DEF Spec
=============================================================================
