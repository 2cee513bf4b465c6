--------------------------- MODULE SchedulerProofs ---------------------------
(***************************************************************************)
(* Proofs about Scheduler for every number of processes, semaphores,       *)
(* priorities and contexts.                                                *)
(***************************************************************************)
EXTENDS Scheduler, WellFoundedInduction, TLAPS

Links == [first : [List -> Process \union {Nil}],
          last  : [List -> Process \union {Nil}],
          next  : [Process -> Process \union {Nil}],
          myList: [Process -> List \union {Nil}],
          queue : [List -> Seq(Process)]]

NotIn(k, p) == \A l \in List : \A i \in 1 .. Len(k.queue[l]) : k.queue[l][i] # p

USE ConstantsAssumption

-----------------------------------------------------------------------------
(* A list whose first link is nil is empty, and no other one is.           *)
LEMMA EmptyList ==
  ASSUME NEW k \in Links, EndsRight(k), NEW l \in List
  PROVE  isEmptyList(k, l) <=> k.queue[l] = <<>>
  BY DEF Links, EndsRight, isEmptyList

(* Adding a process that stands in no list keeps the lists well formed.    *)
LEMMA AddLastWellFormed ==
  ASSUME NEW k \in Links, WellFormed(k), NEW p \in Process, NotIn(k, p), NEW l \in List
  PROVE  LET r == addLastLink_toList(k, p, l)
         IN  /\ r \in Links
             /\ WellFormed(r)
             /\ r.queue = [k.queue EXCEPT ![l] = Append(@, p)]
<1> DEFINE r == addLastLink_toList(k, p, l)
           q == k.queue
           n == Len(q[l])
<1>1. /\ q \in [List -> Seq(Process)] /\ n \in Nat
      /\ r.queue = [q EXCEPT ![l] = Append(@, p)]
  BY DEF Links, addLastLink_toList
<1>2. /\ r.queue \in [List -> Seq(Process)]
      /\ Len(r.queue[l]) = n + 1
      /\ r.queue[l][n + 1] = p
      /\ \A i \in 1 .. n : r.queue[l][i] = q[l][i]
      /\ \A m \in List : m # l => r.queue[m] = q[m]
  BY <1>1
<1>3. isEmptyList(k, l) <=> n = 0
  BY EmptyList, <1>1 DEF WellFormed
<1>4. ~isEmptyList(k, l) => k.last[l] = q[l][n] /\ k.last[l] \in Process
  BY <1>3, <1>1 DEF WellFormed, EndsRight
<1>5. r \in Links
  BY <1>2, <1>4 DEF Links, addLastLink_toList
<1>6. EndsRight(r)
  <2>1. /\ r.first = IF n = 0 THEN [k.first EXCEPT ![l] = p] ELSE k.first
        /\ r.last = [k.last EXCEPT ![l] = p]
        /\ k.first \in [List -> Process \union {Nil}]
        /\ k.last \in [List -> Process \union {Nil}]
    BY <1>3 DEF Links, addLastLink_toList
  <2> SUFFICES ASSUME NEW m \in List
               PROVE  /\ r.queue[m] = <<>> => r.first[m] = Nil /\ r.last[m] = Nil
                      /\ r.queue[m] # <<>> =>
                           /\ r.first[m] = r.queue[m][1]
                           /\ r.last[m] = r.queue[m][Len(r.queue[m])]
    BY DEF EndsRight
  <2>2. CASE m # l
    BY <2>1, <2>2, <1>2 DEF WellFormed, EndsRight
  <2>3. CASE m = l
    <3>1. r.last[m] = p /\ r.queue[m] # <<>>
      <4>1. r.last[m] = p
        BY <2>1, <2>3
      <4>2. Len(r.queue[m]) # 0
        BY <2>3, <1>2, <1>1
      <4> QED BY <4>1, <4>2
    <3>2. n = 0 => r.first[m] = p
      BY <2>1, <2>3
    <3>3. n > 0 => r.first[m] = q[l][1]
      BY <2>1, <2>3, <1>1 DEF WellFormed, EndsRight
    <3> QED BY <3>1, <3>2, <3>3, <2>3, <1>1, <1>2
  <2> QED BY <2>2, <2>3
<1>7. NoProcessTwice(r)
  BY <1>1, <1>2 DEF WellFormed, NoProcessTwice, NotIn
<1>8. MyListRight(r)
  <2>1. r.myList = [k.myList EXCEPT ![p] = l] /\ k.myList \in [Process -> List \union {Nil}]
    BY DEF Links, addLastLink_toList
  <2> SUFFICES ASSUME NEW m \in List, NEW i \in 1 .. Len(r.queue[m])
               PROVE  r.myList[r.queue[m][i]] = m
    BY DEF MyListRight
  <2>2. CASE m # l
    BY <2>1, <2>2, <1>1, <1>2 DEF WellFormed, MyListRight, NotIn
  <2>3. CASE m = l /\ i = n + 1
    BY <2>1, <2>3, <1>2
  <2>4. CASE m = l /\ i \in 1 .. n
    BY <2>1, <2>4, <1>1, <1>2 DEF WellFormed, MyListRight, NotIn
  <2> QED BY <2>2, <2>3, <2>4, <1>1, <1>2
<1>9. NextRight(r) /\ LooseEndsNil(r)
  <2>1. k.next \in [Process -> Process \union {Nil}] /\ k.next[p] = Nil
    BY DEF Links, WellFormed, LooseEndsNil, NotIn
  <2>2. CASE n = 0
    <3>1. r.next = k.next
      BY <2>2, <1>3 DEF addLastLink_toList
    <3>2. NextRight(r)
      <4> SUFFICES ASSUME NEW m \in List, NEW i \in 1 .. Len(r.queue[m])
                   PROVE  r.next[r.queue[m][i]] =
                            IF i < Len(r.queue[m]) THEN r.queue[m][i + 1] ELSE Nil
        BY DEF NextRight
      <4>1. CASE m # l
        BY <4>1, <3>1, <1>1, <1>2 DEF WellFormed, NextRight
      <4>2. CASE m = l
        BY <4>2, <3>1, <2>1, <2>2, <1>1, <1>2
      <4> QED BY <4>1, <4>2
    <3>3. LooseEndsNil(r)
      <4> SUFFICES ASSUME NEW x \in Process, NotIn(r, x)
                   PROVE  r.next[x] = Nil
        BY DEF LooseEndsNil, NotIn
      <4>1. NotIn(k, x)
        BY <2>2, <1>1, <1>2 DEF NotIn
      <4> QED BY <4>1, <3>1 DEF WellFormed, LooseEndsNil, NotIn
    <3> QED BY <3>2, <3>3
  <2>3. CASE n > 0
    <3>1. r.next = [k.next EXCEPT ![q[l][n]] = p] /\ q[l][n] \in Process /\ q[l][n] # p
      <4>1. n \in 1 .. n /\ n # 0
        BY <2>3, <1>1
      <4>2. q[l][n] \in Process /\ q[l][n] # p
        BY <4>1, <1>1 DEF NotIn
      <4>3. ~isEmptyList(k, l) /\ k.last[l] = q[l][n]
        BY <4>1, <1>3, <1>4
      <4>4. r.next = [k.next EXCEPT ![k.last[l]] = p]
        BY <4>3 DEF addLastLink_toList
      <4> QED BY <4>2, <4>3, <4>4
    <3>2. NextRight(r)
      <4> SUFFICES ASSUME NEW m \in List, NEW i \in 1 .. Len(r.queue[m])
                   PROVE  r.next[r.queue[m][i]] =
                            IF i < Len(r.queue[m]) THEN r.queue[m][i + 1] ELSE Nil
        BY DEF NextRight
      <4>1. CASE m # l
        <5>1. r.queue[m] = q[m] /\ q[m][i] # q[l][n] /\ q[m][i] \in Process
          BY <4>1, <2>3, <1>1, <1>2 DEF WellFormed, NoProcessTwice
        <5>2. r.next[q[m][i]] = k.next[q[m][i]]
          BY <5>1, <3>1, <2>1
        <5> QED BY <5>1, <5>2, <1>1 DEF WellFormed, NextRight
      <4>2. CASE m = l /\ i = n + 1
        BY <4>2, <3>1, <2>1, <1>2
      <4>3. CASE m = l /\ i = n
        BY <4>3, <3>1, <2>1, <2>3, <1>1, <1>2
      <4>4. CASE m = l /\ i < n
        BY <4>4, <3>1, <2>1, <2>3, <1>1, <1>2 DEF WellFormed, NextRight, NoProcessTwice
      <4> QED BY <4>1, <4>2, <4>3, <4>4, <1>1, <1>2
    <3>3. LooseEndsNil(r)
      <4> SUFFICES ASSUME NEW x \in Process, NotIn(r, x)
                   PROVE  r.next[x] = Nil
        BY DEF LooseEndsNil, NotIn
      <4>1. NotIn(k, x) /\ x # q[l][n]
        <5>1. n \in 1 .. Len(r.queue[l]) /\ r.queue[l][n] = q[l][n]
          BY <2>3, <1>1, <1>2
        <5>2. x # q[l][n]
          BY <5>1 DEF NotIn
        <5>3. ASSUME NEW m \in List, NEW i \in 1 .. Len(q[m])
              PROVE  i \in 1 .. Len(r.queue[m]) /\ r.queue[m][i] = q[m][i]
          BY <1>1, <1>2
        <5>4. NotIn(k, x)
          BY <5>3 DEF NotIn
        <5> QED BY <5>2, <5>4
      <4> QED BY <4>1, <3>1, <2>1 DEF WellFormed, LooseEndsNil, NotIn
    <3> QED BY <3>2, <3>3
  <2> QED BY <2>2, <2>3, <1>1
<1> QED BY <1>1, <1>5, <1>6, <1>7, <1>8, <1>9 DEF WellFormed

(* Removing the first link keeps them well formed and frees that process.  *)
LEMMA RemoveFirstWellFormed ==
  ASSUME NEW k \in Links, WellFormed(k), NEW l \in List, ~isEmptyList(k, l)
  PROVE  LET r == removeFirstLinkOfList(k, l)
         IN  /\ r \in Links
             /\ WellFormed(r)
             /\ r.queue = [k.queue EXCEPT ![l] = Tail(@)]
             /\ k.queue[l] # <<>>
             /\ k.first[l] = Head(k.queue[l])
             /\ k.first[l] \in Process
             /\ NotIn(r, k.first[l])
<1> DEFINE r == removeFirstLinkOfList(k, l)
           q == k.queue
           n == Len(q[l])
           p == k.first[l]
<1>1. /\ q \in [List -> Seq(Process)] /\ n \in Nat /\ n > 0
      /\ r.queue = [q EXCEPT ![l] = Tail(@)]
      /\ p = q[l][1] /\ p \in Process /\ k.last[l] = q[l][n] /\ p = Head(q[l])
  <2>1. q \in [List -> Seq(Process)] /\ r.queue = [q EXCEPT ![l] = Tail(@)]
    BY DEF Links, removeFirstLinkOfList
  <2>2. q[l] # <<>>
    BY EmptyList DEF WellFormed
  <2>3. n \in Nat /\ n > 0 /\ q[l][1] \in Process /\ Head(q[l]) = q[l][1]
    BY <2>1, <2>2
  <2>4. p = q[l][1] /\ k.last[l] = q[l][n]
    BY <2>2 DEF WellFormed, EndsRight
  <2> QED BY <2>1, <2>3, <2>4
<1>0. n \in Nat /\ n > 0
  BY <1>1
<1>2. /\ r.queue \in [List -> Seq(Process)]
      /\ Len(r.queue[l]) = n - 1
      /\ \A i \in 1 .. n - 1 : r.queue[l][i] = q[l][i + 1]
      /\ \A m \in List : m # l => r.queue[m] = q[m]
  BY <1>1
<1>3. k.last[l] = p <=> n = 1
  <2>1. \A i, j \in 1 .. n : q[l][i] = q[l][j] => i = j
    BY <1>1 DEF WellFormed, NoProcessTwice
  <2>2. 1 \in 1 .. n /\ n \in 1 .. n
    BY <1>1
  <2> QED BY <2>1, <2>2, <1>1
<1>4. k.next \in [Process -> Process \union {Nil}] /\ r.next = [k.next EXCEPT ![p] = Nil]
  BY DEF Links, removeFirstLinkOfList, linksWithout
<1>5. n > 1 => k.next[p] = q[l][2] /\ q[l][2] \in Process
  BY <1>1 DEF WellFormed, NextRight
<1>6. NotIn(r, p)
  BY <1>1, <1>2 DEF NotIn, WellFormed, NoProcessTwice
<1>7. r \in Links
  BY <1>1, <1>2, <1>3, <1>4, <1>5 DEF Links, removeFirstLinkOfList, linksWithout
<1>8. EndsRight(r)
  <2>1. /\ r.first = [k.first EXCEPT ![l] = IF n = 1 THEN Nil ELSE k.next[p]]
        /\ r.last = [k.last EXCEPT ![l] = IF n = 1 THEN Nil ELSE @]
        /\ k.first \in [List -> Process \union {Nil}]
        /\ k.last \in [List -> Process \union {Nil}]
    BY <1>3 DEF Links, removeFirstLinkOfList
  <2> SUFFICES ASSUME NEW m \in List
               PROVE  /\ r.queue[m] = <<>> => r.first[m] = Nil /\ r.last[m] = Nil
                      /\ r.queue[m] # <<>> =>
                           /\ r.first[m] = r.queue[m][1]
                           /\ r.last[m] = r.queue[m][Len(r.queue[m])]
    BY DEF EndsRight
  <2>2. CASE m # l
    BY <2>1, <2>2, <1>2 DEF WellFormed, EndsRight
  <2>3. CASE m = l /\ n = 1
    <3>1. r.queue[m] = <<>>
      BY <2>3, <1>2
    <3> QED BY <3>1, <2>1, <2>3
  <2>4. CASE m = l /\ n > 1
    <3>1. /\ r.queue[m] # <<>> /\ Len(r.queue[m]) = n - 1
          /\ r.queue[m][1] = q[l][2] /\ r.queue[m][n - 1] = q[l][n]
      <4>1. Len(r.queue[m]) = n - 1 /\ n - 1 \in 1 .. n - 1 /\ 1 \in 1 .. n - 1
        BY <2>4, <1>1, <1>2
      <4>2. r.queue[m][1] = q[l][1 + 1] /\ r.queue[m][n - 1] = q[l][(n - 1) + 1]
        BY <4>1, <2>4, <1>2
      <4>3. Len(r.queue[m]) # 0
        BY <4>1, <2>4, <1>1
      <4>4. n - 1 + 1 = n /\ 1 + 1 = 2 /\ r.queue[m] # <<>>
        BY <4>3, <1>0
      <4> QED BY <4>1, <4>2, <4>4
    <3>2. r.first[m] = q[l][2] /\ r.last[m] = q[l][n]
      BY <2>1, <2>4, <1>1, <1>5
    <3> QED BY <3>1, <3>2
  <2>5. n = 1 \/ n > 1
    <3> HIDE DEF n
    <3> QED BY <1>0
  <2> QED BY <2>2, <2>3, <2>4, <2>5
<1>9. NoProcessTwice(r)
  <2> SUFFICES ASSUME NEW l1 \in List, NEW m1 \in List,
                      NEW i \in 1 .. Len(r.queue[l1]), NEW j \in 1 .. Len(r.queue[m1]),
                      r.queue[l1][i] = r.queue[m1][j]
               PROVE  l1 = m1 /\ i = j
    BY DEF NoProcessTwice
  <2> DEFINE ShiftOf(m) == IF m = l THEN 1 ELSE 0
  <2>1. ASSUME NEW m \in List, NEW h \in 1 .. Len(r.queue[m])
        PROVE  /\ h + ShiftOf(m) \in 1 .. Len(q[m])
               /\ r.queue[m][h] = q[m][h + ShiftOf(m)]
    <3>1. CASE m = l
      BY <2>1, <3>1, <1>1, <1>2
    <3>2. CASE m # l
      <4>1. r.queue[m] = q[m] /\ h \in Nat
        BY <2>1, <3>2, <1>2
      <4> QED BY <4>1, <3>2, <2>1
    <3> QED BY <3>1, <3>2
  <2>2. l1 = m1 /\ i + ShiftOf(l1) = j + ShiftOf(m1)
    <3>1. /\ i + ShiftOf(l1) \in 1 .. Len(q[l1])
          /\ r.queue[l1][i] = q[l1][i + ShiftOf(l1)]
      BY <2>1
    <3>2. /\ j + ShiftOf(m1) \in 1 .. Len(q[m1])
          /\ r.queue[m1][j] = q[m1][j + ShiftOf(m1)]
      BY <2>1
    <3>3. \A l2, m2 \in List : \A a \in 1 .. Len(q[l2]), b \in 1 .. Len(q[m2]) :
            q[l2][a] = q[m2][b] => l2 = m2 /\ a = b
      BY DEF WellFormed, NoProcessTwice
    <3>4. q[l1][i + ShiftOf(l1)] = q[m1][j + ShiftOf(m1)]
      BY <3>1, <3>2
    <3> HIDE DEF ShiftOf, q, r, n
    <3> QED BY <3>1, <3>2, <3>3, <3>4
  <2>3. i \in Int /\ j \in Int
    OBVIOUS
  <2> QED BY <2>2, <2>3
<1>10. MyListRight(r)
  <2>1. r.myList = k.myList
    BY DEF removeFirstLinkOfList
  <2> QED BY <2>1, <1>1, <1>2 DEF WellFormed, MyListRight
<1>11. NextRight(r)
  <2> SUFFICES ASSUME NEW m \in List, NEW i \in 1 .. Len(r.queue[m])
               PROVE  r.next[r.queue[m][i]] =
                        IF i < Len(r.queue[m]) THEN r.queue[m][i + 1] ELSE Nil
    BY DEF NextRight
  <2>1. r.queue[m][i] # p /\ r.queue[m][i] \in Process
    BY <1>6, <1>2 DEF NotIn
  <2>2. r.next[r.queue[m][i]] = k.next[r.queue[m][i]]
    BY <2>1, <1>4
  <2>3. CASE m # l
    BY <2>2, <2>3, <1>1, <1>2 DEF WellFormed, NextRight
  <2>4. CASE m = l
    <3>1. i + 1 \in 1 .. n /\ r.queue[m][i] = q[l][i + 1]
      BY <2>4, <1>1, <1>2
    <3>2. k.next[q[l][i + 1]] = IF i + 1 < n THEN q[l][i + 2] ELSE Nil
      BY <3>1, <1>1 DEF WellFormed, NextRight
    <3> QED BY <3>1, <3>2, <2>2, <2>4, <1>1, <1>2
  <2> QED BY <2>3, <2>4
<1>12. LooseEndsNil(r)
  <2> SUFFICES ASSUME NEW x \in Process, NotIn(r, x)
               PROVE  r.next[x] = Nil
    BY DEF LooseEndsNil, NotIn
  <2>1. CASE x = p
    BY <2>1, <1>1, <1>4
  <2>2. CASE x # p
    <3>1. NotIn(k, x)
      <4> SUFFICES ASSUME NEW m \in List, NEW i \in 1 .. Len(q[m]), q[m][i] = x
                   PROVE  FALSE
        BY DEF NotIn
      <4>1. CASE m # l
        BY <4>1, <1>1, <1>2 DEF NotIn
      <4>2. CASE m = l
        <5>1. i # 1 /\ i - 1 \in 1 .. Len(r.queue[l]) /\ r.queue[l][i - 1] = q[l][i]
          BY <4>2, <2>2, <1>1, <1>2
        <5> QED BY <5>1, <4>2 DEF NotIn
      <4> QED BY <4>1, <4>2
    <3> QED BY <3>1, <2>2, <1>1, <1>4 DEF WellFormed, LooseEndsNil, NotIn
  <2> QED BY <2>1, <2>2
<1> QED BY <1>1, <1>6, <1>7, <1>8, <1>9, <1>10, <1>11, <1>12 DEF WellFormed

-----------------------------------------------------------------------------
(* A nonempty set of naturals has a least element.                         *)
LEMMA LeastNat ==
  ASSUME NEW T \in SUBSET Nat, T # {}
  PROVE  \E x \in T : \A y \in T : x <= y
<1> DEFINE R == OpToRel(<, Nat)
<1>1. IsWellFoundedOn(R, Nat)
  BY NatLessThanWellFounded
<1>2. \A x, y \in Nat : <<x, y>> \in R <=> x < y
  BY DEF OpToRel
<1> HIDE DEF R
<1>3. PICK x \in T : \A y \in T : ~(<<y, x>> \in R)
  BY <1>1, WFMin
<1>4. x \in Nat /\ \A y \in T : y \in Nat /\ ~(y < x)
  BY <1>2, <1>3
<1> QED BY <1>4

(* wakeHighestPriority finds the highest ready list that is not empty.     *)
LEMMA HighestReadyList ==
  ASSUME NEW k, ProcessToWake(k)
  PROVE  LET l == wakeHighestPriority(k)
         IN  /\ l \in ReadyList
             /\ ~isEmptyList(k, l)
             /\ \A m \in ReadyList : m > l => isEmptyList(k, m)
<1> DEFINE T == {Levels - l : l \in {l \in ReadyList : ~isEmptyList(k, l)}}
<1>1. T \in SUBSET Nat /\ T # {}
  BY DEF ProcessToWake, ReadyList
<1>2. PICK x \in T : \A y \in T : x <= y
  BY <1>1, LeastNat
<1>3. PICK l \in ReadyList : ~isEmptyList(k, l) /\ x = Levels - l
  BY <1>2
<1>4. ASSUME NEW m \in ReadyList, m > l, ~isEmptyList(k, m)
      PROVE  FALSE
  <2>1. x <= Levels - m
    BY <1>2, <1>4
  <2> QED BY <2>1, <1>3, <1>4 DEF ReadyList
<1> QED BY <1>3, <1>4 DEF wakeHighestPriority

-----------------------------------------------------------------------------
(***************************************************************************)
(* What holds of the lists k when process a is the one that runs.          *)
(***************************************************************************)
ReadySorted(k) ==
  \A l \in ReadyList : \A i \in 1 .. Len(k.queue[l]) : Priority[k.queue[l][i]] = l

Below(k, n) == \A l \in ReadyList : k.queue[l] # <<>> => l <= n

BackgroundReady(k) ==
  \E i \in 1 .. Len(k.queue[Priority[Background]]) :
    k.queue[Priority[Background]][i] = Background

Good(k) == k \in Links /\ WellFormed(k) /\ ReadySorted(k)

Sound(k, a) ==
  /\ Good(k)
  /\ a \in Process
  /\ NotIn(k, a)
  /\ Below(k, Priority[a])
  /\ a = Background \/ BackgroundReady(k)

(* Process p goes to sleep in its ready list.                              *)
LEMMA SleepGood ==
  ASSUME NEW k, Good(k), NEW p \in Process, NotIn(k, p)
  PROVE  LET r == sleep(k, p)
         IN  /\ Good(r)
             /\ r.queue = [k.queue EXCEPT ![Priority[p]] = Append(@, p)]
             /\ p = Background \/ BackgroundReady(k) => BackgroundReady(r)
             /\ \A x \in Process : x # p /\ NotIn(k, x) => NotIn(r, x)
             /\ \A n \in Nat : Below(k, n) /\ Priority[p] <= n => Below(r, n)
             /\ \A s \in Semaphore : r.queue[s] = k.queue[s]
<1> DEFINE r == sleep(k, p)
           o == Priority[p]
           q == k.queue
           n == Len(q[o])
<1>1. o \in List /\ o \in ReadyList /\ o \notin Semaphore
  BY DEF List
<1>2. r \in Links /\ WellFormed(r) /\ r.queue = [q EXCEPT ![o] = Append(@, p)]
  BY <1>1, AddLastWellFormed DEF Good, sleep
<1>3. q \in [List -> Seq(Process)] /\ n \in Nat
  BY <1>1 DEF Good, Links
<1>4. /\ Len(r.queue[o]) = n + 1
      /\ r.queue[o][n + 1] = p
      /\ \A i \in 1 .. n : r.queue[o][i] = q[o][i]
      /\ \A m \in List : m # o => r.queue[m] = q[m]
  BY <1>1, <1>2, <1>3
<1> HIDE DEF r
<1>5. ReadySorted(r)
  <2> SUFFICES ASSUME NEW l \in ReadyList, NEW i \in 1 .. Len(r.queue[l])
               PROVE  Priority[r.queue[l][i]] = l
    BY DEF ReadySorted
  <2>1. CASE l # o
    BY <2>1, <1>4 DEF Good, ReadySorted, List
  <2>2. CASE l = o /\ i = n + 1
    BY <2>2, <1>4
  <2>3. CASE l = o /\ i \in 1 .. n
    BY <2>3, <1>4 DEF Good, ReadySorted
  <2> QED BY <2>1, <2>2, <2>3, <1>3, <1>4
<1>6. p = Background => BackgroundReady(r)
  <2>1. n + 1 \in 1 .. Len(r.queue[o])
    BY <1>3, <1>4
  <2> QED BY <2>1, <1>4 DEF BackgroundReady
<1>7. BackgroundReady(k) => BackgroundReady(r)
  <2> SUFFICES ASSUME BackgroundReady(k) PROVE BackgroundReady(r)
    OBVIOUS
  <2>1. Priority[Background] \in List
    BY DEF List
  <2>2. PICK i \in 1 .. Len(q[Priority[Background]]) :
               q[Priority[Background]][i] = Background
    BY DEF BackgroundReady
  <2>3. i \in 1 .. Len(r.queue[Priority[Background]])
        /\ r.queue[Priority[Background]][i] = Background
    BY <2>1, <2>2, <1>3, <1>4
  <2> QED BY <2>3 DEF BackgroundReady
<1>8. ASSUME NEW x \in Process, x # p, NotIn(k, x)
      PROVE  NotIn(r, x)
  <2> SUFFICES ASSUME NEW l \in List, NEW i \in 1 .. Len(r.queue[l])
               PROVE  r.queue[l][i] # x
    BY DEF NotIn
  <2>1. CASE l # o
    BY <1>8, <2>1, <1>4 DEF NotIn
  <2>2. CASE l = o /\ i = n + 1
    BY <1>8, <2>2, <1>4
  <2>3. CASE l = o /\ i \in 1 .. n
    <3>1. r.queue[l][i] = q[l][i]
      BY <2>3, <1>4
    <3>2. q[l][i] # x
      BY <1>8, <2>3 DEF NotIn
    <3> QED BY <3>1, <3>2
  <2> QED BY <2>1, <2>2, <2>3, <1>3, <1>4
<1>9. ASSUME NEW m \in Nat, Below(k, m), o <= m
      PROVE  Below(r, m)
  BY <1>9, <1>4 DEF Below, List
<1>10. \A s \in Semaphore : r.queue[s] = q[s]
  BY <1>1, <1>4 DEF List
<1> QED BY <1>2, <1>5, <1>6, <1>7, <1>8, <1>9, <1>10 DEF Good, r

(* The first process of list l leaves it.                                  *)
LEMMA RemoveFirstGood ==
  ASSUME NEW k, Good(k), NEW l \in List, ~isEmptyList(k, l)
  PROVE  LET r == removeFirstLinkOfList(k, l)
             p == k.first[l]
         IN  /\ Good(r)
             /\ r.queue = [k.queue EXCEPT ![l] = Tail(@)]
             /\ k.queue[l] # <<>> /\ p = Head(k.queue[l]) /\ p \in Process
             /\ l \in ReadyList => Priority[p] = l
             /\ NotIn(r, p)
             /\ \A x \in Process : NotIn(k, x) => NotIn(r, x) /\ x # p
             /\ \A n \in Nat : Below(k, n) => Below(r, n)
             /\ BackgroundReady(k) => \/ BackgroundReady(r)
                                      \/ p = Background /\ l \in ReadyList
             /\ \A s \in Semaphore : l # s => r.queue[s] = k.queue[s]
<1> DEFINE r == removeFirstLinkOfList(k, l)
           p == k.first[l]
           q == k.queue
           n == Len(q[l])
<1>1. /\ r \in Links /\ WellFormed(r) /\ r.queue = [q EXCEPT ![l] = Tail(@)]
      /\ q[l] # <<>> /\ p = Head(q[l]) /\ p \in Process /\ NotIn(r, p)
  BY RemoveFirstWellFormed DEF Good
<1>2. q \in [List -> Seq(Process)] /\ n \in Nat /\ n > 0 /\ p = q[l][1]
  <2>1. q \in [List -> Seq(Process)]
    BY DEF Good, Links
  <2> QED BY <2>1, <1>1
<1>3. /\ Len(r.queue[l]) = n - 1
      /\ \A i \in 1 .. n - 1 : r.queue[l][i] = q[l][i + 1]
      /\ \A m \in List : m # l => r.queue[m] = q[m]
  BY <1>1, <1>2
<1> HIDE DEF r
<1>4. ReadySorted(r)
  <2> SUFFICES ASSUME NEW m \in ReadyList, NEW i \in 1 .. Len(r.queue[m])
               PROVE  Priority[r.queue[m][i]] = m
    BY DEF ReadySorted
  <2>1. CASE m # l
    BY <2>1, <1>3 DEF Good, ReadySorted, List
  <2>2. CASE m = l
    <3>1. i + 1 \in 1 .. n /\ i \in 1 .. n - 1
      BY <2>2, <1>2, <1>3
    <3> QED BY <3>1, <2>2, <1>3 DEF Good, ReadySorted
  <2> QED BY <2>1, <2>2
<1>5. l \in ReadyList => Priority[p] = l
  <2>1. 1 \in 1 .. n
    BY <1>2
  <2> QED BY <2>1, <1>2 DEF Good, ReadySorted
<1>6. ASSUME NEW x \in Process, NotIn(k, x)
      PROVE  NotIn(r, x) /\ x # p
  <2>1. x # p
    <3>1. 1 \in 1 .. n
      BY <1>2
    <3> QED BY <3>1, <1>2, <1>6 DEF NotIn
  <2>2. ASSUME NEW m \in List, NEW i \in 1 .. Len(r.queue[m])
        PROVE  r.queue[m][i] # x
    <3>1. CASE m # l
      BY <3>1, <1>3, <1>6 DEF NotIn
    <3>2. CASE m = l
      <4>1. i + 1 \in 1 .. n /\ i \in 1 .. n - 1
        BY <3>2, <1>2, <1>3
      <4> QED BY <4>1, <3>2, <1>3, <1>6 DEF NotIn
    <3> QED BY <3>1, <3>2
  <2> QED BY <2>1, <2>2 DEF NotIn
<1>7. ASSUME NEW m \in Nat, Below(k, m)
      PROVE  Below(r, m)
  <2> SUFFICES ASSUME NEW o \in ReadyList, r.queue[o] # <<>>
               PROVE  o <= m
    BY DEF Below
  <2>1. q[o] # <<>>
    BY <1>1, <1>3 DEF List
  <2> QED BY <2>1, <1>7 DEF Below
<1>8. ASSUME BackgroundReady(k)
      PROVE  BackgroundReady(r) \/ (p = Background /\ l \in ReadyList)
  <2> DEFINE b == Priority[Background]
  <2>1. b \in List /\ b \in ReadyList
    BY DEF List
  <2>2. PICK i \in 1 .. Len(q[b]) : q[b][i] = Background
    BY <1>8 DEF BackgroundReady
  <2>3. CASE b # l
    BY <2>1, <2>2, <2>3, <1>3 DEF BackgroundReady
  <2>4. CASE b = l /\ i = 1
    BY <2>1, <2>2, <2>4, <1>2
  <2>5. CASE b = l /\ i # 1
    <3>1. i - 1 \in 1 .. n - 1 /\ (i - 1) + 1 = i
      BY <2>2, <2>5, <1>2
    <3>2. i - 1 \in 1 .. Len(r.queue[b]) /\ r.queue[b][i - 1] = Background
      BY <3>1, <2>2, <2>5, <1>3
    <3> QED BY <3>2 DEF BackgroundReady
  <2> QED BY <2>3, <2>4, <2>5
<1>9. \A s \in Semaphore : l # s => r.queue[s] = q[s]
  BY <1>3 DEF List
<1> QED BY <1>1, <1>4, <1>5, <1>6, <1>7, <1>8, <1>9 DEF Good, r

-----------------------------------------------------------------------------
(* The registers of a pending switch.                                      *)
Registers ==
  /\ activeProcessField \in Process
  /\ newProcess \in Process \union {Nil}
  /\ newProcessWaiting \in BOOLEAN
  /\ newProcessWaiting = (newProcess # Nil)

(* A process becomes ready and perhaps preempts the active one.            *)
LEMMA ResumeSound ==
  ASSUME NEW k, Registers, Sound(k, activeProcess), NEW p \in Process, NotIn(k, p),
         p # activeProcess, resume(k, p), UNCHANGED activeProcessField
  PROVE  /\ Registers'
         /\ Sound(links', activeProcess')
         /\ \A s \in Semaphore : links'.queue[s] = k.queue[s]
         /\ \/ /\ Priority[p] > Priority[activeProcess]
               /\ links'.queue =
                    [k.queue EXCEPT ![Priority[activeProcess]] = Append(@, activeProcess)]
               /\ activeProcess' = p
            \/ /\ Priority[p] <= Priority[activeProcess]
               /\ links'.queue = [k.queue EXCEPT ![Priority[p]] = Append(@, p)]
               /\ activeProcess' = activeProcess
<1> DEFINE a == activeProcess
<1>1. a \in Process /\ NotIn(k, a) /\ Good(k)
  BY DEF Sound
<1>2. Priority[a] \in Nat /\ Priority[p] \in Nat
  BY <1>1 DEF ReadyList
<1>3. CASE preempts(p)
  <2>1. links' = sleep(k, a) /\ newProcessWaiting' = TRUE /\ newProcess' = p
    BY <1>3 DEF resume, preempted, transferTo
  <2>2. activeProcess' = p /\ Registers'
    BY <2>1 DEF activeProcess, Registers
  <2>3. Priority[p] > Priority[a]
    BY <1>3 DEF preempts
  <2>4. Below(k, Priority[p])
    BY <2>3, <1>2 DEF Below, Sound, ReadyList
  <2> HIDE DEF a
  <2>5. /\ Good(links')
        /\ links'.queue = [k.queue EXCEPT ![Priority[a]] = Append(@, a)]
        /\ a = Background \/ BackgroundReady(k) => BackgroundReady(links')
        /\ NotIn(links', p)
        /\ Below(links', Priority[p])
        /\ \A s \in Semaphore : links'.queue[s] = k.queue[s]
    <3>1. p # a
      BY DEF a
    <3>2. Priority[a] <= Priority[p]
      BY <2>3, <1>2
    <3>3. \A x \in Process : x # a /\ NotIn(k, x) => NotIn(sleep(k, a), x)
      BY <1>1, SleepGood
    <3>4. \A m \in Nat : Below(k, m) /\ Priority[a] <= m => Below(sleep(k, a), m)
      BY <1>1, SleepGood
    <3>5. /\ Good(sleep(k, a))
          /\ sleep(k, a).queue = [k.queue EXCEPT ![Priority[a]] = Append(@, a)]
          /\ a = Background \/ BackgroundReady(k) => BackgroundReady(sleep(k, a))
          /\ \A s \in Semaphore : sleep(k, a).queue[s] = k.queue[s]
      BY <1>1, SleepGood
    <3>6. NotIn(k, p)
      OBVIOUS
    <3> QED BY <3>1, <3>2, <3>3, <3>4, <3>5, <3>6, <2>1, <2>4, <1>2
  <2>6. Sound(links', p)
    BY <2>5, <1>1 DEF Sound, a
  <2> QED BY <2>2, <2>3, <2>5, <2>6 DEF a
<1>4. CASE ~preempts(p)
  <2>1. links' = sleep(k, p) /\ UNCHANGED <<newProcess, newProcessWaiting>>
    BY <1>4 DEF resume
  <2>2. activeProcess' = a /\ Registers'
    BY <2>1 DEF activeProcess, Registers
  <2>3. Priority[p] <= Priority[a]
    BY <1>4, <1>2 DEF preempts
  <2> HIDE DEF a
  <2>5. /\ Good(links')
        /\ links'.queue = [k.queue EXCEPT ![Priority[p]] = Append(@, p)]
        /\ p = Background \/ BackgroundReady(k) => BackgroundReady(links')
        /\ NotIn(links', a)
        /\ Below(links', Priority[a])
        /\ \A s \in Semaphore : links'.queue[s] = k.queue[s]
    <3>1. p # a /\ Below(k, Priority[a])
      BY DEF a, Sound
    <3>2. /\ \A n \in Nat : Below(k, n) /\ Priority[p] <= n => Below(links', n)
          /\ \A x \in Process : x # p /\ NotIn(k, x) => NotIn(links', x)
      BY <2>1, <1>1, SleepGood
    <3>3. Below(links', Priority[a]) /\ NotIn(links', a)
      BY <3>1, <3>2, <2>3, <1>1, <1>2
    <3>4. /\ Good(links')
          /\ links'.queue = [k.queue EXCEPT ![Priority[p]] = Append(@, p)]
      BY <2>1, <1>1, SleepGood
    <3>5. p = Background \/ BackgroundReady(k) => BackgroundReady(links')
      BY <2>1, <1>1, SleepGood
    <3>6. \A s \in Semaphore : links'.queue[s] = k.queue[s]
      <4>1. \A s \in Semaphore : s \in List /\ s # Priority[p]
        BY DEF List
      <4> QED BY <3>4, <4>1, <1>1 DEF Good, Links
    <3> QED BY <3>3, <3>4, <3>5, <3>6
  <2>6. Sound(links', a)
    BY <2>5, <1>1 DEF Sound, a
  <2> QED BY <2>2, <2>3, <2>5, <2>6 DEF a
<1> QED BY <1>3, <1>4

(***************************************************************************)
(* The active process stops when the lists are k; somebody is ready.       *)
(***************************************************************************)
LEMMA SuspendSound ==
  ASSUME NEW k, Registers, Good(k), BackgroundReady(k), suspendActive(k),
         UNCHANGED activeProcessField
  PROVE  /\ Registers'
         /\ Sound(links', activeProcess')
         /\ \A s \in Semaphore : links'.queue[s] = k.queue[s]
         /\ \E l \in ReadyList :
              /\ k.queue[l] # <<>>
              /\ \A m \in ReadyList : m > l => k.queue[m] = <<>>
              /\ activeProcess' = Head(k.queue[l])
              /\ links'.queue = [k.queue EXCEPT ![l] = Tail(@)]
<1> DEFINE l == wakeHighestPriority(k)
           p == k.first[l]
           b == Priority[Background]
<1>1. \A m \in ReadyList : m \in List /\ (isEmptyList(k, m) <=> k.queue[m] = <<>>)
  BY EmptyList DEF Good, WellFormed, List
<1>2. b \in ReadyList /\ k.queue[b] # <<>>
  BY DEF BackgroundReady, Good, Links, List
<1>3. ProcessToWake(k)
  BY <1>1, <1>2 DEF ProcessToWake
<1>4. /\ l \in ReadyList /\ l \in List /\ l \notin Semaphore
      /\ ~isEmptyList(k, l)
      /\ \A m \in ReadyList : m > l => isEmptyList(k, m)
  BY <1>3, HighestReadyList DEF List
<1>5. links' = removeFirstLinkOfList(k, l) /\ newProcessWaiting' = TRUE /\ newProcess' = p
  BY DEF suspendActive, transferTo
<1> HIDE DEF l
<1>6. /\ Good(links')
      /\ links'.queue = [k.queue EXCEPT ![l] = Tail(@)]
      /\ k.queue[l] # <<>> /\ p = Head(k.queue[l]) /\ p \in Process
      /\ Priority[p] = l
      /\ NotIn(links', p)
  BY <1>4, <1>5, RemoveFirstGood
<1>7. /\ \A n \in Nat : Below(k, n) => Below(links', n)
      /\ BackgroundReady(links') \/ p = Background
  BY <1>4, <1>5, RemoveFirstGood
<1>8. \A s \in Semaphore : links'.queue[s] = k.queue[s]
  <2>1. \A s \in Semaphore : s \in List /\ s # l
    BY <1>4 DEF List
  <2> QED BY <2>1, <1>6 DEF Good, Links
<1>9. Below(k, l)
  BY <1>1, <1>4 DEF Below, ReadyList
<1>10. l \in Nat
  BY <1>4 DEF ReadyList
<1>11. activeProcess' = p /\ Registers'
  BY <1>5, <1>6 DEF activeProcess, Registers
<1>12. Sound(links', p)
  BY <1>6, <1>7, <1>9, <1>10 DEF Sound
<1>13. \A m \in ReadyList : m > l => k.queue[m] = <<>>
  BY <1>1, <1>4
<1> QED BY <1>4, <1>6, <1>8, <1>11, <1>12, <1>13

(* A signal to semaphore s.                                                *)
LEMMA SignalSound ==
  ASSUME Registers, Sound(links, activeProcess), NEW s \in Semaphore,
         NobodyWaitsForAHeldSignal, excessSignals \in [Semaphore -> 0 .. MaxSmallInteger],
         synchronousSignal(s), UNCHANGED activeProcessField
  PROVE  /\ Registers'
         /\ Sound(links', activeProcess')
         /\ excessSignals' \in [Semaphore -> 0 .. MaxSmallInteger]
         /\ NobodyWaitsForAHeldSignal'
         /\ Policy!SignalEffect(s)
<1>1. s \in List /\ s \notin ReadyList /\ Good(links)
  BY DEF List, Sound
<1>2. isEmptyList(links, s) <=> links.queue[s] = <<>>
  BY <1>1, EmptyList DEF Good, WellFormed
<1>3. CASE isEmptyList(links, s)
  <2>1. /\ excessSignals' = [excessSignals EXCEPT ![s] = oneMore(@)]
        /\ UNCHANGED <<links, newProcess, newProcessWaiting>>
    BY <1>3 DEF synchronousSignal
  <2>2. activeProcess' = activeProcess /\ Registers'
    BY <2>1 DEF activeProcess, Registers
  <2>3. excessSignals' \in [Semaphore -> 0 .. MaxSmallInteger]
    BY <2>1 DEF oneMore
  <2>4. NobodyWaitsForAHeldSignal'
    BY <2>1, <1>2, <1>3 DEF NobodyWaitsForAHeldSignal
  <2>5. Policy!SignalEffect(s)
    BY <2>1, <2>2, <1>2, <1>3 DEF Policy!SignalEffect, oneMore
  <2> QED BY <2>1, <2>2, <2>3, <2>4, <2>5
<1>4. CASE ~isEmptyList(links, s)
  <2> DEFINE k == removeFirstLinkOfList(links, s)
             p == links.first[s]
  <2>1. resume(k, p) /\ UNCHANGED excessSignals
    BY <1>4 DEF synchronousSignal
  <2>2. /\ Good(k)
        /\ k.queue = [links.queue EXCEPT ![s] = Tail(@)]
        /\ links.queue[s] # <<>> /\ p = Head(links.queue[s]) /\ p \in Process
        /\ NotIn(k, p)
    BY <1>1, <1>4, RemoveFirstGood
  <2>3. /\ \A x \in Process : NotIn(links, x) => NotIn(k, x) /\ x # p
        /\ \A n \in Nat : Below(links, n) => Below(k, n)
        /\ BackgroundReady(links) => BackgroundReady(k)
    BY <1>1, <1>4, RemoveFirstGood
  <2>4. Priority[activeProcess] \in Nat
    BY DEF Sound, ReadyList
  <2> HIDE DEF k, p
  <2>5. Sound(k, activeProcess) /\ p # activeProcess
    BY <2>2, <2>3, <2>4 DEF Sound
  <2>6. /\ Registers'
        /\ Sound(links', activeProcess')
        /\ \A t \in Semaphore : links'.queue[t] = k.queue[t]
        /\ \/ /\ Priority[p] > Priority[activeProcess]
              /\ links'.queue =
                   [k.queue EXCEPT ![Priority[activeProcess]] = Append(@, activeProcess)]
              /\ activeProcess' = p
           \/ /\ Priority[p] <= Priority[activeProcess]
              /\ links'.queue = [k.queue EXCEPT ![Priority[p]] = Append(@, p)]
              /\ activeProcess' = activeProcess
    BY <2>1, <2>2, <2>5, ResumeSound
  <2>7. NobodyWaitsForAHeldSignal'
    <3> SUFFICES ASSUME NEW t \in Semaphore, excessSignals'[t] > 0
                 PROVE  links'.queue[t] = <<>>
      BY DEF NobodyWaitsForAHeldSignal
    <3>1. links.queue[t] = <<>> /\ t # s
      BY <2>1, <2>2 DEF NobodyWaitsForAHeldSignal
    <3>2. k.queue[t] = links.queue[t]
      BY <3>1, <2>2, <1>1 DEF Good, Links, List
    <3> QED BY <3>1, <3>2, <2>6
  <2>8. Policy!SignalEffect(s)
    BY <2>1, <2>2, <2>6
       DEF Policy!SignalEffect, Policy!Awaken, Policy!Enqueue, Policy!Dequeue
  <2> QED BY <2>1, <2>6, <2>7, <2>8
<1> QED BY <1>3, <1>4

-----------------------------------------------------------------------------
(***************************************************************************)
(* The inductive invariant.  Beyond the properties: the background process *)
(* runs or is ready, a switch never pends at a bytecode, and contexts stay *)
(* with their processes.                                                   *)
(***************************************************************************)
IInv ==
  /\ TypeOK
  /\ Sound(links, activeProcess)
  /\ NobodyWaitsForAHeldSignal
  /\ phase = "bytecode" => ~newProcessWaiting
  /\ Owner[activeContext] = activeProcessField
  /\ \A p \in Process : Owner[suspendedContext[p]] = p

(* The properties of Scheduler that IInv implies.                          *)
LEMMA IInvImplies ==
  ASSUME IInv
  PROVE  /\ ListsWellFormed /\ HighestPriorityRuns /\ SomeProcessToWake
         /\ Registers
<1>1. WellFormed(links)
  BY DEF IInv, Sound, Good
<1>2. ActiveInNoList
  BY DEF IInv, Sound, NotIn, ActiveInNoList, Queued, InList
<1>3. HighestPriorityRuns
  BY DEF IInv, Sound, Good, ReadySorted, Below, HighestPriorityRuns
<1>4. SomeProcessToWake
  <2> SUFFICES ASSUME activeProcess # Background PROVE ProcessToWake(links)
    BY DEF SomeProcessToWake
  <2> DEFINE b == Priority[Background]
  <2>1. b \in ReadyList /\ b \in List /\ BackgroundReady(links) /\ Good(links)
    BY DEF List, IInv, Sound
  <2>2. links.queue[b] # <<>>
    BY <2>1 DEF BackgroundReady, Good, Links
  <2>3. ~isEmptyList(links, b)
    BY <2>1, <2>2, EmptyList DEF Good, WellFormed
  <2> QED BY <2>1, <2>3 DEF ProcessToWake
<1>5. Registers
  BY DEF IInv, TypeOK, Registers
<1> QED BY <1>1, <1>2, <1>3, <1>4, <1>5 DEF ListsWellFormed

(* A loaded image satisfies the invariant.                                 *)
LEMMA InitIInv == Init => IInv
<1> SUFFICES ASSUME Init PROVE IInv
  OBVIOUS
<1>1. /\ NoLinks \in Links /\ NoLinks.queue = [l \in List |-> <<>>]
  <2>1. \A l \in List : <<>> \in Seq(Process)
    OBVIOUS
  <2> QED BY <2>1 DEF NoLinks, Links
<1>2. /\ \A l \in List : Len(NoLinks.queue[l]) = 0 /\ NoLinks.queue[l] = <<>>
      /\ \A l \in List : NoLinks.first[l] = Nil /\ NoLinks.last[l] = Nil
      /\ \A p \in Process : NoLinks.next[p] = Nil
  BY <1>1 DEF NoLinks
<1>3. WellFormed(NoLinks)
  BY <1>2 DEF WellFormed, EndsRight, NextRight, NoProcessTwice, LooseEndsNil, MyListRight
<1>4. ReadySorted(NoLinks) /\ \A n \in Nat : Below(NoLinks, n)
  BY <1>2 DEF ReadySorted, Below, List
<1>5. Good(NoLinks) /\ \A p \in Process : NotIn(NoLinks, p)
  BY <1>1, <1>2, <1>3, <1>4 DEF Good, NotIn
<1>6. activeProcess = activeProcessField /\ activeProcessField \in Process
  BY DEF Init, firstContext, activeProcess
<1>7. Sound(links, activeProcess)
  <2>1. Priority[activeProcess] \in Nat /\ Priority[Background] <= Priority[activeProcess]
    BY <1>6 DEF ReadyList
  <2>2. CASE activeProcessField = Background
    <3>1. links = NoLinks
      BY <2>2 DEF Init
    <3> QED BY <3>1, <2>1, <2>2, <1>4, <1>5, <1>6 DEF Sound
  <2>3. CASE activeProcessField # Background
    <3>1. links = sleep(NoLinks, Background)
      BY <2>3 DEF Init
    <3>2. /\ Good(links) /\ BackgroundReady(links)
          /\ \A x \in Process : x # Background /\ NotIn(NoLinks, x) => NotIn(links, x)
          /\ \A n \in Nat : Below(NoLinks, n) /\ Priority[Background] <= n => Below(links, n)
      BY <3>1, <1>5, SleepGood
    <3> QED BY <3>2, <2>1, <2>3, <1>4, <1>5, <1>6 DEF Sound
  <2> QED BY <2>2, <2>3
<1>8. TypeOK
  <2>1. links \in Links
    BY <1>7 DEF Sound, Good
  <2>2. semaphoreList \in Seq(Semaphore) /\ Len(semaphoreList) <= ListSize
    BY DEF Init
  <2>3. newProcess = Nil /\ newProcessWaiting = FALSE
    BY DEF Init, firstContext
  <2>4. excessSignals \in [Semaphore -> 0 .. MaxSmallInteger]
    BY DEF Init
  <2>5. /\ suspendedContext \in [Process -> Context] /\ activeContext \in Context
        /\ phase \in {"frame", "drain", "bytecode"} /\ activeProcessField \in Process
    BY DEF Init, firstContext
  <2> QED BY <2>1, <2>2, <2>3, <2>4, <2>5 DEF TypeOK, Links
<1>9. /\ Owner[activeContext] = activeProcessField
      /\ \A p \in Process : Owner[suspendedContext[p]] = p
      /\ phase = "bytecode" => ~newProcessWaiting
  BY DEF Init, firstContext
<1>10. NobodyWaitsForAHeldSignal
  BY DEF Init, NobodyWaitsForAHeldSignal
<1> QED BY <1>7, <1>8, <1>9, <1>10 DEF IInv

-----------------------------------------------------------------------------
(***************************************************************************)
(* Each action preserves the invariant and is a step of the policy, or     *)
(* changes nothing the policy sees.                                        *)
(***************************************************************************)
LEMMA AtUnchanged ==
  ASSUME UNCHANGED <<activeProcessField, suspendedContext, activeContext>>
  PROVE  at' = at
  BY DEF at

LEMMA FrameEventStep ==
  ASSUME IInv, NEW s \in Semaphore, FrameEvent(s)
  PROVE  IInv' /\ Policy!Post(s)
<1>1. /\ UNCHANGED <<links, activeProcessField, newProcess, newProcessWaiting,
                     excessSignals, suspendedContext, activeContext, phase>>
      /\ Len(semaphoreList) < ListSize /\ semaphoreList' = Append(semaphoreList, s)
  BY DEF FrameEvent, asynchronousSignal
<1>2. activeProcess' = activeProcess /\ at' = at
  BY <1>1, AtUnchanged DEF activeProcess
<1>3. semaphoreList' \in Seq(Semaphore) /\ Len(semaphoreList') <= ListSize
  BY <1>1 DEF IInv, TypeOK
<1>4. TypeOK'
  BY <1>1, <1>3 DEF IInv, TypeOK
<1>5. IInv'
  BY <1>1, <1>2, <1>4 DEF IInv, NobodyWaitsForAHeldSignal
<1> QED BY <1>1, <1>2, <1>5 DEF Policy!Post

LEMMA memWarnStep ==
  ASSUME IInv, NEW s \in Semaphore, memWarn(s)
  PROVE  IInv' /\ (Policy!Post(s) \/ UNCHANGED Policy!vars)
<1>1. /\ UNCHANGED <<links, activeProcessField, newProcess, newProcessWaiting,
                     excessSignals, suspendedContext, activeContext>>
      /\ phase' = "drain"
      /\ \/ Len(semaphoreList) < ListSize /\ semaphoreList' = Append(semaphoreList, s)
         \/ UNCHANGED semaphoreList
  BY DEF memWarn, asynchronousSignal
<1>2. activeProcess' = activeProcess /\ at' = at
  BY <1>1, AtUnchanged DEF activeProcess
<1>3. semaphoreList' \in Seq(Semaphore) /\ Len(semaphoreList') <= ListSize
  <2>1. semaphoreList \in Seq(Semaphore) /\ Len(semaphoreList) <= ListSize
    BY DEF IInv, TypeOK
  <2>2. CASE UNCHANGED semaphoreList
    BY <2>1, <2>2
  <2>3. CASE Len(semaphoreList) < ListSize /\ semaphoreList' = Append(semaphoreList, s)
    BY <2>1, <2>3
  <2> QED BY <2>2, <2>3, <1>1
<1>4. TypeOK'
  BY <1>1, <1>3 DEF IInv, TypeOK
<1>5. IInv'
  BY <1>1, <1>2, <1>4 DEF IInv, NobodyWaitsForAHeldSignal
<1> QED BY <1>1, <1>2, <1>5 DEF Policy!Post, Policy!vars

LEMMA drainStep ==
  ASSUME IInv, drainSemaphoreList
  PROVE  IInv' /\ Policy!Deliver
<1> DEFINE s == semaphoreList[Len(semaphoreList)]
<1>1. /\ semaphoreList # <<>> /\ phase = "drain"
      /\ synchronousSignal(s)
      /\ semaphoreList' = SubSeq(semaphoreList, 1, Len(semaphoreList) - 1)
      /\ UNCHANGED <<activeProcessField, suspendedContext, activeContext, phase>>
  BY DEF drainSemaphoreList, drainTop
<1>2. s \in Semaphore
  <2>1. semaphoreList \in Seq(Semaphore) /\ semaphoreList # <<>>
    BY <1>1 DEF IInv, TypeOK
  <2>2. Len(semaphoreList) \in 1 .. Len(semaphoreList)
    BY <2>1
  <2> QED BY <2>1, <2>2
<1>3. semaphoreList' \in Seq(Semaphore) /\ Len(semaphoreList') <= ListSize
  <2> DEFINE n == Len(semaphoreList)
  <2>1. semaphoreList \in Seq(Semaphore) /\ n \in Nat /\ n > 0 /\ n <= ListSize
    BY <1>1 DEF IInv, TypeOK
  <2>2. \A i \in 1 .. n - 1 : semaphoreList[i] \in Semaphore
    BY <2>1
  <2>3. SubSeq(semaphoreList, 1, n - 1) \in Seq(Semaphore)
    BY <2>1, <2>2
  <2>4. Len(SubSeq(semaphoreList, 1, n - 1)) = n - 1
    <3>1. n - 1 \in Nat
      BY <2>1
    <3> HIDE DEF n
    <3> QED BY <2>1, <3>1, SMTT(30)
  <2> QED BY <1>1, <2>1, <2>3, <2>4
<1> HIDE DEF s
<1>4. /\ Registers' /\ Sound(links', activeProcess')
      /\ excessSignals' \in [Semaphore -> 0 .. MaxSmallInteger]
      /\ NobodyWaitsForAHeldSignal' /\ Policy!SignalEffect(s)
  BY <1>1, <1>2, IInvImplies, SignalSound DEF IInv, TypeOK
<1>5. TypeOK'
  BY <1>1, <1>3, <1>4 DEF IInv, TypeOK, Registers, Sound, Good, Links
<1>6. IInv'
  BY <1>1, <1>4, <1>5 DEF IInv
<1>7. at' = at
  BY <1>1, AtUnchanged
<1> QED BY <1>1, <1>4, <1>6, <1>7 DEF Policy!Deliver, s

LEMMA checkProcessSwitchStep ==
  ASSUME IInv, checkProcessSwitch
  PROVE  IInv' /\ UNCHANGED Policy!vars
<1>1. UNCHANGED <<links, semaphoreList, excessSignals>> /\ phase' = "bytecode"
  BY DEF checkProcessSwitch
<1>2. CASE ~newProcessWaiting
  <2>1. UNCHANGED <<activeProcessField, newProcess, newProcessWaiting,
                    suspendedContext, activeContext>>
    BY <1>2 DEF checkProcessSwitch
  <2>2. activeProcess' = activeProcess /\ at' = at
    BY <2>1, AtUnchanged DEF activeProcess
  <2>3. TypeOK'
    BY <1>1, <2>1 DEF IInv, TypeOK
  <2>4. IInv'
    BY <1>1, <1>2, <2>1, <2>2, <2>3 DEF IInv, NobodyWaitsForAHeldSignal
  <2> QED BY <1>1, <2>2, <2>4 DEF Policy!vars
<1>3. CASE newProcessWaiting
  <2> DEFINE sc == [suspendedContext EXCEPT ![activeProcessField] = activeContext]
  <2>1. /\ suspendedContext' = sc
        /\ activeContext' = sc[newProcess]
        /\ activeProcessField' = newProcess
        /\ newProcessWaiting' = FALSE /\ newProcess' = Nil
    BY <1>3 DEF checkProcessSwitch, contextToRun
  <2>2. /\ newProcess \in Process /\ activeProcessField \in Process
        /\ suspendedContext \in [Process -> Context] /\ activeContext \in Context
    BY <1>3 DEF IInv, TypeOK
  <2>3. activeProcess' = activeProcess
    BY <1>3, <2>1 DEF activeProcess
  <2>4. /\ sc \in [Process -> Context]
        /\ \A p \in Process : Owner[sc[p]] = p
    BY <2>2 DEF IInv
  <2>5. TypeOK'
    BY <1>1, <2>1, <2>2, <2>4 DEF IInv, TypeOK
  <2>6. IInv'
    BY <1>1, <2>1, <2>2, <2>3, <2>4, <2>5 DEF IInv, NobodyWaitsForAHeldSignal
  <2>7. at' = at
    <3>1. \A p \in Process : sc[p] = IF p = activeProcessField THEN activeContext
                                     ELSE suspendedContext[p]
      BY <2>2
    <3>2. at' = [p \in Process |-> IF p = newProcess THEN sc[newProcess] ELSE sc[p]]
      BY <2>1 DEF at
    <3> QED BY <3>1, <3>2 DEF at
  <2> QED BY <1>1, <2>3, <2>6, <2>7 DEF Policy!vars
<1> QED BY <1>2, <1>3

LEMMA primitiveSignalStep ==
  ASSUME IInv, NEW s \in Semaphore, primitiveSignal(s)
  PROVE  IInv' /\ Policy!Signal(s)
<1>1. /\ synchronousSignal(s)
      /\ phase' = "frame"
      /\ UNCHANGED <<activeProcessField, suspendedContext, semaphoreList, activeContext>>
  BY DEF primitiveSignal, endBytecode
<1>2. /\ Registers' /\ Sound(links', activeProcess')
      /\ excessSignals' \in [Semaphore -> 0 .. MaxSmallInteger]
      /\ NobodyWaitsForAHeldSignal' /\ Policy!SignalEffect(s)
  BY <1>1, IInvImplies, SignalSound DEF IInv, TypeOK
<1>3. TypeOK'
  BY <1>1, <1>2 DEF IInv, TypeOK, Registers, Sound, Good, Links
<1>4. IInv'
  BY <1>1, <1>2, <1>3 DEF IInv
<1>5. at' = at
  BY <1>1, AtUnchanged
<1> QED BY <1>1, <1>2, <1>4, <1>5 DEF Policy!Signal

LEMMA primitiveResumeStep ==
  ASSUME IInv, NEW p \in Process, Suspended(p), primitiveResume(p)
  PROVE  IInv' /\ Policy!Resume(p)
<1>1. /\ resume(links, p)
      /\ phase' = "frame"
      /\ UNCHANGED <<activeProcessField, suspendedContext, semaphoreList, activeContext,
                     excessSignals>>
  BY DEF primitiveResume, endBytecode
<1>2. p # activeProcess /\ NotIn(links, p)
  BY DEF Suspended, Queued, InList, NotIn
<1>3. /\ Registers' /\ Sound(links', activeProcess')
      /\ \A s \in Semaphore : links'.queue[s] = links.queue[s]
      /\ \/ /\ Priority[p] > Priority[activeProcess]
            /\ links'.queue =
                 [links.queue EXCEPT ![Priority[activeProcess]] = Append(@, activeProcess)]
            /\ activeProcess' = p
         \/ /\ Priority[p] <= Priority[activeProcess]
            /\ links'.queue = [links.queue EXCEPT ![Priority[p]] = Append(@, p)]
            /\ activeProcess' = activeProcess
  BY <1>1, <1>2, IInvImplies, ResumeSound DEF IInv
<1>4. TypeOK'
  BY <1>1, <1>3 DEF IInv, TypeOK, Registers, Sound, Good, Links
<1>5. IInv'
  BY <1>1, <1>3, <1>4 DEF IInv, NobodyWaitsForAHeldSignal
<1>6. Policy!Awaken(links.queue, p)
  BY <1>3 DEF Policy!Awaken, Policy!Enqueue
<1>7. Policy!Suspended(p)
  BY <1>2 DEF Policy!Suspended, Policy!Queued, NotIn, Policy!List, Policy!ReadyList,
              List, ReadyList
<1>8. at' = at
  BY <1>1, AtUnchanged
<1> QED BY <1>1, <1>5, <1>6, <1>7, <1>8 DEF Policy!Resume

LEMMA primitiveWaitStep ==
  ASSUME IInv, NEW s \in Semaphore, activeProcess # Background, primitiveWait(s)
  PROVE  IInv' /\ Policy!Wait(s)
<1>1. /\ phase' = "frame"
      /\ UNCHANGED <<activeProcessField, suspendedContext, semaphoreList, activeContext>>
  BY DEF primitiveWait, endBytecode
<1>2. at' = at
  BY <1>1, AtUnchanged
<1>3. excessSignals \in [Semaphore -> 0 .. MaxSmallInteger]
  BY DEF IInv, TypeOK
<1>4. CASE hasExcess(s)
  <2>1. /\ excessSignals' = [excessSignals EXCEPT ![s] = @ - 1] /\ excessSignals[s] > 0
        /\ UNCHANGED <<links, newProcess, newProcessWaiting>>
    BY <1>4 DEF primitiveWait, hasExcess
  <2>2. activeProcess' = activeProcess
    BY <1>1, <2>1 DEF activeProcess
  <2>3. excessSignals' \in [Semaphore -> 0 .. MaxSmallInteger]
    BY <1>3, <2>1
  <2>4. NobodyWaitsForAHeldSignal'
    BY <1>3, <2>1 DEF IInv, NobodyWaitsForAHeldSignal
  <2>5. TypeOK'
    BY <1>1, <2>1, <2>3 DEF IInv, TypeOK
  <2>6. IInv'
    BY <1>1, <2>1, <2>2, <2>4, <2>5 DEF IInv
  <2> QED BY <1>1, <1>2, <2>1, <2>2, <2>6 DEF Policy!Wait
<1>5. CASE ~hasExcess(s)
  <2> DEFINE k == addLastLink_toList(links, activeProcess, s)
  <2>1. suspendActive(k) /\ UNCHANGED excessSignals /\ excessSignals[s] = 0
    BY <1>3, <1>5 DEF primitiveWait, hasExcess
  <2>2. /\ Good(links) /\ activeProcess \in Process /\ NotIn(links, activeProcess)
        /\ BackgroundReady(links) /\ s \in List /\ s \notin ReadyList
    BY DEF IInv, Sound, List
  <2>3. k \in Links /\ WellFormed(k)
        /\ k.queue = [links.queue EXCEPT ![s] = Append(@, activeProcess)]
    BY <2>2, AddLastWellFormed DEF Good
  <2> HIDE DEF k
  <2>4. links.queue \in [List -> Seq(Process)]
    BY <2>2 DEF Good, Links
  <2>5. \A m \in List : m # s => k.queue[m] = links.queue[m]
    BY <2>3, <2>4
  <2>6. Good(k) /\ BackgroundReady(k)
    <3>1. \A m \in ReadyList : m \in List /\ m # s
      BY <2>2 DEF List
    <3>2. ReadySorted(k)
      BY <2>2, <2>5, <3>1 DEF Good, ReadySorted
    <3>3. BackgroundReady(k)
      BY <2>2, <2>5, <3>1 DEF BackgroundReady
    <3> QED BY <2>3, <3>2, <3>3 DEF Good
  <2>7. /\ Registers'
        /\ Sound(links', activeProcess')
        /\ \A t \in Semaphore : links'.queue[t] = k.queue[t]
        /\ \E l \in ReadyList :
             /\ k.queue[l] # <<>>
             /\ \A m \in ReadyList : m > l => k.queue[m] = <<>>
             /\ activeProcess' = Head(k.queue[l])
             /\ links'.queue = [k.queue EXCEPT ![l] = Tail(@)]
    BY <1>1, <2>1, <2>6, IInvImplies, SuspendSound
  <2>8. NobodyWaitsForAHeldSignal'
    BY <2>1, <2>5, <2>7 DEF IInv, NobodyWaitsForAHeldSignal, List
  <2>9. TypeOK'
    BY <1>1, <2>1, <2>7 DEF IInv, TypeOK, Registers, Sound, Good, Links
  <2>10. IInv'
    BY <1>1, <2>7, <2>8, <2>9 DEF IInv
  <2>11. Policy!GiveUp(Policy!Enqueue(links.queue, activeProcess, s))
    BY <2>3, <2>7 DEF Policy!GiveUp, Policy!Enqueue, Policy!Dequeue, Policy!ReadyList, ReadyList
  <2> QED BY <1>1, <1>2, <2>1, <2>10, <2>11 DEF Policy!Wait
<1> QED BY <1>4, <1>5

LEMMA primitiveSuspendStep ==
  ASSUME IInv, NEW p \in Process, activeProcess # Background, primitiveSuspend(p)
  PROVE  IInv' /\ (Policy!Suspend \/ UNCHANGED Policy!vars)
<1>1. /\ phase' = "frame"
      /\ UNCHANGED <<activeProcessField, suspendedContext, semaphoreList, activeContext,
                     excessSignals>>
  BY DEF primitiveSuspend, endBytecode
<1>2. at' = at
  BY <1>1, AtUnchanged
<1>3. CASE p # activeProcess
  <2>1. UNCHANGED <<links, newProcess, newProcessWaiting>>
    BY <1>3 DEF primitiveSuspend
  <2>2. activeProcess' = activeProcess
    BY <1>1, <2>1 DEF activeProcess
  <2>3. TypeOK'
    BY <1>1, <2>1 DEF IInv, TypeOK
  <2>4. IInv'
    BY <1>1, <2>1, <2>2, <2>3 DEF IInv, NobodyWaitsForAHeldSignal
  <2> QED BY <1>1, <1>2, <2>1, <2>2, <2>4 DEF Policy!vars
<1>4. CASE p = activeProcess
  <2>1. suspendActive(links)
    BY <1>4 DEF primitiveSuspend
  <2>2. /\ Registers'
        /\ Sound(links', activeProcess')
        /\ \A t \in Semaphore : links'.queue[t] = links.queue[t]
        /\ \E l \in ReadyList :
             /\ links.queue[l] # <<>>
             /\ \A m \in ReadyList : m > l => links.queue[m] = <<>>
             /\ activeProcess' = Head(links.queue[l])
             /\ links'.queue = [links.queue EXCEPT ![l] = Tail(@)]
    BY <1>1, <2>1, IInvImplies, SuspendSound DEF IInv, Sound
  <2>3. TypeOK'
    BY <1>1, <2>2 DEF IInv, TypeOK, Registers, Sound, Good, Links
  <2>4. IInv'
    BY <1>1, <2>2, <2>3 DEF IInv, NobodyWaitsForAHeldSignal
  <2>5. Policy!GiveUp(links.queue)
    BY <2>2 DEF Policy!GiveUp, Policy!Dequeue, Policy!ReadyList, ReadyList
  <2> QED BY <1>1, <1>2, <2>4, <2>5 DEF Policy!Suspend
<1> QED BY <1>3, <1>4

LEMMA primitiveSignalAtTickStep ==
  ASSUME IInv, NEW s \in Semaphore, primitiveSignalAtTick(s)
  PROVE  IInv' /\ Policy!Post(s)
<1>1. /\ UNCHANGED <<links, activeProcessField, newProcess, newProcessWaiting,
                     excessSignals, suspendedContext, activeContext>>
      /\ phase' = "frame"
      /\ Len(semaphoreList) < ListSize /\ semaphoreList' = Append(semaphoreList, s)
  BY DEF primitiveSignalAtTick, asynchronousSignal, endBytecode
<1>2. activeProcess' = activeProcess /\ at' = at
  BY <1>1, AtUnchanged DEF activeProcess
<1>3. semaphoreList' \in Seq(Semaphore) /\ Len(semaphoreList') <= ListSize
  BY <1>1 DEF IInv, TypeOK
<1>4. TypeOK'
  BY <1>1, <1>3 DEF IInv, TypeOK
<1>5. IInv'
  BY <1>1, <1>2, <1>4 DEF IInv, NobodyWaitsForAHeldSignal
<1> QED BY <1>1, <1>2, <1>5 DEF Policy!Post

LEMMA newActiveContextStep ==
  ASSUME IInv, NEW c \in Context, newActiveContext(c)
  PROVE  IInv' /\ Policy!Run(c)
<1>1. /\ UNCHANGED <<links, activeProcessField, newProcess, newProcessWaiting,
                     semaphoreList, excessSignals, suspendedContext>>
      /\ phase = "bytecode" /\ phase' = "frame"
      /\ Owner[c] = Owner[activeContext] /\ activeContext' = c
  BY DEF newActiveContext, endBytecode
<1>2. activeProcess' = activeProcess /\ activeProcess = activeProcessField
  BY <1>1 DEF activeProcess, IInv
<1>3. TypeOK'
  BY <1>1 DEF IInv, TypeOK
<1>4. IInv'
  BY <1>1, <1>2, <1>3 DEF IInv, NobodyWaitsForAHeldSignal
<1>5. at' = [at EXCEPT ![activeProcess] = c]
  BY <1>1, <1>2 DEF at
<1> QED BY <1>1, <1>2, <1>4, <1>5 DEF Policy!Run, IInv

-----------------------------------------------------------------------------
(* The invariant is inductive and every step is one of the policy's.       *)
LEMMA NextStep ==
  ASSUME IInv, [Next]_vars
  PROVE  IInv' /\ [Policy!Next]_(Policy!vars)
<1>1. CASE UNCHANGED vars
  <2>1. activeProcess' = activeProcess /\ at' = at
    BY <1>1 DEF vars, activeProcess, at
  <2>2. TypeOK'
    BY <1>1 DEF IInv, TypeOK, vars
  <2> QED BY <1>1, <2>1, <2>2 DEF vars, IInv, NobodyWaitsForAHeldSignal, Policy!vars
<1>2. ASSUME NEW s \in Semaphore, FrameEvent(s) \/ memWarn(s)
      PROVE  IInv' /\ [Policy!Next]_(Policy!vars)
  BY <1>2, FrameEventStep, memWarnStep DEF Policy!Next
<1>3. ASSUME drainSemaphoreList \/ checkProcessSwitch
      PROVE  IInv' /\ [Policy!Next]_(Policy!vars)
  BY <1>3, drainStep, checkProcessSwitchStep DEF Policy!Next
<1>4. ASSUME NEW s \in Semaphore, primitiveSignal(s) \/ primitiveSignalAtTick(s)
      PROVE  IInv' /\ [Policy!Next]_(Policy!vars)
  BY <1>4, primitiveSignalStep, primitiveSignalAtTickStep DEF Policy!Next
<1>5. ASSUME NEW s \in Semaphore, activeProcess # Background, primitiveWait(s)
      PROVE  IInv' /\ [Policy!Next]_(Policy!vars)
  BY <1>5, primitiveWaitStep DEF Policy!Next
<1>6. ASSUME NEW p \in Process, activeProcess # Background, primitiveSuspend(p)
      PROVE  IInv' /\ [Policy!Next]_(Policy!vars)
  BY <1>6, primitiveSuspendStep DEF Policy!Next
<1>7. ASSUME NEW p \in Process, Suspended(p), primitiveResume(p)
      PROVE  IInv' /\ [Policy!Next]_(Policy!vars)
  BY <1>7, primitiveResumeStep DEF Policy!Next
<1>8. ASSUME NEW c \in Context, newActiveContext(c)
      PROVE  IInv' /\ [Policy!Next]_(Policy!vars)
  BY <1>8, newActiveContextStep DEF Policy!Next
<1> QED BY <1>1, <1>2, <1>3, <1>4, <1>5, <1>6, <1>7, <1>8
           DEF Next, Cycle, Bytecode, ResumeSuspended

(* A loaded image is an initial state of the policy.                       *)
LEMMA InitPolicy == Init => Policy!Init
<1> SUFFICES ASSUME Init PROVE Policy!Init
  OBVIOUS
<1>1. activeProcess = activeProcessField /\ activeProcessField \in Process
  BY DEF Init, firstContext, activeProcess
<1>2. links.queue = [l \in List |-> IF l = Priority[Background]
                                       /\ activeProcess # Background
                                    THEN <<Background>> ELSE <<>>]
  <2>1. NoLinks.queue = [l \in List |-> <<>>]
    BY DEF NoLinks
  <2>2. CASE activeProcessField = Background
    BY <2>1, <2>2, <1>1 DEF Init
  <2>3. CASE activeProcessField # Background
    <3>1. links.queue = [NoLinks.queue EXCEPT ![Priority[Background]] = Append(@, Background)]
      BY <2>3 DEF Init, sleep, addLastLink_toList
    <3>2. Priority[Background] \in List /\ Append(<<>>, Background) = <<Background>>
      BY DEF List
    <3> QED BY <3>1, <3>2, <2>1, <2>3, <1>1
  <2> QED BY <2>2, <2>3
<1>3. /\ at = [p \in Process |-> suspendedContext[p]]
      /\ suspendedContext \in [Process -> Context]
      /\ \A p \in Process : Owner[suspendedContext[p]] = p
  BY DEF Init, firstContext, at
<1> QED BY <1>1, <1>2, <1>3 DEF Init, Policy!Init, Policy!List, Policy!ReadyList, List, ReadyList

-----------------------------------------------------------------------------
(***************************************************************************)
(* The data stay of their types whatever the processes do.                 *)
(***************************************************************************)
THEOREM InductiveInvariant == Spec => []IInv
  BY InitIInv, NextStep, PTL DEF Spec

THEOREM TypeCorrect == Spec => []TypeOK
<1>1. IInv => TypeOK
  BY DEF IInv
<1> QED BY <1>1, InductiveInvariant, PTL

(***************************************************************************)
(* The linked lists of ready and waiting processes stay sound, and the     *)
(* process that runs, or is to run, is in none of them: it cannot be woken *)
(* a second time.                                                          *)
(***************************************************************************)
THEOREM ListsStayWellFormed == Spec => []ListsWellFormed
<1>1. IInv => ListsWellFormed
  BY IInvImplies
<1> QED BY <1>1, InductiveInvariant, PTL

(***************************************************************************)
(* No process that is ready outranks the one that runs, or is to run.      *)
(***************************************************************************)
THEOREM RunningProcessRight == Spec => []HighestPriorityRuns
<1>1. IInv => HighestPriorityRuns
  BY IInvImplies
<1> QED BY <1>1, InductiveInvariant, PTL

(***************************************************************************)
(* The assertion of wakeHighestPriority never fails, thanks to the image's *)
(* background process.                                                     *)
(***************************************************************************)
THEOREM WakeAssertionHolds == Spec => []SomeProcessToWake
<1>1. IInv => SomeProcessToWake
  BY IInvImplies
<1> QED BY <1>1, InductiveInvariant, PTL

(***************************************************************************)
(* A semaphore never holds a signal while a process waits for it.          *)
(***************************************************************************)
THEOREM SignalsNotWithheld == Spec => []NobodyWaitsForAHeldSignal
<1>1. IInv => NobodyWaitsForAHeldSignal
  BY DEF IInv
<1> QED BY <1>1, InductiveInvariant, PTL

(***************************************************************************)
(* The scheduler implements the scheduling policy.                         *)
(***************************************************************************)
THEOREM SchedulerImplementsPolicy == Spec => ImplementsPolicy
<1>1. IInv /\ [Next]_vars => [Policy!Next]_(Policy!vars)
  BY NextStep
<1> QED BY <1>1, InitPolicy, InductiveInvariant, PTL DEF Spec, ImplementsPolicy, Policy!Spec

(***************************************************************************)
(* Signals and switches leave every process at the context it was at.      *)
(***************************************************************************)
THEOREM ContextsSurviveSwitches == Spec => GoesOnWhereItStopped
<1>1. ASSUME IInv, [Next]_vars, phase # "bytecode"
      PROVE  at' = at
  <2>1. CASE \E s \in Semaphore : FrameEvent(s) \/ memWarn(s)
    BY <2>1, AtUnchanged DEF FrameEvent, memWarn
  <2>2. CASE drainSemaphoreList
    BY <2>2, AtUnchanged DEF drainSemaphoreList
  <2>3. CASE checkProcessSwitch
    BY <1>1, <2>3, checkProcessSwitchStep DEF Policy!vars
  <2>4. CASE UNCHANGED vars
    BY <2>4, AtUnchanged DEF vars
  <2>5. ~Bytecode /\ ~ResumeSuspended
    BY <1>1 DEF Bytecode, ResumeSuspended, primitiveSignal, primitiveSignalAtTick,
                primitiveWait, primitiveSuspend, newActiveContext, primitiveResume,
                endBytecode
  <2> QED BY <1>1, <2>1, <2>2, <2>3, <2>4, <2>5 DEF Next, Cycle
<1>2. IInv /\ [Next]_vars => [phase # "bytecode" => UNCHANGED at]_vars
  BY <1>1
<1> QED BY <1>2, InductiveInvariant, PTL DEF Spec, GoesOnWhereItStopped
=============================================================================
