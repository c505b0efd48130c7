----------------------------- MODULE LockOrder_proofs -----------------------------
(* The locks of DaemonCore, for any number of tasks that run the handlers of     *)
(* DaemonHandlers: every handler keeps the declared order and holds no lock that *)
(* playback needs while it waits for the world, so no set of tasks deadlocks.    *)
EXTENDS DaemonHandlers, SequenceTheorems, WellFoundedInduction, TLAPS

(* A nonempty set of natural numbers has a least element.                        *)
LEMMA Least ==
    ASSUME NEW S \in SUBSET Nat, S # {}
    PROVE  \E x \in S : \A y \in S : x <= y
  <1> DEFINE R == {ss \in Nat \X Nat : ss[1] < ss[2]}
  <1>1. IsWellFoundedOn(R, Nat)
    BY NatLessThanWellFounded, Zenon DEF OpToRel
  <1>2. \E x \in S : \A y \in S : ~(<<y, x>> \in R)
    <2> HIDE DEF R
    <2> QED BY <1>1, WFMin
  <1>3. PICK x \in S : \A y \in S : ~(<<y, x>> \in R)
    BY <1>2
  <1>4. ASSUME NEW y \in S PROVE x <= y
    <2>1. x \in Nat /\ y \in Nat
      OBVIOUS
    <2>2. ~(y < x)
      BY <1>3, <2>1
    <2> QED BY <2>1, <2>2
  <1> QED BY <1>4

-----------------------------------------------------------------------------------
(* A guard given to a task excludes the others as its kind requires.             *)
LEMMA GiveToTyped ==
    ASSUME NEW t \in Tasks, TypeOK, Acquires(t), Compatible(t), GiveTo(t)
    PROVE  /\ todo' = [u \in Tasks |-> todo'[u]]
           /\ readers' \in [Locks -> SUBSET Tasks]
           /\ writers' \in [Locks -> SUBSET Tasks]
           /\ \A l \in Locks : \A u \in writers'[l] : readers'[l] \cup writers'[l] = {u}
           /\ \A u \in Tasks : u # t => todo'[u] = todo[u]
  <1> DEFINE w == Wanted(t)
  <1>1. todo' = [u \in Tasks |-> todo'[u]] /\ \A u \in Tasks : u # t => todo'[u] = todo[u]
    BY DEF TypeOK, GiveTo
  <1>2. readers' \in [Locks -> SUBSET Tasks] /\ writers' \in [Locks -> SUBSET Tasks]
    BY DEF TypeOK, GiveTo
  <1>3. ASSUME NEW l \in Locks, NEW u \in writers'[l]
        PROVE  readers'[l] \cup writers'[l] = {u}
    <2>1. CASE l # w
      BY <1>3, <2>1 DEF TypeOK, GiveTo, Holders
    <2>2. CASE l = w
      <3>1. writers[l] = {}
        BY <2>2 DEF Compatible
      <3>2. CASE About(t, "write")
        <4>1. readers[l] = {} /\ ~About(t, "read")
          BY <2>2, <3>2 DEF Compatible, About
        <4>2. readers'[l] = {} /\ writers'[l] = {t}
          BY <2>2, <3>1, <3>2, <4>1 DEF GiveTo, TypeOK
        <4> QED BY <1>3, <4>2
      <3>3. CASE ~About(t, "write")
        BY <1>3, <2>2, <3>1, <3>3 DEF GiveTo, TypeOK
      <3> QED BY <3>2, <3>3
    <2> QED BY <2>1, <2>2
  <1> QED BY <1>1, <1>2, <1>3

(* A step of t that leaves the queues alone does not disturb the other waiters,  *)
(* and t is not one of them.                                                     *)
LEMMA QueuesUndisturbed ==
    ASSUME NEW t \in Tasks, TypeOK, ~Queued(t), waiting' = waiting,
           \A u \in Tasks : u # t => todo'[u] = todo[u]
    PROVE  /\ waiting' \in [Locks -> Seq(Tasks)]
           /\ \A l \in Locks : \A i \in DOMAIN waiting'[l] :
                 Acquires(waiting[l][i])' /\ Wanted(waiting[l][i])' = l
           /\ \A l \in Locks : \A i, j \in DOMAIN waiting'[l] :
                 waiting'[l][i] = waiting'[l][j] => i = j
  <1>1. ASSUME NEW l \in Locks, NEW i \in DOMAIN waiting[l]
        PROVE  waiting[l][i] # t /\ waiting[l][i] \in Tasks
    BY <1>1 DEF TypeOK, Queued
  <1>2. ASSUME NEW l \in Locks, NEW i \in DOMAIN waiting[l]
        PROVE  Acquires(waiting[l][i])' /\ Wanted(waiting[l][i])' = l
    <2>1. todo'[waiting[l][i]] = todo[waiting[l][i]]
      BY <1>1
    <2>2. Acquires(waiting[l][i]) /\ Wanted(waiting[l][i]) = l
      BY DEF TypeOK
    <2> QED BY <2>1, <2>2 DEF Acquires, Wanted
  <1> QED BY <1>2 DEF TypeOK

(* Only a task whose next step acquires a lock stands in a queue.                *)
LEMMA NotQueued ==
    ASSUME NEW t \in Tasks, TypeOK, ~Acquires(t)
    PROVE  ~Queued(t)
  BY DEF TypeOK, Queued

LEMMA TypeInit == Init => TypeOK
  BY DEF Init, TypeOK, Holders

LEMMA TypeStep == TypeOK /\ [Next]_vars => TypeOK'
  <1> SUFFICES ASSUME TypeOK, [Next]_vars PROVE TypeOK'
    OBVIOUS
  <1>1. CASE UNCHANGED vars
    BY <1>1 DEF vars, TypeOK, Holders, Acquires, Wanted
  <1>2. ASSUME NEW t \in Tasks, Start(t) PROVE TypeOK'
    <2>1. ~Acquires(t)
      BY <1>2 DEF Start, Acquires
    <2>2. \A u \in Tasks : u # t => todo'[u] = todo[u]
      BY <1>2 DEF Start, TypeOK
    <2>3. todo' = [u \in Tasks |-> todo'[u]]
      BY <1>2 DEF Start, TypeOK
    <2>4. waiting' = waiting /\ readers' = readers /\ writers' = writers
      BY <1>2 DEF Start
    <2> QED BY <2>1, <2>2, <2>3, <2>4, NotQueued, QueuesUndisturbed DEF TypeOK, Holders
  <1>3. ASSUME NEW t \in Tasks, Acquire(t) PROVE TypeOK'
    <2>1. waiting' = waiting /\ ~Queued(t) /\ Acquires(t) /\ Compatible(t) /\ GiveTo(t)
      BY <1>3 DEF Acquire
    <2> QED BY <2>1, GiveToTyped, QueuesUndisturbed DEF TypeOK, Holders
  <1>4. ASSUME NEW t \in Tasks, Wait(t) PROVE TypeOK'
    <2> DEFINE w == Wanted(t)
    <2>1. /\ todo' = todo /\ readers' = readers /\ writers' = writers
          /\ waiting' = [waiting EXCEPT ![w] = Append(@, t)]
          /\ Acquires(t) /\ ~Queued(t)
      BY <1>4 DEF Wait
    <2>2. waiting' \in [Locks -> Seq(Tasks)]
      <3>1. CASE w \in Locks
        <4>1. Append(waiting[w], t) \in Seq(Tasks)
          BY <3>1 DEF TypeOK
        <4> QED BY <2>1, <4>1 DEF TypeOK
      <3>2. CASE w \notin Locks
        BY <2>1, <3>2 DEF TypeOK
      <3> QED BY <3>1, <3>2
    <2>3. ASSUME NEW l \in Locks, NEW i \in DOMAIN waiting'[l]
          PROVE  \/ i \in DOMAIN waiting[l] /\ waiting'[l][i] = waiting[l][i]
                 \/ l = w /\ i = Len(waiting[l]) + 1 /\ waiting'[l][i] = t
      BY <2>1, <2>3 DEF TypeOK
    <2>4. ASSUME NEW l \in Locks, NEW i \in DOMAIN waiting'[l]
          PROVE  Acquires(waiting[l][i])' /\ Wanted(waiting[l][i])' = l
      <3>1. Acquires(waiting'[l][i]) /\ Wanted(waiting'[l][i]) = l
        BY <2>1, <2>3 DEF TypeOK
      <3> QED BY <2>1, <3>1 DEF Acquires, Wanted
    <2>5. ASSUME NEW l \in Locks, NEW i \in DOMAIN waiting'[l], NEW j \in DOMAIN waiting'[l],
                 waiting'[l][i] = waiting'[l][j]
          PROVE  i = j
      <3>1. \A k \in DOMAIN waiting[l] : waiting[l][k] # t
        BY <2>1 DEF Queued
      <3>2. CASE i \in DOMAIN waiting[l] /\ waiting'[l][i] = waiting[l][i]
        <4>1. j \in DOMAIN waiting[l] /\ waiting'[l][j] = waiting[l][j]
          BY <2>3, <2>5, <3>1, <3>2
        <4> QED BY <2>5, <3>2, <4>1 DEF TypeOK
      <3>3. CASE i = Len(waiting[l]) + 1 /\ waiting'[l][i] = t
        <4>1. j = Len(waiting[l]) + 1
          BY <2>3, <2>5, <3>1, <3>3
        <4> QED BY <3>3, <4>1
      <3> QED BY <2>3, <3>2, <3>3
    <2> QED BY <2>1, <2>2, <2>4, <2>5 DEF TypeOK, Holders
  <1>5. ASSUME NEW t \in Tasks, Grant(t) PROVE TypeOK'
    <2> DEFINE w == Wanted(t)
    <2>1. /\ waiting' = [waiting EXCEPT ![w] = Tail(@)]
          /\ waiting[w] # <<>> /\ Head(waiting[w]) = t
          /\ Acquires(t) /\ Compatible(t) /\ GiveTo(t)
      BY <1>5 DEF Grant
    <2>2. waiting' \in [Locks -> Seq(Tasks)]
      <3>1. CASE w \in Locks
        <4>1. Tail(waiting[w]) \in Seq(Tasks)
          BY <2>1, <3>1 DEF TypeOK
        <4> QED BY <2>1, <4>1 DEF TypeOK
      <3>2. CASE w \notin Locks
        BY <2>1, <3>2 DEF TypeOK
      <3> QED BY <3>1, <3>2
    <2>3. ASSUME NEW l \in Locks, NEW i \in DOMAIN waiting'[l]
          PROVE  /\ l = w => i + 1 \in DOMAIN waiting[l] /\ waiting'[l][i] = waiting[l][i + 1]
                 /\ l # w => i \in DOMAIN waiting[l] /\ waiting'[l][i] = waiting[l][i]
                 /\ i \in Nat
      <3>1. CASE l = w
        <4>1. waiting[l] \in Seq(Tasks) /\ waiting[l] # <<>> /\ waiting'[l] = Tail(waiting[l])
          BY <2>1, <3>1 DEF TypeOK
        <4>2. i \in DOMAIN Tail(waiting[l])
          BY <4>1
        <4> QED BY <3>1, <4>1, <4>2
      <3>2. CASE l # w
        BY <2>1, <2>3, <3>2 DEF TypeOK
      <3> QED BY <3>1, <3>2
    <2>4. ASSUME NEW l \in Locks, NEW i \in DOMAIN waiting'[l]
          PROVE  waiting'[l][i] # t /\ waiting'[l][i] \in Tasks
                 /\ Acquires(waiting'[l][i]) /\ Wanted(waiting'[l][i]) = l
      <3>1. CASE l = w
        <4>1. i + 1 \in DOMAIN waiting[l] /\ waiting'[l][i] = waiting[l][i + 1] /\ i \in Nat
          BY <2>3, <3>1
        <4>2. waiting[l] \in Seq(Tasks) /\ 1 \in DOMAIN waiting[l] /\ waiting[l][1] = t
          BY <2>1, <3>1 DEF TypeOK
        <4>3. i # 0
          BY <2>2
        <4>4. i + 1 # 1
          BY <4>1, <4>3
        <4>5. waiting[l][i + 1] # t
          BY <4>1, <4>2, <4>4 DEF TypeOK
        <4>6. waiting[l][i + 1] \in Tasks
          BY <4>1, <4>2
        <4>7. Acquires(waiting[l][i + 1]) /\ Wanted(waiting[l][i + 1]) = l
          BY <4>1 DEF TypeOK
        <4> QED BY <4>1, <4>5, <4>6, <4>7
      <3>2. CASE l # w
        <4>1. i \in DOMAIN waiting[l] /\ waiting'[l][i] = waiting[l][i]
          BY <2>3, <3>2
        <4>2. Wanted(waiting[l][i]) = l /\ Acquires(waiting[l][i])
          BY <4>1 DEF TypeOK
        <4>3. waiting[l][i] \in Tasks
          BY <4>1 DEF TypeOK
        <4>4. waiting[l][i] # t
          BY <3>2, <4>2
        <4> QED BY <4>1, <4>2, <4>3, <4>4
      <3> QED BY <3>1, <3>2
    <2>5. \A u \in Tasks : u # t => todo'[u] = todo[u]
      BY <2>1, GiveToTyped
    <2>6. ASSUME NEW l \in Locks, NEW i \in DOMAIN waiting'[l]
          PROVE  Acquires(waiting[l][i])' /\ Wanted(waiting[l][i])' = l
      BY <2>4, <2>5 DEF Acquires, Wanted
    <2>7. ASSUME NEW l \in Locks, NEW i \in DOMAIN waiting'[l], NEW j \in DOMAIN waiting'[l],
                 waiting'[l][i] = waiting'[l][j]
          PROVE  i = j
      <3>1. CASE l = w
        <4>1. i + 1 = j + 1
          BY <2>3, <2>7, <3>1 DEF TypeOK
        <4>2. i \in Nat /\ j \in Nat
          BY <2>3
        <4> QED BY <4>1, <4>2
      <3>2. CASE l # w
        BY <2>3, <2>7, <3>2 DEF TypeOK
      <3> QED BY <3>1, <3>2
    <2> QED BY <2>1, <2>2, <2>6, <2>7, GiveToTyped DEF TypeOK, Holders
  <1>6. ASSUME NEW t \in Tasks, Release(t) PROVE TypeOK'
    <2> DEFINE r == Head(todo[t]).lock
    <2>1. /\ readers' = [readers EXCEPT ![r] = @ \ {t}]
          /\ writers' = [writers EXCEPT ![r] = @ \ {t}]
          /\ todo' = [todo EXCEPT ![t] = Tail(@)]
          /\ waiting' = waiting
      BY <1>6 DEF Release
    <2>2. ~Acquires(t)
      BY <1>6 DEF Release, About, Acquires, Acquisitions
    <2>3. /\ todo' = [u \in Tasks |-> todo'[u]]
          /\ \A u \in Tasks : u # t => todo'[u] = todo[u]
      BY <2>1 DEF TypeOK
    <2>4. readers' \in [Locks -> SUBSET Tasks] /\ writers' \in [Locks -> SUBSET Tasks]
      BY <2>1 DEF TypeOK
    <2>5. ASSUME NEW l \in Locks, NEW u \in writers'[l]
          PROVE  readers'[l] \cup writers'[l] = {u}
      <3>1. u \in writers[l] /\ readers'[l] \subseteq readers[l]
                             /\ writers'[l] \subseteq writers[l]
        BY <2>1, <2>5 DEF TypeOK
      <3>2. readers[l] \cup writers[l] = {u}
        BY <3>1 DEF TypeOK, Holders
      <3> QED BY <2>5, <3>1, <3>2
    <2> QED BY <2>1, <2>2, <2>3, <2>4, <2>5, NotQueued, QueuesUndisturbed DEF TypeOK, Holders
  <1>7. ASSUME NEW t \in Tasks, IoReturns(t) \/ Branch(t) PROVE TypeOK'
    <2>1. ~Acquires(t)
      BY <1>7 DEF IoReturns, Branch, About, Acquires, Acquisitions
    <2>2. /\ todo' = [u \in Tasks |-> todo'[u]]
          /\ \A u \in Tasks : u # t => todo'[u] = todo[u]
      BY <1>7 DEF IoReturns, Branch, TypeOK
    <2>3. waiting' = waiting /\ readers' = readers /\ writers' = writers
      BY <1>7 DEF IoReturns, Branch
    <2> QED BY <2>1, <2>2, <2>3, NotQueued, QueuesUndisturbed DEF TypeOK, Holders
  <1> QED BY <1>1, <1>2, <1>3, <1>4, <1>5, <1>6, <1>7 DEF Next, Step

(* Guards exclude one another and every waiter stands once in the queue of the   *)
(* lock it wants (tokio's Mutex and RwLock as DaemonCore uses them).             *)
THEOREM TypeCorrect == Spec => []TypeOK
  BY TypeInit, TypeStep, PTL DEF Spec

-----------------------------------------------------------------------------------
(* If every member of a set of tasks were blocked by another member, look at the *)
(* last lock of the order that one of them wants, and at the first of the set in *)
(* its queue: whoever blocks it wants a later lock, or stands before it.         *)
LEMMA OrderedWaitsEnd == TypeOK /\ OrderRespected => NoCircularWait
  <1> SUFFICES ASSUME TypeOK, OrderRespected,
                      NEW W \in (SUBSET Tasks) \ {{}},
                      \A t \in W : \E u \in W : BlockedBy(t, u)
               PROVE  FALSE
    BY DEF NoCircularWait
  <1> DEFINE Waits(t, l) == \E i \in DOMAIN waiting[l] : waiting[l][i] = t
             Ranks == {12 - Rank[l] : l \in {m \in Locks : \E t \in W : Waits(t, m)}}
  <1>1. \A l \in Locks : Rank[l] \in 0..12
    BY SMT DEF Rank, Locks
  <1>2. PICK t0 \in W : TRUE
    OBVIOUS
  <1>3. \E l \in Locks : Waits(t0, l)
    BY <1>2 DEF BlockedBy
  <1>4. Ranks \in SUBSET Nat /\ Ranks # {}
    BY <1>1, <1>2, <1>3
  <1>5. PICK r \in Ranks : \A q \in Ranks : r <= q
    <2>1. Ranks \in SUBSET Nat /\ Ranks # {}
      BY <1>4
    <2> HIDE DEF Ranks
    <2> QED BY <2>1, Least
  <1>6. PICK l \in Locks : r = 12 - Rank[l] /\ \E t \in W : Waits(t, l)
    BY <1>5
  <1>7. ASSUME NEW m \in Locks, NEW t \in W, Waits(t, m)
        PROVE  Rank[m] <= Rank[l]
    <2>1. 12 - Rank[m] \in Ranks
      BY <1>7
    <2>2. 12 - Rank[l] <= 12 - Rank[m]
      BY <1>5, <1>6, <2>1
    <2> QED BY <1>1, <2>2
  <1> DEFINE Places == {i \in DOMAIN waiting[l] : waiting[l][i] \in W}
  <1>8. Places \in SUBSET Nat /\ Places # {}
    BY <1>6 DEF TypeOK
  <1>9. PICK p \in Places : \A q \in Places : p <= q
    <2>1. Places \in SUBSET Nat /\ Places # {}
      BY <1>8
    <2> HIDE DEF Places
    <2> QED BY <2>1, Least
  <1> DEFINE t == waiting[l][p]
  <1>10. t \in W /\ p \in DOMAIN waiting[l]
    BY <1>9
  <1>11. PICK u \in W : BlockedBy(t, u)
    BY <1>10
  <1>12. PICK m \in Locks : \E i \in DOMAIN waiting[m] :
            /\ waiting[m][i] = t
            /\ u \in Holders(m) \/ \E j \in 1..(i - 1) : waiting[m][j] = u
    BY <1>11 DEF BlockedBy
  <1>a. PICK i \in DOMAIN waiting[m] :
            /\ waiting[m][i] = t
            /\ u \in Holders(m) \/ \E j \in 1..(i - 1) : waiting[m][j] = u
    BY <1>12
  <1>13. m = l /\ i = p
    BY <1>10, <1>a DEF TypeOK
  <1>14. CASE u \in Holders(l)
    <2>1. PICK k \in Locks : Waits(u, k)
      BY DEF BlockedBy
    <2>2. Acquires(u) /\ Wanted(u) = k
      BY <2>1 DEF TypeOK
    <2>3. l \in Held(u)
      BY <1>14 DEF Held
    <2>4. Rank[l] < Rank[k]
      BY <2>2, <2>3 DEF OrderRespected
    <2>5. Rank[k] <= Rank[l]
      BY <1>7, <2>1
    <2> QED BY <1>1, <2>4, <2>5
  <1>15. CASE \E j \in 1..(p - 1) : waiting[l][j] = u
    <2>1. PICK j \in 1..(p - 1) : waiting[l][j] = u
      BY <1>15
    <2>2. j \in DOMAIN waiting[l] /\ j \in Nat /\ p \in Nat
      BY <1>10, <2>1 DEF TypeOK
    <2>3. j \in Places
      BY <2>1, <2>2
    <2> QED BY <1>9, <2>1, <2>2, <2>3
  <1> QED BY <1>a, <1>13, <1>14, <1>15

-----------------------------------------------------------------------------------
(* What it means for a program to keep the order.  A certificate G is a set of   *)
(* pairs of what is left of a program and the locks held there; it is closed     *)
(* under the steps of a task, and none of them takes a lock out of order, waits  *)
(* for the world with a lock that playback needs, or ends with other locks than  *)
(* K.                                                                            *)
(* A sequence of steps, of whatever kind.                                       *)
IsProgram(p) == p \in Seq({p[i] : i \in DOMAIN p})

(* l may be taken while the locks H are held.                                   *)
InOrder(H, l) == \A k \in H : Rank[k] < Rank[l]

(* What running the first step of p with the locks H held asks of G.             *)
Sound(p, H, K, G) ==
    /\ IsProgram(p)
    /\ H \in SUBSET Locks
    /\ p = <<>> => H = K
    /\ p # <<>> =>
        /\ Head(p).do \in Acquisitions =>
              /\ Head(p).lock \in Locks
              /\ InOrder(H, Head(p).lock)
              /\ <<Tail(p), H \cup {Head(p).lock}>> \in G
        /\ Head(p).do = "drop" => <<Tail(p), H \ {Head(p).lock}>> \in G
        /\ Head(p).do = "io" => H \subseteq KeptAcrossIo /\ <<Tail(p), H>> \in G
        /\ Head(p).do = "either" =>
              \A b \in Head(p).branches : IsProgram(b) /\ <<b \o Tail(p), H>> \in G

Certifies(G, K) == \A x \in G : Sound(x[1], x[2], K, G)

(* The program p, started with the locks H, keeps the order and ends with K.     *)
Runs(p, H, K) == \E G : Certifies(G, K) /\ <<p, H>> \in G

(* A sequence over any set is a sequence of its own elements. *)
LEMMA ProgramOfSeq ==
    ASSUME NEW U, NEW p \in Seq(U)
    PROVE  IsProgram(p)
  <1>1. DOMAIN p = 1..Len(p) /\ Len(p) \in Nat /\ p = [i \in 1..Len(p) |-> p[i]]
    BY LenProperties
  <1>2. p \in [1..Len(p) -> {p[i] : i \in DOMAIN p}]
    BY <1>1
  <1> QED BY <1>1, <1>2, SeqDef DEF IsProgram

(* Two programs are sequences over one set of steps. *)
LEMMA CommonSteps ==
    ASSUME NEW p, NEW q, IsProgram(p), IsProgram(q)
    PROVE  \E U : p \in Seq(U) /\ q \in Seq(U)
  <1> DEFINE P == {p[i] : i \in DOMAIN p}
             Q == {q[i] : i \in DOMAIN q}
  <1>1. p \in Seq(P) /\ q \in Seq(Q)
    BY DEF IsProgram
  <1>2. p \in Seq(P \cup Q) /\ q \in Seq(P \cup Q)
    <2> HIDE DEF P, Q
    <2> QED BY <1>1, SeqMonotonic
  <1> QED BY <1>2

(* What the concatenation of two programs begins with, and what is left of it   *)
(* after its first step.                                                        *)
LEMMA ConcatFacts ==
    ASSUME NEW p, NEW q, IsProgram(p), IsProgram(q)
    PROVE  /\ IsProgram(p \o q)
           /\ p = <<>> => p \o q = q
           /\ p # <<>> => /\ p \o q # <<>>
                          /\ Head(p \o q) = Head(p)
                          /\ Tail(p \o q) = Tail(p) \o q
                          /\ IsProgram(Tail(p))
  <1>1. PICK U : p \in Seq(U) /\ q \in Seq(U)
    BY CommonSteps
  <1>2. IsProgram(p \o q)
    BY <1>1, ConcatProperties, ProgramOfSeq
  <1>3. p = <<>> => p \o q = q
    BY <1>1, ConcatEmptySeq
  <1>4. ASSUME p # <<>>
        PROVE  /\ p \o q # <<>>
               /\ Head(p \o q) = Head(p)
               /\ Tail(p \o q) = Tail(p) \o q
               /\ IsProgram(Tail(p))
    <2>1. Tail(p) \in Seq(U)
      BY <1>1, <1>4, HeadTailProperties
    <2>2. Len(p \o q) = Len(p) + Len(q) /\ p \o q \in Seq(U)
          /\ \A i \in 1..Len(p) + Len(q) :
                (p \o q)[i] = IF i <= Len(p) THEN p[i] ELSE q[i - Len(p)]
      BY <1>1, ConcatProperties
    <2>3. Len(p) \in Nat /\ Len(q) \in Nat /\ Len(p) # 0
      BY <1>1, <1>4, LenProperties, EmptySeq
    <2>4. p \o q # <<>>
      BY <1>1, <1>4, ConcatEqualIffEmpty
    <2>5. Head(p \o q) = Head(p)
      BY <2>2, <2>3
    <2>6. Tail(p \o q) = Tail(p) \o q
      <3>1. Tail(p \o q) \in Seq(U) /\ Tail(p) \o q \in Seq(U)
        BY <1>1, <2>1, <2>2, <2>4, HeadTailProperties, ConcatProperties
      <3>2. /\ Len(Tail(p \o q)) = Len(p) + Len(q) - 1
            /\ \A i \in 1..(Len(p) + Len(q) - 1) : Tail(p \o q)[i] = (p \o q)[i + 1]
        BY <2>2, <2>4, HeadTailProperties
      <3>3. /\ Len(Tail(p)) = Len(p) - 1
            /\ \A i \in 1..(Len(p) - 1) : Tail(p)[i] = p[i + 1]
        BY <1>1, <1>4, HeadTailProperties
      <3>4. /\ Len(Tail(p) \o q) = Len(Tail(p)) + Len(q)
            /\ \A i \in 1..(Len(Tail(p)) + Len(q)) : (Tail(p) \o q)[i] =
                  IF i <= Len(Tail(p)) THEN Tail(p)[i] ELSE q[i - Len(Tail(p))]
        BY <1>1, <2>1, ConcatProperties
      <3>5. ASSUME NEW i \in 1..(Len(p) + Len(q) - 1)
            PROVE  Tail(p \o q)[i] = (Tail(p) \o q)[i]
        <4>1. Tail(p \o q)[i] = IF i + 1 <= Len(p) THEN p[i + 1] ELSE q[(i + 1) - Len(p)]
          BY <2>2, <2>3, <3>2
        <4>2. (Tail(p) \o q)[i] = IF i <= Len(p) - 1 THEN Tail(p)[i] ELSE q[i - (Len(p) - 1)]
          BY <2>3, <3>3, <3>4
        <4> QED BY <2>3, <3>3, <4>1, <4>2
      <3> QED BY <2>3, <3>1, <3>2, <3>3, <3>4, <3>5, SeqEqual
    <2> QED BY <2>1, <2>4, <2>5, <2>6, ProgramOfSeq
  <1> QED BY <1>2, <1>3, <1>4

(* Programs may be regrouped. *)
LEMMA ConcatAssoc ==
    ASSUME NEW p, NEW q, NEW r, IsProgram(p), IsProgram(q), IsProgram(r)
    PROVE  (p \o q) \o r = p \o (q \o r)
  <1>1. PICK U : p \in Seq(U) /\ q \in Seq(U)
    BY CommonSteps
  <1>2. PICK V : p \o q \in Seq(V) /\ r \in Seq(V)
    BY CommonSteps, ConcatFacts
  <1>3. p \in Seq(U \cup V) /\ q \in Seq(U \cup V) /\ r \in Seq(U \cup V)
    BY <1>1, <1>2, SeqMonotonic
  <1> QED BY <1>3, ConcatAssociative

(* A program that ends where another begins can be followed by it: the          *)
(* certificate of the pair chains the two.                                      *)
LEMMA RunsOn ==
    ASSUME NEW p, NEW q, NEW H, NEW K, NEW L, Runs(p, H, K), Runs(q, K, L)
    PROVE  Runs(p \o q, H, L)
  <1>1. PICK F : Certifies(F, K) /\ <<p, H>> \in F
    BY DEF Runs
  <1>2. PICK E : Certifies(E, L) /\ <<q, K>> \in E
    BY DEF Runs
  <1> DEFINE Chained == {<<x[1] \o q, x[2]>> : x \in F}
             G == Chained \cup E
  <1>3. IsProgram(q)
    BY <1>2 DEF Certifies, Sound
  <1>4. ASSUME NEW x \in F PROVE Sound(x[1] \o q, x[2], L, G)
    <2> DEFINE y == x[1]
               J == x[2]
    <2>1. Sound(y, J, K, F)
      BY <1>1 DEF Certifies
    <2>2. IsProgram(y) /\ J \in SUBSET Locks
      BY <2>1 DEF Sound
    <2>3. CASE y = <<>>
      <3>1. y \o q = q /\ J = K
        BY <1>3, <2>1, <2>2, <2>3, ConcatFacts DEF Sound
      <3>2. Sound(q, K, L, E)
        BY <1>2 DEF Certifies
      <3> QED BY <3>1, <3>2 DEF Sound
    <2>4. CASE y # <<>>
      <3> DEFINE z == y \o q
      <3>1. /\ IsProgram(z) /\ z # <<>> /\ Head(z) = Head(y)
            /\ Tail(z) = Tail(y) \o q /\ IsProgram(Tail(y))
        BY <1>3, <2>2, <2>4, ConcatFacts
      <3>0. ASSUME NEW a, NEW M, <<a, M>> \in F PROVE <<a \o q, M>> \in G
        <4>1. << <<a, M>>[1] \o q, <<a, M>>[2] >> \in Chained
          BY <3>0
        <4> QED BY <4>1
      <3>2. \A M : <<Tail(y), M>> \in F => <<Tail(z), M>> \in G
        <4> HIDE DEF G
        <4> QED BY <3>0, <3>1
      <3>3. ASSUME NEW b, IsProgram(b), NEW M, <<b \o Tail(y), M>> \in F
            PROVE  <<b \o Tail(z), M>> \in G
        <4> HIDE DEF G, z, y
        <4>1. <<(b \o Tail(y)) \o q, M>> \in G
          BY <3>0, <3>3
        <4>2. (b \o Tail(y)) \o q = b \o (Tail(y) \o q)
          <5>1. IsProgram(b) /\ IsProgram(Tail(y)) /\ IsProgram(q)
            BY <1>3, <3>1, <3>3
          <5>2. \A t : IsProgram(t) => (b \o t) \o q = b \o (t \o q)
            BY <1>3, <3>3, ConcatAssoc
          <5> QED BY <5>1, <5>2, Zenon
        <4> QED BY <3>1, <4>1, <4>2
      <3> HIDE DEF z, G
      <3>4. Sound(z, J, L, G)
        BY <2>1, <2>2, <2>4, <3>1, <3>2, <3>3 DEF Sound
      <3> QED BY <3>4 DEF z
    <2> QED BY <2>3, <2>4
  <1>5. ASSUME NEW x \in E PROVE Sound(x[1], x[2], L, G)
    <2>1. Sound(x[1], x[2], L, E)
      BY <1>2 DEF Certifies
    <2> QED BY <2>1 DEF Sound
  <1>6. Certifies(G, L)
    <2> SUFFICES ASSUME NEW x \in G PROVE Sound(x[1], x[2], L, G)
      BY DEF Certifies
    <2>1. CASE x \in Chained
      <3>1. PICK w \in F : x = <<w[1] \o q, w[2]>>
        BY <2>1
      <3> QED BY <1>4, <3>1
    <2> QED BY <1>5, <2>1
  <1>7. <<p \o q, H>> \in G
    BY <1>1
  <1> HIDE DEF G
  <1> QED BY <1>6, <1>7 DEF Runs

(* A program of one step. *)
LEMMA Single ==
    ASSUME NEW s
    PROVE  /\ IsProgram(<<s>>) /\ <<s>> # <<>>
           /\ Head(<<s>>) = s /\ Tail(<<s>>) = <<>>
  <1>1. <<s>> \in Seq({s}) /\ <<s>> # <<>> /\ Head(<<s>>) = s /\ Tail(<<s>>) = <<>>
    OBVIOUS
  <1>2. IsProgram(<<s>>)
    BY <1>1, ProgramOfSeq, Zenon
  <1> QED BY <1>1, <1>2

(* Nothing to do is a program. *)
LEMMA NoProgram == IsProgram(<<>>)
  BY EmptySeq DEF IsProgram

(* A certificate of two entries. *)
LEMMA TwoEntries ==
    ASSUME NEW p, NEW H, NEW q, NEW J, NEW K, NEW G, G = {<<p, H>>, <<q, J>>},
           Sound(p, H, K, G), Sound(q, J, K, G)
    PROVE  Runs(p, H, K)
  <1>1. ASSUME NEW x \in G PROVE Sound(x[1], x[2], K, G)
    <2>1. CASE x = <<p, H>>
      BY <2>1
    <2>2. CASE x = <<q, J>>
      BY <2>2
    <2> QED BY <2>1, <2>2
  <1>2. Certifies(G, K)
    BY <1>1 DEF Certifies
  <1>3. <<p, H>> \in G
    OBVIOUS
  <1> QED BY <1>2, <1>3 DEF Runs

(* The empty program leaves the locks it finds. *)
LEMMA RunsNothing ==
    ASSUME NEW H \in SUBSET Locks
    PROVE  Runs(<<>>, H, H)
  <1> DEFINE G == {<< <<>>, H >>, << <<>>, H >>}
  <1>1. Sound(<<>>, H, H, G)
    BY NoProgram DEF Sound
  <1> HIDE DEF G
  <1> QED BY <1>1, TwoEntries DEF G

(* One step, that leads from the locks H to J. *)
LEMMA RunsStep ==
    ASSUME NEW s, NEW H \in SUBSET Locks, NEW J \in SUBSET Locks,
           \/ s.do \in Acquisitions /\ s.lock \in Locks /\ InOrder(H, s.lock)
                /\ J = H \cup {s.lock}
           \/ s.do = "drop" /\ J = H \ {s.lock}
           \/ s.do = "io" /\ H \subseteq KeptAcrossIo /\ J = H
    PROVE  Runs(<<s>>, H, J)
  <1> DEFINE G == {<< <<s>>, H >>, << <<>>, J >>}
  <1>1. << <<>>, J >> \in G
    OBVIOUS
  <1>2. Sound(<<>>, J, J, G)
    BY NoProgram DEF Sound
  <1>3. Sound(<<s>>, H, J, G)
    <2> HIDE DEF G
    <2> QED BY <1>1, Single DEF Sound, Acquisitions
  <1>4. G = {<< <<s>>, H >>, << <<>>, J >>}
    OBVIOUS
  <1> HIDE DEF G
  <1> QED BY <1>2, <1>3, <1>4, TwoEntries

(* Taking a lock that comes after all the locks held. *)
LEMMA RunsAcquire ==
    ASSUME NEW H \in SUBSET Locks, NEW l \in Locks, InOrder(H, l)
    PROVE  Runs(Read(l), H, H \cup {l}) /\ Runs(Write(l), H, H \cup {l})
  <1>1. H \cup {l} \in SUBSET Locks
    OBVIOUS
  <1> QED BY <1>1, RunsStep DEF Read, Write, Acquisitions

(* Dropping a guard. *)
LEMMA RunsDrop ==
    ASSUME NEW H \in SUBSET Locks, NEW l
    PROVE  Runs(Drop(l), H, H \ {l})
  <1>1. H \ {l} \in SUBSET Locks
    OBVIOUS
  <1> QED BY <1>1, RunsStep DEF Drop

(* Waiting for the world with nothing held that playback needs. *)
LEMMA RunsIo ==
    ASSUME NEW H \in SUBSET Locks, H \subseteq KeptAcrossIo
    PROVE  Runs(Io, H, H)
  BY RunsStep DEF Io

(* A choice whose branches all lead to the same locks. *)
LEMMA RunsEither ==
    ASSUME NEW S, NEW H \in SUBSET Locks, NEW K, \A b \in S : Runs(b, H, K)
    PROVE  Runs(Either(S), H, K)
  <1> DEFINE s == [do |-> "either", branches |-> S]
             Cert(b) == CHOOSE G : Certifies(G, K) /\ <<b, H>> \in G
             All == UNION {Cert(b) : b \in S}
             G == All \cup {<< <<s>>, H >>}
  <1>1. \A b \in S : Certifies(Cert(b), K) /\ <<b, H>> \in Cert(b)
    BY DEF Runs
  <1>2. s.do = "either" /\ s.branches = S
    OBVIOUS
  <1> HIDE DEF s, Cert
  <1>3. ASSUME NEW b \in S PROVE IsProgram(b) /\ b \o <<>> = b /\ <<b, H>> \in G
    <2>1. IsProgram(b)
      BY <1>1 DEF Certifies, Sound
    <2> QED BY <1>1, <2>1, ConcatEmptySeq DEF IsProgram
  <1>4. Sound(<<s>>, H, K, G)
    BY <1>2, <1>3, Single DEF Sound, Acquisitions
  <1>5. ASSUME NEW x \in All PROVE Sound(x[1], x[2], K, G)
    <2>1. PICK b \in S : x \in Cert(b)
      OBVIOUS
    <2>2. Sound(x[1], x[2], K, Cert(b))
      BY <1>1, <2>1 DEF Certifies
    <2>3. Cert(b) \subseteq G
      OBVIOUS
    <2> HIDE DEF G
    <2> QED BY <2>2, <2>3 DEF Sound
  <1>6. Certifies(G, K)
    BY <1>4, <1>5 DEF Certifies
  <1>7. << <<s>>, H >> \in G
    OBVIOUS
  <1> HIDE DEF G
  <1> QED BY <1>6, <1>7 DEF Runs, Either, s

(* The first step of a program that runs in order, and what is left of it. *)
LEMMA RunsNext ==
    ASSUME NEW p, NEW H, NEW K, Runs(p, H, K)
    PROVE  /\ H \in SUBSET Locks
           /\ p = <<>> => H = K
           /\ p # <<>> =>
               /\ Head(p).do \in Acquisitions =>
                     /\ Head(p).lock \in Locks /\ InOrder(H, Head(p).lock)
                     /\ Runs(Tail(p), H \cup {Head(p).lock}, K)
               /\ Head(p).do = "drop" => Runs(Tail(p), H \ {Head(p).lock}, K)
               /\ Head(p).do = "io" => H \subseteq KeptAcrossIo /\ Runs(Tail(p), H, K)
               /\ Head(p).do = "either" =>
                     \A b \in Head(p).branches : Runs(b \o Tail(p), H, K)
  <1>1. PICK G : Certifies(G, K) /\ <<p, H>> \in G
    BY DEF Runs
  <1>2. Sound(p, H, K, G)
    <2>1. Sound(<<p, H>>[1], <<p, H>>[2], K, G)
      BY <1>1, Zenon DEF Certifies
    <2> QED BY <2>1
  <1>3. \A q, J : <<q, J>> \in G => Runs(q, J, K)
    BY <1>1 DEF Runs
  <1> QED BY <1>2, <1>3 DEF Sound

-----------------------------------------------------------------------------------
(* The sets of locks whose places are below n, and what a program does over each *)
(* of them: it leaves the locks as they were, takes l, or drops l.               *)
Below(n) == {H \in SUBSET Locks : \A l \in H : Rank[l] < n}

Safe(p, n) == \A H \in Below(n) : Runs(p, H, H)

Opens(p, l, n) == \A H \in Below(n) : Runs(p, H, H \cup {l})

Closes(p, l, n) == \A H \in Below(n) : Runs(p, H \cup {l}, H)

(* The place of every lock, and that only the three prefix locks, which may be  *)
(* kept across an input or output, have place 0.                                *)
LEMMA RankValues ==
    /\ Locks = {"config_transactions", "playback_transitions", "rating_updates", "state",
                "track_cache", "subsonic", "mpv", "pipewire", "prebuffer_cancel",
                "prebuffer_loading", "prebuffer_files", "last_loadfile",
                "last_preload_attempt", "cover_art_cache", "scrobble_state"}
    /\ Rank["config_transactions"] = 0 /\ Rank["playback_transitions"] = 0
    /\ Rank["rating_updates"] = 0 /\ Rank["state"] = 1 /\ Rank["track_cache"] = 2
    /\ Rank["subsonic"] = 3 /\ Rank["mpv"] = 4 /\ Rank["pipewire"] = 5
    /\ Rank["prebuffer_cancel"] = 6 /\ Rank["prebuffer_loading"] = 7
    /\ Rank["prebuffer_files"] = 8 /\ Rank["last_loadfile"] = 9
    /\ Rank["last_preload_attempt"] = 10 /\ Rank["cover_art_cache"] = 11
    /\ Rank["scrobble_state"] = 12
    /\ \A l \in Locks : Rank[l] \in Nat
    /\ \A l \in Locks : Rank[l] < 1 => l \in KeptAcrossIo
  BY SMT DEF Rank, Locks, KeptAcrossIo

(* A lock of place n or more can be taken over locks below n, and dropped       *)
(* again.                                                                       *)
LEMMA Inside ==
    ASSUME NEW l \in Locks, NEW n \in Nat, n <= Rank[l], NEW H \in Below(n)
    PROVE  /\ InOrder(H, l) /\ H \in SUBSET Locks
           /\ H \cup {l} \in Below(Rank[l] + 1)
           /\ (H \cup {l}) \ {l} = H
  <1>1. H \in SUBSET Locks /\ \A k \in H : Rank[k] < n
    BY DEF Below
  <1>2. \A k \in Locks : Rank[k] \in Nat
    BY RankValues
  <1>3. InOrder(H, l)
    BY <1>1, <1>2 DEF InOrder
  <1>4. l \notin H
    BY <1>1, <1>2
  <1>5. \A k \in H \cup {l} : Rank[k] < Rank[l] + 1
    BY <1>1, <1>2
  <1> QED BY <1>1, <1>3, <1>4, <1>5 DEF Below

(* Inside a prefix lock, and inside state. *)
LEMMA Levels ==
    /\ \A l \in {"playback_transitions", "config_transactions", "rating_updates"} :
          \A H \in Below(0) : H \cup {l} \in Below(1)
    /\ \A H \in Below(1) : H \cup {"state"} \in Below(2)
  <1>1. ASSUME NEW l \in {"playback_transitions", "config_transactions", "rating_updates"},
               NEW H \in Below(0)
        PROVE  H \cup {l} \in Below(1)
    <2>1. l \in Locks /\ Rank[l] = 0 /\ Rank[l] + 1 = 1
      BY RankValues
    <2>2. H \cup {l} \in Below(Rank[l] + 1)
      BY <2>1, Inside
    <2> QED BY <2>1, <2>2
  <1>2. ASSUME NEW H \in Below(1)
        PROVE  H \cup {"state"} \in Below(2)
    <2>1. "state" \in Locks /\ Rank["state"] = 1 /\ Rank["state"] + 1 = 2
      BY RankValues
    <2>2. H \cup {"state"} \in Below(Rank["state"] + 1)
      BY <2>1, Inside
    <2> QED BY <2>1, <2>2
  <1> QED BY <1>1, <1>2

(* What is safe with a prefix lock held is safe with nothing held. *)
LEMMA Weaken ==
    ASSUME NEW p, Safe(p, 1)
    PROVE  Safe(p, 0)
  <1>1. Below(0) \subseteq Below(1)
    BY RankValues DEF Below
  <1> QED BY <1>1 DEF Safe

(* Nothing to do is safe. *)
LEMMA Idle == \A n : Safe(<<>>, n)
  BY RunsNothing DEF Safe, Below

(* One safe program after another. *)
LEMMA Then ==
    ASSUME NEW p, NEW q, NEW n, Safe(p, n), Safe(q, n)
    PROVE  Safe(p \o q, n)
  BY RunsOn DEF Safe

(* A choice between safe programs. *)
LEMMA Branches ==
    ASSUME NEW S, NEW n, \A p \in S : Safe(p, n)
    PROVE  Safe(Either(S), n)
  BY RunsEither DEF Safe, Below

(* A safe program that may be skipped. *)
LEMMA Perhaps ==
    ASSUME NEW p, NEW n, Safe(p, n)
    PROVE  Safe(May(p), n)
  BY Idle, Branches DEF May

(* Input and output are safe with at most the prefix locks held. *)
LEMMA IoIsSafe == Safe(Io, 1) /\ Safe(Io, 0)
  <1>1. \A H \in Below(1) : H \in SUBSET Locks /\ H \subseteq KeptAcrossIo
    BY RankValues DEF Below
  <1>2. Safe(Io, 1)
    BY <1>1, RunsIo DEF Safe
  <1> QED BY <1>2, Weaken

(* The two ways to take a guard. *)
LEMMA Open ==
    ASSUME NEW l \in Locks, NEW n \in Nat, n <= Rank[l]
    PROVE  Opens(Read(l), l, n) /\ Opens(Write(l), l, n)
  BY Inside, RunsAcquire DEF Opens

(* A guard that goes out of scope. *)
LEMMA Close ==
    ASSUME NEW l \in Locks, NEW n \in Nat, n <= Rank[l]
    PROVE  Closes(Drop(l), l, n)
  <1> SUFFICES ASSUME NEW H \in Below(n) PROVE Runs(Drop(l), H \cup {l}, H)
    BY DEF Closes
  <1>1. H \cup {l} \in SUBSET Locks /\ (H \cup {l}) \ {l} = H
    BY Inside
  <1>2. Runs(Drop(l), H \cup {l}, (H \cup {l}) \ {l})
    BY <1>1, RunsDrop, Zenon
  <1> QED BY <1>1, <1>2

(* A program inside the guard it follows. *)
LEMMA OpenThen ==
    ASSUME NEW l \in Locks, NEW n \in Nat, n <= Rank[l], NEW p, NEW q,
           Opens(p, l, n), Safe(q, Rank[l] + 1)
    PROVE  Opens(p \o q, l, n)
  BY Inside, RunsOn DEF Opens, Safe

(* A guard that is taken and dropped. *)
LEMMA OpenClose ==
    ASSUME NEW l, NEW n, NEW p, NEW q, Opens(p, l, n), Closes(q, l, n)
    PROVE  Safe(p \o q, n)
  BY RunsOn DEF Opens, Closes, Safe

(* A program inside the guard, before it is dropped. *)
LEMMA BeforeClose ==
    ASSUME NEW l \in Locks, NEW n \in Nat, n <= Rank[l], NEW p, NEW q,
           Safe(p, Rank[l] + 1), Closes(q, l, n)
    PROVE  Closes(p \o q, l, n)
  BY Inside, RunsOn DEF Closes, Safe

(* A program after the guard is dropped. *)
LEMMA CloseThen ==
    ASSUME NEW l, NEW n, NEW p, NEW q, Closes(p, l, n), Safe(q, n)
    PROVE  Closes(p \o q, l, n)
  BY RunsOn DEF Closes, Safe

(* A choice every branch of which drops the guard. *)
LEMMA BranchesClose ==
    ASSUME NEW l \in Locks, NEW n \in Nat, n <= Rank[l], NEW S, \A p \in S : Closes(p, l, n)
    PROVE  Closes(Either(S), l, n)
  <1> SUFFICES ASSUME NEW H \in Below(n) PROVE Runs(Either(S), H \cup {l}, H)
    BY DEF Closes
  <1>1. H \cup {l} \in SUBSET Locks
    BY Inside
  <1> QED BY <1>1, RunsEither DEF Closes

(* A guard around nothing else: Peek and Brief. *)
LEMMA Guards ==
    ASSUME NEW l \in Locks, NEW n \in Nat, n <= Rank[l]
    PROVE  Safe(Peek(l), n) /\ Safe(Brief(l), n)
  BY Open, Close, OpenClose DEF Peek, Brief
(* A program before the guard is taken. *)
LEMMA ThenOpen ==
    ASSUME NEW l, NEW n, NEW p, NEW q, Safe(p, n), Opens(q, l, n)
    PROVE  Opens(p \o q, l, n)
  BY RunsOn DEF Opens, Safe

(* A guard inside a guard, in the declared order. *)
LEMMA Nested ==
    ASSUME NEW l \in Locks, NEW m \in Locks, NEW n \in Nat, n <= Rank[l],
           Rank[l] < Rank[m], NEW q \in {Read(m), Write(m)}
    PROVE  Safe(Write(l) \o q \o Drop(m) \o Drop(l), n)
  <1> SUFFICES ASSUME NEW H \in Below(n)
               PROVE  Runs(Write(l) \o q \o Drop(m) \o Drop(l), H, H)
    BY DEF Safe
  <1> DEFINE I == H \cup {l}
             J == I \cup {m}
  <1>0. Rank[l] + 1 \in Nat /\ Rank[l] + 1 <= Rank[m]
    BY RankValues
  <1>1. I \in Below(Rank[l] + 1)
    BY Inside
  <1>2. Runs(Write(l), H, I)
    BY Open DEF Opens
  <1>3. Runs(q, I, J)
    BY <1>0, <1>1, Open DEF Opens
  <1>4. Runs(Drop(m), J, I)
    BY <1>0, <1>1, Close DEF Closes
  <1>5. Runs(Drop(l), I, H)
    BY Close DEF Closes
  <1> HIDE DEF I, J
  <1>6. Runs(Write(l) \o q, H, J)
    BY <1>2, <1>3, RunsOn
  <1>7. Runs(Write(l) \o q \o Drop(m), H, I)
    BY <1>4, <1>6, RunsOn
  <1> QED BY <1>5, <1>7, RunsOn

-----------------------------------------------------------------------------------
(* Every lock but the prefix locks, taken for a moment, inside a prefix lock    *)
(* or with nothing held.                                                        *)
LEMMA BriefGuards ==
    /\ Safe(Peek("state"), 1) /\ Safe(Brief("state"), 1)
    /\ Safe(Peek("subsonic"), 1) /\ Safe(Brief("subsonic"), 1)
    /\ Safe(Brief("track_cache"), 1) /\ Safe(Brief("mpv"), 1)
    /\ Safe(Brief("pipewire"), 1) /\ Safe(Brief("prebuffer_cancel"), 1)
    /\ Safe(Brief("prebuffer_loading"), 1) /\ Safe(Brief("prebuffer_files"), 1)
    /\ Safe(Brief("last_loadfile"), 1) /\ Safe(Brief("last_preload_attempt"), 1)
    /\ Safe(Brief("cover_art_cache"), 1) /\ Safe(Brief("scrobble_state"), 1)
  BY Guards, RankValues

(* core.rs: the readers of the daemon, the cover cache, the idle check, the     *)
(* filter and the batch of random songs.                                        *)
LEMMA CoreHandlers ==
    /\ Safe(emit_now_playing, 1) /\ Safe(emit_queue, 1) /\ Safe(emit_config_changed, 1)
    /\ Safe(snapshot, 1) /\ Safe(preferred_start_mode, 1) /\ Safe(start_mpv, 1)
    /\ Safe(quit_mpv, 1) /\ Safe(stamp_loadfile, 1) /\ Safe(cached_track_path, 1)
    /\ Safe(release_pipewire_rate, 1) /\ Safe(clear_cover_cache, 1)
    /\ Safe(cancel_prebuffer, 1) /\ Safe(is_idle_for_exit, 1)
    /\ Safe(filter_for_playback, 1) /\ Safe(pick_unplayed_random, 1)
  BY BriefGuards, Then, Perhaps, IoIsSafe
     DEF emit_now_playing, emit_queue, emit_config_changed, snapshot, preferred_start_mode,
         start_mpv, quit_mpv, stamp_loadfile, cached_track_path, release_pipewire_rate,
         clear_cover_cache, cancel_prebuffer, is_idle_for_exit, filter_for_playback,
         pick_unplayed_random

(* core.rs, queue_ops.rs: the preload of the next song, its resynchronisation   *)
(* and the settling of the rate.                                                *)
LEMMA PreloadHandlers ==
    /\ Safe(preload_next_track, 1) /\ Safe(resync_gapless_preload, 1)
    /\ Safe(spawn_cache_population, 1) /\ Safe(fetch_audio_properties, 1)
    /\ Safe(probe_audio_params, 1) /\ Safe(settle_rate_then_unpause, 1)
  <1>1. Safe(preload_next_track, 1)
    BY BriefGuards, CoreHandlers, Then, Perhaps DEF preload_next_track
  <1>2. Safe(resync_gapless_preload, 1) /\ Safe(spawn_cache_population, 1)
    BY <1>1, BriefGuards, Then, Perhaps DEF resync_gapless_preload, spawn_cache_population
  <1>3. Safe(fetch_audio_properties, 1) /\ Safe(probe_audio_params, 1)
    BY BriefGuards, CoreHandlers, Then, Perhaps DEF fetch_audio_properties, probe_audio_params
  <1>4. Safe(settle_rate_then_unpause, 1)
    BY <1>3, BriefGuards, CoreHandlers, Then, Perhaps DEF settle_rate_then_unpause
  <1> QED BY <1>1, <1>2, <1>3, <1>4

(* What runs inside a guard of state or of mpv: the commit of the play state    *)
(* looks the cache up and stamps the load, a load stamps its own time.          *)
LEMMA NestedHandlers ==
    /\ Safe(stamp_loadfile, 5)
    /\ Safe(commit_play_state_in_lock, 2)
    /\ Safe(Write("state") \o commit_play_state_in_lock \o Drop("state"), 1)
    /\ Safe(fallback_direct_if_current, 1)
    /\ Safe(Write("mpv") \o Drop("mpv"), 1)
    /\ Safe(Write("mpv") \o stamp_loadfile \o Drop("mpv"), 1)
  <1>1. Safe(stamp_loadfile, 5) /\ Safe(stamp_loadfile, 2) /\ Safe(cached_track_path, 2)
    BY Guards, RankValues DEF stamp_loadfile, cached_track_path
  <1>2. Safe(commit_play_state_in_lock, 2)
    BY <1>1, Then, Perhaps DEF commit_play_state_in_lock
  <1>3. Opens(Write("state"), "state", 1) /\ Closes(Drop("state"), "state", 1)
    BY Open, Close, RankValues
  <1>4. Opens(Write("state") \o commit_play_state_in_lock, "state", 1)
    BY <1>2, <1>3, OpenThen, RankValues
  <1>5. Opens(Write("mpv"), "mpv", 1) /\ Closes(Drop("mpv"), "mpv", 1)
    BY Open, Close, RankValues
  <1>6. Opens(Write("mpv") \o stamp_loadfile, "mpv", 1)
        /\ Opens(Write("mpv") \o May(stamp_loadfile), "mpv", 1)
    BY <1>1, <1>5, OpenThen, Perhaps, RankValues
  <1> QED BY <1>1, <1>2, <1>3, <1>4, <1>5, <1>6, OpenClose DEF fallback_direct_if_current

(* The index of the track cache is written with the cache mutex held. *)
LEMMA IndexWrite ==
    Safe(Io \o Write("track_cache") \o Io \o Drop("track_cache"), 1)
  <1> DEFINE l == "track_cache"
  <1> SUFFICES ASSUME NEW H \in Below(1)
               PROVE  Runs(Io \o Write(l) \o Io \o Drop(l), H, H)
    BY DEF Safe
  <1>1. Runs(Io, H, H)
    BY IoIsSafe DEF Safe
  <1>2. Runs(Write(l), H, H \cup {l}) /\ Runs(Drop(l), H \cup {l}, H)
    BY Open, Close, RankValues DEF Opens, Closes
  <1>3. H \cup {l} \in SUBSET Locks /\ H \cup {l} \subseteq KeptAcrossIo
    BY RankValues DEF Below, KeptAcrossIo
  <1>4. Runs(Io, H \cup {l}, H \cup {l})
    BY <1>3, RunsIo
  <1> HIDE DEF l
  <1>5. Runs(Io \o Write(l), H, H \cup {l})
    BY <1>1, <1>2, RunsOn
  <1>6. Runs(Io \o Write(l) \o Io, H, H \cup {l})
    BY <1>4, <1>5, RunsOn
  <1> QED BY <1>2, <1>6, RunsOn

(* playback_ops.rs, core.rs: what runs inside a transition. *)
LEMMA PlayHandlers ==
    /\ Safe(populate_cache, 1) /\ Safe(prebuffer_task, 1) /\ Safe(prebuffer_and_load, 1)
    /\ Safe(dispatch_play, 1) /\ Safe(spawn_fast_probe, 1)
    /\ Safe(extend_with_random_and_play, 1) /\ Safe(play_queue_position_at_locked, 1)
    /\ Safe(finish_at_queue_end, 1) /\ Safe(play_next_or_end, 1)
  <1>1. Safe(populate_cache, 1)
    <2>0. Safe(Io \o Brief("track_cache"), 1)
      BY BriefGuards, IoIsSafe, Then
    <2>1. Safe(Either({Brief("track_cache"), Io \o Brief("track_cache"),
                       Io \o Write("track_cache") \o Io \o Drop("track_cache")}), 1)
      BY <2>0, BriefGuards, IndexWrite, Branches
    <2> QED BY <2>1, BriefGuards, IoIsSafe, Then, Perhaps DEF populate_cache
  <1>2. Safe(prebuffer_task, 1)
    <2>1. Safe(May(settle_rate_then_unpause \o preload_next_track), 1)
      BY PreloadHandlers, Then, Perhaps
    <2>3. Safe(Write("mpv") \o stamp_loadfile \o Drop("mpv")
                 \o May(settle_rate_then_unpause \o preload_next_track), 1)
      BY <2>1, NestedHandlers, Then
    <2>2. Safe(Either({<<>>, fallback_direct_if_current, Write("mpv") \o Drop("mpv"),
                       Write("mpv") \o stamp_loadfile \o Drop("mpv")
                         \o May(settle_rate_then_unpause \o preload_next_track)}), 1)
      BY <2>3, NestedHandlers, Idle, Branches
    <2> QED BY <2>2, BriefGuards, IoIsSafe, Then, Perhaps DEF prebuffer_task
  <1>3. Safe(prebuffer_and_load, 1)
    BY BriefGuards, NestedHandlers, Branches DEF prebuffer_and_load
  <1>4. Safe(dispatch_play, 1)
    <2> DEFINE ends == Either({Drop("mpv"),
                               stamp_loadfile \o Drop("mpv")
                                 \o preload_next_track \o spawn_cache_population})
               direct == cancel_prebuffer \o Write("mpv") \o ends
               buffered == Write("prebuffer_cancel") \o Write("prebuffer_loading")
                             \o Drop("prebuffer_loading") \o Drop("prebuffer_cancel")
                             \o Brief("mpv") \o prebuffer_and_load
    <2>1. Closes(Drop("mpv"), "mpv", 1) /\ Opens(Write("mpv"), "mpv", 1)
      BY Open, Close, RankValues
    <2>2. Closes(stamp_loadfile \o Drop("mpv"), "mpv", 1)
      BY <2>1, NestedHandlers, BeforeClose, RankValues
    <2>3. Closes(stamp_loadfile \o Drop("mpv")
                   \o preload_next_track \o spawn_cache_population, "mpv", 1)
      BY <2>2, PreloadHandlers, CloseThen
    <2>4. Closes(ends, "mpv", 1)
      <3>1. \A p \in {Drop("mpv"), stamp_loadfile \o Drop("mpv")
                                    \o preload_next_track \o spawn_cache_population} :
               Closes(p, "mpv", 1)
        BY <2>1, <2>3
      <3>2. \A S : (\A p \in S : Closes(p, "mpv", 1)) => Closes(Either(S), "mpv", 1)
        BY BranchesClose, RankValues
      <3> QED BY <3>1, <3>2, Zenon
    <2>5. Opens(cancel_prebuffer \o Write("mpv"), "mpv", 1)
      BY <2>1, CoreHandlers, ThenOpen
    <2>6. Safe(direct, 1)
      <3> HIDE DEF ends
      <3> QED BY <2>4, <2>5, OpenClose
    <2>7. Safe(Write("prebuffer_cancel") \o Write("prebuffer_loading")
                 \o Drop("prebuffer_loading") \o Drop("prebuffer_cancel"), 1)
      BY Nested, RankValues
    <2>8. Safe(buffered, 1)
      BY <1>3, <2>7, BriefGuards, Then
    <2> HIDE DEF direct, buffered
    <2>9. Safe(Either({direct, buffered}), 1)
      BY <2>6, <2>8, Branches
    <2> QED BY <2>9 DEF dispatch_play, direct, buffered
  <1>5. Safe(spawn_fast_probe, 1)
    BY BriefGuards, PreloadHandlers, Then, Perhaps DEF spawn_fast_probe
  <1>6. Safe(extend_with_random_and_play, 1)
    <2>1. Safe(May(preferred_start_mode \o dispatch_play \o emit_now_playing \o emit_queue), 1)
      BY <1>4, CoreHandlers, Then, Perhaps
    <2>2. Safe(May(Write("state") \o commit_play_state_in_lock \o Drop("state")
                   \o emit_queue
                   \o May(preferred_start_mode \o dispatch_play
                          \o emit_now_playing \o emit_queue)), 1)
      BY <2>1, CoreHandlers, NestedHandlers, Then, Perhaps
    <2> QED BY <2>2, BriefGuards, CoreHandlers, Then, Perhaps DEF extend_with_random_and_play
  <1>7. Safe(play_queue_position_at_locked, 1)
    <2>1. Safe(May(dispatch_play \o May(Brief("state")) \o emit_now_playing \o emit_queue), 1)
      BY <1>4, BriefGuards, CoreHandlers, Then, Perhaps
    <2> QED BY <2>1, BriefGuards, NestedHandlers, Then, Perhaps DEF play_queue_position_at_locked
  <1>8. Safe(finish_at_queue_end, 1)
    BY BriefGuards, CoreHandlers, Then DEF finish_at_queue_end
  <1>9. Safe(play_next_or_end, 1)
    <2>1. Safe(Either({play_queue_position_at_locked,
                       May(extend_with_random_and_play) \o May(finish_at_queue_end)}), 1)
      BY <1>6, <1>7, <1>8, Then, Perhaps, Branches
    <2> QED BY <2>1, BriefGuards, Then, Perhaps DEF play_next_or_end
  <1> QED BY <1>1, <1>2, <1>3, <1>4, <1>5, <1>6, <1>7, <1>8, <1>9

(* A prefix lock around a program that is safe inside it. *)
LEMMA TransitionGuard ==
    ASSUME NEW l \in {"playback_transitions", "config_transactions", "rating_updates"},
           NEW p, Safe(p, 1)
    PROVE  Safe(Write(l) \o p \o Drop(l), 0) /\ Opens(Write(l) \o p, l, 0)
           /\ Opens(Write(l), l, 0) /\ Closes(Drop(l), l, 0)
  <1>1. l \in Locks /\ Rank[l] = 0
    BY RankValues
  <1>2. Opens(Write(l), l, 0) /\ Closes(Drop(l), l, 0)
    BY <1>1, Open, Close
  <1>3. Opens(Write(l) \o p, l, 0)
    BY <1>1, <1>2, OpenThen
  <1> QED BY <1>2, <1>3, OpenClose

(* playback_ops.rs: the transport requests. *)
LEMMA TransportHandlers ==
    /\ Safe(play_queue_position_at, 0) /\ Safe(next_track, 0) /\ Safe(advance_auto, 0)
    /\ Safe(prev_track, 0) /\ Safe(pause_playback, 1) /\ Safe(resume_playback, 0)
    /\ Safe(toggle_pause, 0) /\ Safe(autoplay_restored_if_configured, 0)
    /\ Safe(stop_playback, 1) /\ Safe(stop_keep_queue, 1) /\ Safe(halt_keep_queue, 1)
    /\ Safe(seek, 1) /\ Safe(seek_relative, 1) /\ Safe(set_volume, 1)
  <1>1. Safe(play_queue_position_at, 0)
    BY PlayHandlers, TransitionGuard DEF play_queue_position_at
  <1>2. Safe(next_track, 0) /\ Safe(advance_auto, 0)
    BY PlayHandlers, Perhaps, TransitionGuard DEF next_track, advance_auto
  <1>3. Safe(prev_track, 0)
    <2> DEFINE moved == May(Either({play_queue_position_at_locked,
                                    Brief("mpv") \o May(Brief("state"))}))
    <2>1. Safe(Brief("mpv") \o May(Brief("state")), 1)
      BY BriefGuards, Then, Perhaps
    <2>2. Safe(moved, 1)
      BY <2>1, PlayHandlers, Branches, Perhaps
    <2> HIDE DEF moved
    <2>3. Opens(Write("playback_transitions") \o Peek("state"), "playback_transitions", 0)
          /\ Closes(Drop("playback_transitions"), "playback_transitions", 0)
      BY BriefGuards, TransitionGuard
    <2>4. Opens(Write("playback_transitions") \o Peek("state") \o moved,
                "playback_transitions", 0)
      BY <2>2, <2>3, OpenThen, RankValues
    <2>5. Safe(Write("playback_transitions") \o Peek("state") \o moved
                 \o Drop("playback_transitions"), 0)
      BY <2>3, <2>4, OpenClose
    <2> QED BY <2>5 DEF prev_track, moved
  <1>4. Safe(pause_playback, 1) /\ Safe(stop_playback, 1) /\ Safe(stop_keep_queue, 1)
        /\ Safe(halt_keep_queue, 1) /\ Safe(seek, 1) /\ Safe(seek_relative, 1)
        /\ Safe(set_volume, 1)
    BY BriefGuards, CoreHandlers, Then, Perhaps
       DEF pause_playback, stop_playback, stop_keep_queue, halt_keep_queue, seek,
           seek_relative, set_volume
  <1>5. Safe(resume_playback, 0)
    <2> DEFINE retuned == May(Brief("pipewire"))
    <2>1. Safe(Peek("state"), 0) /\ Safe(retuned, 0)
      BY BriefGuards, Perhaps, Weaken
    <2>2. Opens(Write("playback_transitions"), "playback_transitions", 0)
          /\ Closes(Drop("playback_transitions"), "playback_transitions", 0)
      BY PlayHandlers, TransitionGuard
    <2> HIDE DEF retuned
    <2>3. Opens(retuned \o Write("playback_transitions"), "playback_transitions", 0)
      BY <2>1, <2>2, ThenOpen
    <2>4. Opens(retuned \o Write("playback_transitions") \o play_queue_position_at_locked,
                "playback_transitions", 0)
      BY <2>3, PlayHandlers, OpenThen, RankValues
    <2>5. Safe(retuned \o Write("playback_transitions") \o play_queue_position_at_locked
                 \o Drop("playback_transitions"), 0)
      BY <2>2, <2>4, OpenClose
    <2> QED BY <2>1, <2>5, Then, Perhaps DEF resume_playback, retuned
  <1>6. Safe(toggle_pause, 0)
    <2>1. Safe(Peek("state"), 0) /\ Safe(pause_playback, 0)
      BY <1>4, BriefGuards, Weaken
    <2>2. Safe(Either({<<>>, pause_playback, resume_playback, play_queue_position_at}), 0)
      BY <1>1, <1>5, <2>1, Idle, Branches
    <2> QED BY <2>1, <2>2, Then DEF toggle_pause
  <1>7. Safe(autoplay_restored_if_configured, 0)
    <2>1. Safe(Peek("state"), 0)
      BY BriefGuards, Weaken
    <2> QED BY <1>5, <2>1, Then, Perhaps DEF autoplay_restored_if_configured
  <1> QED BY <1>1, <1>2, <1>3, <1>4, <1>5, <1>6, <1>7

(* queue_ops.rs: the requests that edit the queue. *)
LEMMA QueueHandlers ==
    /\ Safe(replace_queue_and_play, 0) /\ Safe(move_queue_item, 1)
    /\ Safe(clear_queue_history, 1) /\ Safe(shuffle_queue, 1) /\ Safe(shuffle_library, 0)
    /\ Safe(enqueue_songs, 0) /\ Safe(handle_remove_from_queue, 0)
  <1>0. Safe(Peek("subsonic"), 0) /\ Safe(Io, 0) /\ Safe(filter_for_playback, 0)
        /\ Safe(Brief("state"), 0) /\ Safe(clear_cover_cache, 0) /\ Safe(emit_queue, 0)
        /\ Safe(preferred_start_mode, 0) /\ Safe(Brief("mpv"), 0)
        /\ Safe(emit_now_playing, 0) /\ Safe(resync_gapless_preload, 0)
    BY BriefGuards, CoreHandlers, PreloadHandlers, IoIsSafe, Weaken
  <1>1. Safe(replace_queue_and_play, 0)
    <2> DEFINE l == "playback_transitions"
               dispatched == May(dispatch_play \o emit_now_playing \o emit_queue)
    <2>0. Safe(dispatched, 1) /\ Safe(Peek("subsonic"), 1) /\ Safe(clear_cover_cache, 1)
          /\ Safe(emit_queue, 1) /\ Safe(commit_play_state_in_lock, 2)
      BY BriefGuards, CoreHandlers, PlayHandlers, NestedHandlers, Then, Perhaps
    <2> HIDE DEF dispatched
    <2>1. l \in Locks /\ Rank[l] = 0 /\ "state" \in Locks /\ Rank["state"] = 1
      BY RankValues
    <2>2. ASSUME NEW H \in Below(0)
          PROVE  Runs(replace_queue_and_play, H, H)
      <3> DEFINE J == H \cup {l}
                 I == J \cup {"state"}
      <3>1. J \in Below(1)
        BY Levels
      <3>2. I \in Below(2)
        BY <3>1, Levels
      <3>3. Runs(Write(l), H, J) /\ Runs(Drop(l), J, H)
        BY Open, Close, RankValues DEF Opens, Closes
      <3>4. Runs(Write("state"), J, I) /\ Runs(Drop("state"), I, J)
        BY <3>1, Open, Close, RankValues DEF Opens, Closes
      <3>5. /\ Runs(dispatched, J, J) /\ Runs(Peek("subsonic"), J, J)
            /\ Runs(clear_cover_cache, J, J) /\ Runs(emit_queue, J, J)
            /\ Runs(commit_play_state_in_lock, I, I)
        BY <2>0, <3>1, <3>2 DEF Safe
      <3> HIDE DEF I, J
      <3>6. Runs(Write(l) \o Peek("subsonic") \o Write("state"), H, I)
        BY <3>3, <3>4, <3>5, RunsOn
      <3>7. Runs(Write(l) \o Peek("subsonic") \o Write("state")
                   \o commit_play_state_in_lock \o Drop("state"), H, J)
        BY <3>4, <3>5, <3>6, RunsOn
      <3>8. Runs(Write(l) \o Peek("subsonic") \o Write("state")
                   \o commit_play_state_in_lock \o Drop("state")
                   \o clear_cover_cache \o emit_queue, H, J)
        BY <3>5, <3>7, RunsOn
      <3>9. Runs(Write(l) \o Peek("subsonic") \o Write("state")
                   \o commit_play_state_in_lock \o Drop("state")
                   \o clear_cover_cache \o emit_queue \o dispatched \o Drop(l), H, H)
        BY <3>3, <3>5, <3>8, RunsOn
      <3> QED BY <3>9 DEF replace_queue_and_play, dispatched
    <2> QED BY <2>2 DEF Safe
  <1>2. Safe(move_queue_item, 1) /\ Safe(clear_queue_history, 1) /\ Safe(shuffle_queue, 1)
    BY BriefGuards, CoreHandlers, PreloadHandlers, Then, Perhaps
       DEF move_queue_item, clear_queue_history, shuffle_queue
  <1>3. Safe(shuffle_library, 0)
    <2>1. Safe(May(Brief("state") \o clear_cover_cache \o emit_queue
                   \o preferred_start_mode \o play_queue_position_at), 0)
      BY <1>0, TransportHandlers, Then, Perhaps
    <2> QED BY <1>0, <2>1, Then, Perhaps DEF shuffle_library
  <1>4. Safe(enqueue_songs, 0)
    <2>1. Safe(preferred_start_mode \o replace_queue_and_play, 0)
          /\ Safe(Brief("state") \o emit_queue \o May(resync_gapless_preload), 0)
      BY <1>0, <1>1, Then, Perhaps
    <2>2. Safe(Either({<<>>, preferred_start_mode \o replace_queue_and_play,
                       Brief("state") \o emit_queue \o May(resync_gapless_preload)}), 0)
      BY <2>1, Idle, Branches
    <2> QED BY <1>0, <2>2, Then DEF enqueue_songs
  <1>5. Safe(handle_remove_from_queue, 0)
    <2>1. Safe(Brief("mpv") \o emit_now_playing \o emit_queue, 0)
          /\ Safe(emit_queue \o May(resync_gapless_preload), 0)
      BY <1>0, Then, Perhaps
    <2>2. Safe(Either({<<>>, play_queue_position_at,
                       Brief("mpv") \o emit_now_playing \o emit_queue,
                       emit_queue \o May(resync_gapless_preload)}), 0)
      BY <2>1, TransportHandlers, Idle, Branches
    <2> QED BY <1>0, <2>2, Then DEF handle_remove_from_queue
  <1> QED BY <1>1, <1>2, <1>3, <1>4, <1>5

(* library_ops.rs, loaders.rs: the refreshes, the loaders and the reports to    *)
(* the server.                                                                  *)
LEMMA LibraryHandlers ==
    /\ Safe(refresh_starred, 1) /\ Safe(refresh_random, 1) /\ Safe(refresh_playlists, 1)
    /\ Safe(refresh_artists, 1) /\ Safe(refresh_random_album, 1)
    /\ Safe(refresh_quick_play_album, 1) /\ Safe(create_playlist, 1)
    /\ Safe(load_playlist_songs, 1) /\ Safe(playlist_edit, 1) /\ Safe(fetch_lyrics, 1)
    /\ Safe(fetch_info, 1) /\ Safe(toggle_star_song, 1) /\ Safe(handle_load_artist, 1)
    /\ Safe(load_all_albums, 1) /\ Safe(load_album_songs, 1) /\ Safe(search, 1)
    /\ Safe(get_cover_art, 1) /\ Safe(refresh_scrobble_capability, 1)
    /\ Safe(scrobble_report, 1)
  <1>1. Safe(refresh_starred, 1) /\ Safe(refresh_random, 1) /\ Safe(refresh_playlists, 1)
        /\ Safe(refresh_artists, 1) /\ Safe(load_playlist_songs, 1)
        /\ Safe(load_artist, 1) /\ Safe(load_all_albums, 1) /\ Safe(load_album_songs, 1)
    BY BriefGuards, CoreHandlers, IoIsSafe, Then, Perhaps
       DEF refresh_starred, refresh_random, refresh_playlists, refresh_artists,
           load_playlist_songs, load_artist, load_all_albums, load_album_songs
  <1>2. Safe(refresh_random_album, 1) /\ Safe(refresh_quick_play_album, 1)
    <2>1. Safe(Io \o May(Brief("state")), 1)
      BY BriefGuards, IoIsSafe, Then, Perhaps
    <2>2. Safe(Either({<<>>, Brief("state"), Io \o May(Brief("state"))}), 1)
      BY <2>1, BriefGuards, Idle, Branches
    <2> QED BY <2>2, BriefGuards, IoIsSafe, Then, Perhaps
            DEF refresh_random_album, refresh_quick_play_album
  <1>3. Safe(create_playlist, 1) /\ Safe(playlist_edit, 1)
    BY <1>1, BriefGuards, IoIsSafe, Then, Perhaps DEF create_playlist, playlist_edit
  <1>4. Safe(fetch_lyrics, 1) /\ Safe(fetch_info, 1) /\ Safe(toggle_star_song, 1)
        /\ Safe(search, 1) /\ Safe(refresh_scrobble_capability, 1)
        /\ Safe(scrobble_report, 1) /\ Safe(get_cover_art, 1)
    BY BriefGuards, IoIsSafe, Then, Perhaps
       DEF fetch_lyrics, fetch_info, toggle_star_song, search, refresh_scrobble_capability,
           scrobble_report, get_cover_art
  <1>5. Safe(handle_load_artist, 1)
    BY <1>1, BriefGuards, Then DEF handle_load_artist
  <1> QED BY <1>1, <1>2, <1>3, <1>4, <1>5

(* set_song_rating reads the client inside state, before the call and after     *)
(* it.                                                                          *)
LEMMA RatingHandler == Safe(set_song_rating, 0)
  <1> DEFINE l == "rating_updates"
             answered == Io \o Write("state") \o Read("subsonic")
                            \o Drop("subsonic") \o Drop("state")
  <1>1. ASSUME NEW H \in Below(0) PROVE Runs(set_song_rating, H, H)
    <2> DEFINE R == H \cup {l}
               S == R \cup {"state"}
               C == S \cup {"subsonic"}
    <2>1. /\ l \in Locks /\ Rank[l] = 0
          /\ "state" \in Locks /\ Rank["state"] = 1
          /\ "subsonic" \in Locks /\ Rank["subsonic"] = 3
      BY RankValues
    <2>2. R \in Below(1)
      BY Levels
    <2>3. S \in Below(2)
      BY <2>2, Levels
    <2>4. Runs(Write(l), H, R) /\ Runs(Drop(l), R, H)
      BY <2>1, Open, Close DEF Opens, Closes
    <2>5. Runs(Write("state"), R, S) /\ Runs(Drop("state"), S, R)
      BY <2>1, <2>2, Open, Close DEF Opens, Closes
    <2>6. Runs(Read("subsonic"), S, C) /\ Runs(Drop("subsonic"), C, S)
      BY <2>1, <2>3, Open, Close DEF Opens, Closes
    <2>7. Runs(Io, R, R) /\ Runs(<<>>, R, R)
      BY <2>2, IoIsSafe, Idle DEF Safe
    <2>8. R \in SUBSET Locks
      BY <2>2 DEF Below
    <2> HIDE DEF R, S, C
    <2>9. Runs(answered, R, R)
      <3>1. Runs(Io \o Write("state") \o Read("subsonic"), R, C)
        BY <2>5, <2>6, <2>7, RunsOn
      <3> QED BY <2>5, <2>6, <3>1, RunsOn
    <2> HIDE DEF answered
    <2>10. Runs(May(answered), R, R)
      BY <2>7, <2>8, <2>9, RunsEither DEF May
    <2>11. Runs(Write(l) \o Write("state") \o Read("subsonic"), H, C)
      BY <2>4, <2>5, <2>6, RunsOn
    <2>12. Runs(Write(l) \o Write("state") \o Read("subsonic")
                  \o Drop("subsonic") \o Drop("state"), H, R)
      BY <2>5, <2>6, <2>11, RunsOn
    <2>13. Runs(Write(l) \o Write("state") \o Read("subsonic")
                  \o Drop("subsonic") \o Drop("state") \o May(answered) \o Drop(l), H, H)
      BY <2>4, <2>10, <2>12, RunsOn
    <2> QED BY <2>13 DEF set_song_rating, answered
  <1> QED BY <1>1 DEF Safe

(* settings_ops.rs: the configuration transactions. *)
LEMMA SettingsHandlers ==
    /\ Safe(apply_music_folder, 0) /\ Safe(refresh_music_folders, 0)
    /\ Safe(set_setting, 0) /\ Safe(set_repeat_mode, 0) /\ Safe(set_replay_gain, 0)
    /\ Safe(update_server_config, 0)
  <1> DEFINE l == "config_transactions"
  <1>0. /\ Safe(Io, 0) /\ Safe(Peek("state"), 0) /\ Safe(Peek("subsonic"), 0)
        /\ Safe(Brief("state"), 0) /\ Safe(Brief("mpv"), 0)
        /\ Safe(emit_config_changed, 0) /\ Safe(preload_next_track, 0)
        /\ Safe(refresh_artists, 0) /\ Safe(refresh_random, 0)
        /\ Safe(refresh_starred, 0) /\ Safe(refresh_playlists, 0)
    BY BriefGuards, CoreHandlers, PreloadHandlers, LibraryHandlers, IoIsSafe, Weaken
  <1>1. Safe(persist_config_locked, 1)
    BY BriefGuards, IoIsSafe, Then, Perhaps DEF persist_config_locked
  <1>2. Safe(persist_config, 0)
    BY <1>1, TransitionGuard DEF persist_config
  <1>3. /\ l \in Locks /\ 0 \in Nat /\ 0 <= Rank[l] /\ Rank[l] + 1 = 1
        /\ Closes(Drop(l), l, 0) /\ Opens(Write(l), l, 0)
    BY <1>1, TransitionGuard, RankValues
  <1>4. \A p, q : Safe(p, 1) /\ Closes(q, l, 0) => Closes(p \o q, l, 0)
    BY <1>3, BeforeClose
  <1>5. \A S : (\A p \in S : Closes(p, l, 0)) => Closes(Either(S), l, 0)
    BY <1>3, BranchesClose
  <1>6. Safe(apply_music_folder, 0)
    <2> DEFINE committed == Brief("state") \o Brief("subsonic") \o Drop(l)
                              \o emit_config_changed \o refresh_artists \o refresh_random
    <2>1. Safe(Brief("state") \o Brief("subsonic"), 1)
      BY BriefGuards, Then
    <2>2. Closes(Brief("state") \o Brief("subsonic") \o Drop(l), l, 0)
      BY <1>3, <1>4, <2>1
    <2>3. Closes(committed, l, 0)
      BY <1>0, <2>2, CloseThen
    <2> HIDE DEF committed, l
    <2>4. \A p \in {Drop(l), committed} : Closes(p, l, 0)
      BY <1>3, <2>3
    <2>5. Closes(Either({Drop(l), committed}), l, 0)
      BY <1>5, <2>4, Zenon
    <2>6. Opens(Write(l) \o persist_config_locked, l, 0)
      BY <1>1, TransitionGuard DEF l
    <2>7. Safe(Write(l) \o persist_config_locked \o Either({Drop(l), committed}), 0)
      BY <2>5, <2>6, OpenClose
    <2> QED BY <2>7 DEF apply_music_folder, committed, l
  <1>7. Safe(refresh_music_folders, 0)
    BY <1>0, <1>6, Then, Perhaps DEF refresh_music_folders
  <1>8. Safe(set_setting, 0) /\ Safe(set_repeat_mode, 0) /\ Safe(set_replay_gain, 0)
    BY <1>0, <1>2, Then, Perhaps DEF set_setting, set_repeat_mode, set_replay_gain
  <1>9. Safe(update_server_config, 0)
    <2> DEFINE refused == Io \o Drop(l)
               failed == Io \o Io \o May(Io) \o Drop(l)
               committed == Io \o Io \o Brief("state") \o May(Io) \o Brief("subsonic")
                              \o Drop(l)
                              \o refresh_starred \o refresh_artists \o refresh_playlists
                              \o refresh_music_folders \o emit_config_changed
    <2>1. Safe(Io \o Io \o May(Io), 1)
          /\ Safe(Io \o Io \o Brief("state") \o May(Io) \o Brief("subsonic"), 1)
      BY BriefGuards, IoIsSafe, Then, Perhaps
    <2>2. Closes(refused, l, 0) /\ Closes(failed, l, 0)
      BY <1>3, <1>4, <2>1, IoIsSafe
    <2>3. Closes(Io \o Io \o Brief("state") \o May(Io) \o Brief("subsonic") \o Drop(l), l, 0)
      BY <1>3, <1>4, <2>1
    <2>4. Closes(committed, l, 0)
      BY <1>0, <1>7, <2>3, CloseThen
    <2> HIDE DEF refused, failed, committed, l
    <2>5. \A p \in {Drop(l), refused, failed, committed} : Closes(p, l, 0)
      BY <1>3, <2>2, <2>4
    <2>6. Closes(Either({Drop(l), refused, failed, committed}), l, 0)
      BY <1>5, <2>5, Zenon
    <2>7. Opens(Write(l) \o Peek("state"), l, 0)
      BY BriefGuards, TransitionGuard DEF l
    <2>8. Safe(Write(l) \o Peek("state") \o Either({Drop(l), refused, failed, committed}), 0)
      BY <2>6, <2>7, OpenClose
    <2> QED BY <2>8 DEF update_server_config, refused, failed, committed, l
  <1> QED BY <1>6, <1>7, <1>8, <1>9

(* playback_tick.rs, polling.rs, run.rs: the tick, the watchdog, the queue      *)
(* saver, the event of mpv and the shutdown.                                    *)
LEMMA TickHandlers ==
    /\ Safe(update_playback_info, 0) /\ Safe(mpv_watchdog, 1) /\ Safe(save_queue, 1)
    /\ Safe(mpv_event, 0) /\ Safe(shutdown, 1)
  <1>1. Safe(gather_playback_tick_inputs, 1) /\ Safe(try_gapless_advance, 1)
        /\ Safe(tick_emit_position, 1) /\ Safe(tick_backfill_duration, 1)
        /\ Safe(tick_desktop_notification, 1) /\ Safe(scrobble_tick, 1)
        /\ Safe(tick_fetch_audio_properties_if_needed, 1)
        /\ Safe(Brief("last_preload_attempt") \o May(preload_next_track), 1)
    BY BriefGuards, CoreHandlers, PreloadHandlers, Then, Perhaps
       DEF gather_playback_tick_inputs, try_gapless_advance, tick_emit_position,
           tick_backfill_duration, tick_desktop_notification, scrobble_tick,
           tick_fetch_audio_properties_if_needed
  <1>2. Safe(apply_playback_tick_action, 0)
    <2>1. Safe(try_gapless_advance, 0)
          /\ Safe(Brief("last_preload_attempt") \o May(preload_next_track), 0)
      BY <1>1, Weaken
    <2> QED BY <2>1, TransportHandlers, Idle, Branches DEF apply_playback_tick_action
  <1>3. Safe(update_playback_info, 0)
    <2>1. Safe(May(tick_emit_position \o tick_backfill_duration
                   \o tick_fetch_audio_properties_if_needed), 1)
      BY <1>1, Then, Perhaps
    <2>2. Safe(May(tick_emit_position \o tick_backfill_duration
                   \o tick_fetch_audio_properties_if_needed), 0)
          /\ Safe(gather_playback_tick_inputs, 0) /\ Safe(scrobble_tick, 0)
          /\ Safe(tick_desktop_notification, 0)
      BY <1>1, <2>1, Weaken
    <2> QED BY <1>2, <2>2, Then DEF update_playback_info
  <1>4. Safe(mpv_watchdog, 1) /\ Safe(save_queue, 1)
    BY BriefGuards, CoreHandlers, IoIsSafe, Then, Perhaps DEF mpv_watchdog, save_queue
  <1>5. Safe(mpv_event, 0)
    <2>1. Safe(Brief("mpv"), 0)
      BY BriefGuards, Weaken
    <2> QED BY <2>1, TransportHandlers, Then, Perhaps DEF mpv_event
  <1>6. Safe(shutdown, 1)
    <2>1. Safe(Either({save_queue, Io}), 1)
      BY <1>4, IoIsSafe, Branches
    <2> QED BY <2>1, BriefGuards, CoreHandlers, IoIsSafe, Then DEF shutdown
  <1> QED BY <1>3, <1>4, <1>5, <1>6

(* Every handler of DaemonHandlers, started with no lock held, takes its locks  *)
(* in the declared order, keeps none that playback needs while it waits for     *)
(* the world, and ends with none.                                               *)
LEMMA EveryHandlerIsSafe ==
    ASSUME NEW h \in request_handlers \cup daemon_tasks
    PROVE  Safe(h, 0)
  <1>1. /\ Safe(pause_playback, 0) /\ Safe(stop_playback, 0) /\ Safe(stop_keep_queue, 0)
        /\ Safe(halt_keep_queue, 0) /\ Safe(seek, 0) /\ Safe(seek_relative, 0)
        /\ Safe(set_volume, 0) /\ Safe(snapshot, 0) /\ Safe(quit_mpv, 0)
        /\ Safe(is_idle_for_exit, 0) /\ Safe(settle_rate_then_unpause, 0)
        /\ Safe(prebuffer_task, 0) /\ Safe(populate_cache, 0) /\ Safe(spawn_fast_probe, 0)
        /\ Safe(mpv_watchdog, 0) /\ Safe(save_queue, 0) /\ Safe(shutdown, 0)
        /\ Safe(move_queue_item, 0) /\ Safe(clear_queue_history, 0)
        /\ Safe(shuffle_queue, 0)
    BY CoreHandlers, PreloadHandlers, PlayHandlers, TransportHandlers, QueueHandlers,
       TickHandlers, Weaken
  <1>2. /\ Safe(refresh_starred, 0) /\ Safe(refresh_random, 0) /\ Safe(refresh_playlists, 0)
        /\ Safe(refresh_artists, 0) /\ Safe(refresh_random_album, 0)
        /\ Safe(refresh_quick_play_album, 0) /\ Safe(create_playlist, 0)
        /\ Safe(load_playlist_songs, 0) /\ Safe(playlist_edit, 0) /\ Safe(fetch_lyrics, 0)
        /\ Safe(fetch_info, 0) /\ Safe(toggle_star_song, 0) /\ Safe(handle_load_artist, 0)
        /\ Safe(load_all_albums, 0) /\ Safe(load_album_songs, 0) /\ Safe(search, 0)
        /\ Safe(get_cover_art, 0) /\ Safe(refresh_scrobble_capability, 0)
        /\ Safe(scrobble_report, 0)
    BY LibraryHandlers, Weaken
  <1>3. /\ Safe(refresh_artists \o refresh_music_folders, 0)
        /\ Safe(refresh_starred \o refresh_artists \o refresh_playlists
                  \o refresh_music_folders, 0)
    BY <1>2, SettingsHandlers, Then
  <1>4. CASE h \in request_handlers
    BY <1>1, <1>2, <1>3, <1>4, TransportHandlers, QueueHandlers, SettingsHandlers,
       RatingHandler DEF request_handlers
  <1>5. CASE h \in daemon_tasks
    BY <1>1, <1>2, <1>3, <1>5, TransportHandlers, TickHandlers DEF daemon_tasks
  <1> QED BY <1>4, <1>5

-----------------------------------------------------------------------------------
(* The inductive invariant: what each task has still to do keeps the order from  *)
(* the locks it holds now, and ends with none.                                   *)
OnCourse == \A t \in Tasks : Runs(todo[t], Held(t), {})

(* No task runs a handler and none holds a lock. *)
LEMMA OnCourseInit == Init => OnCourse
  <1>1. Init => \A t \in Tasks : todo[t] = <<>> /\ Held(t) = {}
    BY DEF Init, Held, Holders
  <1> QED BY <1>1, RunsNothing DEF OnCourse

(* The guard a task is given is the one its program takes next. *)
LEMMA OnCourseGiven ==
    ASSUME NEW t \in Tasks, TypeOK, OnCourse, Acquires(t), GiveTo(t)
    PROVE  OnCourse'
  <1> DEFINE l == Wanted(t)
  <1>1. Runs(todo[t], Held(t), {}) /\ todo[t] # <<>> /\ Head(todo[t]).do \in Acquisitions
    BY DEF OnCourse, Acquires
  <1>2. l \in Locks /\ Runs(Tail(todo[t]), Held(t) \cup {l}, {})
    BY <1>1, RunsNext DEF Wanted
  <1>3. Held(t)' = Held(t) \cup {l}
    <2>1. About(t, "read") \/ About(t, "write")
      BY <1>1 DEF About, Acquisitions
    <2> HIDE DEF l
    <2> QED BY <1>2, <2>1 DEF GiveTo, Held, Holders, TypeOK, l
  <1>4. todo'[t] = Tail(todo[t])
    BY DEF GiveTo, TypeOK
  <1>5. ASSUME NEW u \in Tasks, u # t PROVE todo'[u] = todo[u] /\ Held(u)' = Held(u)
    BY <1>5 DEF GiveTo, Held, Holders, TypeOK
  <1>6. ASSUME NEW u \in Tasks PROVE Runs(todo'[u], Held(u)', {})
    <2>1. CASE u = t
      BY <1>2, <1>3, <1>4, <2>1
    <2>2. CASE u # t
      BY <1>5, <2>2 DEF OnCourse
    <2> QED BY <2>1, <2>2
  <1> QED BY <1>6 DEF OnCourse

(* Every step of a task is the next step of its program. *)
LEMMA OnCourseStep ==
    ASSUME Handlers \subseteq request_handlers \cup daemon_tasks,
           TypeOK, OnCourse, [Next]_vars
    PROVE  OnCourse'
  <1>1. CASE UNCHANGED vars
    BY <1>1 DEF vars, OnCourse, Held, Holders
  <1>2. ASSUME NEW t \in Tasks, NEW p, NEW J, Runs(p, J, {}),
               todo' = [todo EXCEPT ![t] = p], Held(t)' = J,
               \A u \in Tasks : u # t => Held(u)' = Held(u)
        PROVE  OnCourse'
    <2>1. todo'[t] = p /\ \A u \in Tasks : u # t => todo'[u] = todo[u]
      BY <1>2 DEF TypeOK
    <2>2. ASSUME NEW u \in Tasks PROVE Runs(todo'[u], Held(u)', {})
      <3>1. CASE u = t
        BY <1>2, <2>1, <3>1
      <3>2. CASE u # t
        BY <1>2, <2>1, <3>2 DEF OnCourse
      <3> QED BY <3>1, <3>2
    <2> QED BY <2>2 DEF OnCourse
  <1>3. ASSUME NEW t \in Tasks, Start(t) PROVE OnCourse'
    <2>1. PICK h \in Handlers : todo' = [todo EXCEPT ![t] = h]
      BY <1>3 DEF Start
    <2>2. Held(t) = {}
      <3>1. todo[t] = <<>> /\ Runs(todo[t], Held(t), {})
        BY <1>3 DEF Start, OnCourse
      <3> QED BY <3>1, RunsNext, Zenon
    <2>3. Runs(h, {}, {})
      <3>1. Safe(h, 0)
        BY EveryHandlerIsSafe
      <3>2. {} \in Below(0)
        BY DEF Below
      <3> QED BY <3>1, <3>2 DEF Safe
    <2>4. \A u \in Tasks : Held(u)' = Held(u)
      BY <1>3 DEF Start, Held, Holders
    <2> QED BY <1>2, <2>1, <2>2, <2>3, <2>4
  <1>4. ASSUME NEW t \in Tasks, Acquire(t) \/ Grant(t) PROVE OnCourse'
    BY <1>4, OnCourseGiven DEF Acquire, Grant
  <1>5. ASSUME NEW t \in Tasks, Wait(t) PROVE OnCourse'
    BY <1>5 DEF Wait, OnCourse, Held, Holders
  <1>6. ASSUME NEW t \in Tasks, Release(t) PROVE OnCourse'
    <2> DEFINE l == Head(todo[t]).lock
    <2>1. Runs(todo[t], Held(t), {}) /\ todo[t] # <<>> /\ Head(todo[t]).do = "drop"
      BY <1>6 DEF OnCourse, Release, About
    <2>2. Runs(Tail(todo[t]), Held(t) \ {l}, {})
      BY <2>1, RunsNext
    <2>3. /\ readers' = [readers EXCEPT ![l] = @ \ {t}]
          /\ writers' = [writers EXCEPT ![l] = @ \ {t}]
          /\ todo' = [todo EXCEPT ![t] = Tail(todo[t])]
      BY <1>6 DEF Release
    <2> HIDE DEF l
    <2>4. Held(t)' = Held(t) \ {l}
      BY <2>3 DEF Held, Holders, TypeOK
    <2>5. \A u \in Tasks : u # t => Held(u)' = Held(u)
      BY <2>3 DEF Held, Holders, TypeOK
    <2> QED BY <1>2, <2>2, <2>3, <2>4, <2>5
  <1>7. ASSUME NEW t \in Tasks, IoReturns(t) PROVE OnCourse'
    <2>1. Runs(todo[t], Held(t), {}) /\ todo[t] # <<>> /\ Head(todo[t]).do = "io"
      BY <1>7 DEF OnCourse, IoReturns, About
    <2>2. Runs(Tail(todo[t]), Held(t), {})
      BY <2>1, RunsNext
    <2>3. todo' = [todo EXCEPT ![t] = Tail(todo[t])]
          /\ \A u \in Tasks : Held(u)' = Held(u)
      BY <1>7 DEF IoReturns, Held, Holders
    <2> QED BY <1>2, <2>2, <2>3
  <1>8. ASSUME NEW t \in Tasks, Branch(t) PROVE OnCourse'
    <2>1. Runs(todo[t], Held(t), {}) /\ todo[t] # <<>> /\ Head(todo[t]).do = "either"
      BY <1>8 DEF OnCourse, Branch, About
    <2>2. PICK b \in Head(todo[t]).branches : todo' = [todo EXCEPT ![t] = b \o Tail(todo[t])]
      BY <1>8 DEF Branch
    <2>3. Runs(b \o Tail(todo[t]), Held(t), {})
      BY <2>1, RunsNext
    <2>4. \A u \in Tasks : Held(u)' = Held(u)
      BY <1>8 DEF Branch, Held, Holders
    <2> QED BY <1>2, <2>2, <2>3, <2>4
  <1> QED BY <1>1, <1>3, <1>4, <1>5, <1>6, <1>7, <1>8 DEF Next, Step

(* A task whose next step takes a lock holds earlier ones only, and one that    *)
(* waits for the world holds none that playback needs.                          *)
LEMMA OnCourseOrders == OnCourse => OrderRespected /\ IoUnlocked
  <1> SUFFICES ASSUME OnCourse PROVE OrderRespected /\ IoUnlocked
    OBVIOUS
  <1>1. ASSUME NEW t \in Tasks, Acquires(t)
        PROVE  \A l \in Held(t) : Rank[l] < Rank[Wanted(t)]
    <2>1. Runs(todo[t], Held(t), {})
      BY DEF OnCourse
    <2>2. InOrder(Held(t), Wanted(t))
      BY <1>1, <2>1, RunsNext DEF Acquires, Wanted
    <2> QED BY <2>2 DEF InOrder
  <1>2. ASSUME NEW t \in Tasks, About(t, "io")
        PROVE  Held(t) \subseteq KeptAcrossIo
    <2>1. Runs(todo[t], Held(t), {})
      BY DEF OnCourse
    <2> QED BY <1>2, <2>1, RunsNext DEF About
  <1> QED BY <1>1, <1>2 DEF OrderRespected, IoUnlocked

LEMMA OnCourseInvariance ==
    ASSUME Handlers \subseteq request_handlers \cup daemon_tasks
    PROVE  Spec => [](OrderRespected /\ IoUnlocked)
  <1>1. Init => TypeOK /\ OnCourse
    BY TypeInit, OnCourseInit
  <1>2. TypeOK /\ OnCourse /\ [Next]_vars => TypeOK' /\ OnCourse'
    BY TypeStep, OnCourseStep
  <1>3. OnCourse => OrderRespected /\ IoUnlocked
    BY OnCourseOrders
  <1> QED BY <1>1, <1>2, <1>3, PTL DEF Spec

(* The order docs/LOCK-ORDER.md declares is kept, whatever number of tasks runs *)
(* whichever of the handlers of the daemon, interleaved in any way.             *)
THEOREM HandlersKeepTheOrder ==
    ASSUME Handlers \subseteq request_handlers \cup daemon_tasks
    PROVE  Spec => []OrderRespected
  <1>1. Spec => [](OrderRespected /\ IoUnlocked)
    BY OnCourseInvariance
  <1> QED BY <1>1, PTL

(* No lock that playback needs is held while a file, the keychain or the server *)
(* answers.                                                                     *)
THEOREM WorldWaitsAreUnlocked ==
    ASSUME Handlers \subseteq request_handlers \cup daemon_tasks
    PROVE  Spec => []IoUnlocked
  <1>1. Spec => [](OrderRespected /\ IoUnlocked)
    BY OnCourseInvariance
  <1> QED BY <1>1, PTL

(* The daemon as it is cannot deadlock on its locks, with any number of tasks:  *)
(* the handlers of DaemonHandlers keep the order, so no set of tasks waits      *)
(* only for itself.                                                             *)
THEOREM DaemonNeverDeadlocks ==
    ASSUME Handlers \subseteq request_handlers \cup daemon_tasks
    PROVE  Spec => []NoCircularWait
  <1>1. Spec => []OrderRespected
    BY HandlersKeepTheOrder
  <1>2. Spec => []TypeOK
    BY TypeCorrect
  <1>3. TypeOK /\ OrderRespected => NoCircularWait
    BY OrderedWaitsEnd
  <1> QED BY <1>1, <1>2, <1>3, PTL
===================================================================================
