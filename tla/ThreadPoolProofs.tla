-------------------------- MODULE ThreadPoolProofs --------------------------
(***************************************************************************)
(* The thread pool for any set of tasks, any max_cached_threads_ and any   *)
(* number of threads that cannot be created.  The counts have to be right  *)
(* for the decision in run() to be right, and no task is without a thread  *)
(* only because the decision is; so the invariant that is inductive joins  *)
(* the four.                                                               *)
(***************************************************************************)
EXTENDS ThreadPool, TLAPS

\* In what holds after a step, the number of threads at a place with a flag is
\* all that matters: how Goes changes it.
LEMMA GoesCounts ==
  ASSUME threads \in [Place -> [Cache -> Nat]],
         NEW c \in Cache, NEW p \in Place, NEW q \in Place, p # q, Goes(c, p, q)
  PROVE  /\ threads' \in [Place -> [Cache -> Nat]]
         /\ threads[p][c] > 0
         /\ \A r \in Place, d \in Cache :
              threads'[r][d] = IF r = p /\ d = c THEN threads[r][d] - 1
                               ELSE IF r = q /\ d = c THEN threads[r][d] + 1
                               ELSE threads[r][d]
<1> DEFINE one == [threads EXCEPT ![p][c] = @ - 1]
<1>1. threads[p][c] \in Nat /\ threads[p][c] > 0
  BY DEF Goes
<1>2. /\ one \in [Place -> [Cache -> Nat]]
      /\ \A r \in Place, d \in Cache :
           one[r][d] = IF r = p /\ d = c THEN threads[r][d] - 1 ELSE threads[r][d]
  BY <1>1
<1>3. threads' = [one EXCEPT ![q][c] = @ + 1]
  BY DEF Goes
<1> HIDE DEF one
<1>4. /\ threads' \in [Place -> [Cache -> Nat]]
      /\ \A r \in Place, d \in Cache :
           threads'[r][d] = IF r = q /\ d = c THEN one[r][d] + 1 ELSE one[r][d]
  BY <1>2, <1>3
<1> QED
  BY <1>1, <1>2, <1>4

\* The sums over places and flags: a thread that goes from p to q leaves the
\* number of cached threads as it is.
LEMMA GoesSums ==
  ASSUME threads \in [Place -> [Cache -> Nat]],
         NEW c \in Cache, NEW p \in Place, NEW q \in Place, p # q, Goes(c, p, q)
  PROVE  /\ threads' \in [Place -> [Cache -> Nat]]
         /\ Count(threads, p) > 0
         /\ \A r \in Place : Count(threads', r) = IF r = p THEN Count(threads, r) - 1
                                                 ELSE IF r = q THEN Count(threads, r) + 1
                                                 ELSE Count(threads, r)
         /\ Cached(threads') = Cached(threads)
         /\ (c = "once" \/ q # "leave") /\ threads["leave"]["stay"] = 0
              => threads'["leave"]["stay"] = 0
<1>1. /\ threads' \in [Place -> [Cache -> Nat]]
      /\ threads[p][c] > 0
      /\ \A r \in Place, d \in Cache :
           threads'[r][d] = IF r = p /\ d = c THEN threads[r][d] - 1
                            ELSE IF r = q /\ d = c THEN threads[r][d] + 1
                            ELSE threads[r][d]
  BY GoesCounts
<1>2. \A r \in Place, d \in Cache : threads[r][d] \in Nat
  OBVIOUS
<1>3. Count(threads, p) > 0
  BY <1>1, <1>2 DEF Count, Cache
<1>4. \A r \in Place : Count(threads', r) = IF r = p THEN Count(threads, r) - 1
                                           ELSE IF r = q THEN Count(threads, r) + 1
                                           ELSE Count(threads, r)
  <2>1. CASE c = "stay"
    BY <1>1, <1>2, <2>1 DEF Count, Cache
  <2>2. CASE c = "once"
    BY <1>1, <1>2, <2>2 DEF Count, Cache
  <2> QED
    BY <2>1, <2>2 DEF Cache
<1>5. Cached(threads') = Cached(threads)
  <2>1. CASE c = "once"
    BY <1>1, <1>2, <2>1 DEF Cached, Place, Cache
  <2>2. CASE c = "stay"
    BY <1>1, <1>2, <2>2 DEF Cached, Place, Cache
  <2> QED
    BY <2>1, <2>2 DEF Cache
<1>6. (c = "once" \/ q # "leave") /\ threads["leave"]["stay"] = 0
        => threads'["leave"]["stay"] = 0
  BY <1>1, <1>2 DEF Place, Cache
<1> QED
  BY <1>1, <1>3, <1>4, <1>5, <1>6

\* The sums are natural numbers and there are no more cached threads than threads.
LEMMA CountNat ==
  ASSUME threads \in [Place -> [Cache -> Nat]]
  PROVE  /\ Count(threads, "begin") \in Nat /\ Count(threads, "wait") \in Nat
         /\ Count(threads, "woken") \in Nat /\ Count(threads, "run") \in Nat
         /\ Count(threads, "leave") \in Nat /\ Cached(threads) \in Nat
         /\ Cached(threads) <= Count(threads, "begin") + Count(threads, "wait")
              + Count(threads, "woken") + Count(threads, "run") + Count(threads, "leave")
<1>1. \A r \in Place, d \in Cache : threads[r][d] \in Nat
  OBVIOUS
<1> QED
  BY <1>1 DEF Count, Cached, Place, Cache

\* The inductive invariant.
IInv == TypeOK /\ CountsRight /\ EveryTaskHasThread /\ CachedBounded

USE MaxCachedAssumption, MaxFailuresAssumption

LEMMA PlaceMembers ==
  "begin" \in Place /\ "wait" \in Place /\ "woken" \in Place /\ "run" \in Place
    /\ "leave" \in Place
BY DEF Place

\* The invariant as arithmetic: n threads counted, f of them free, o notifications
\* owed, x threads missing, and b, w, k, r, l threads at the five places.
Sound(len, b, w, k, r, l, n, f, o, x) ==
  /\ f = w + k
  /\ n = b + w + k + r + l + x
  /\ len <= b + k + x + o
  /\ len <= b + k + x + w

\* What an action may assume of the numbers in the state before it.
LEMMA Before ==
  ASSUME IInv
  PROVE  /\ Len(runq) \in Nat /\ numThreads \in Nat /\ freeThreads \in Nat
         /\ owed \in Nat /\ failed \in Nat
         /\ Count(threads, "begin") \in Nat /\ Count(threads, "wait") \in Nat
         /\ Count(threads, "woken") \in Nat /\ Count(threads, "run") \in Nat
         /\ Count(threads, "leave") \in Nat /\ Cached(threads) \in Nat
         /\ Cached(threads) <= Count(threads, "begin") + Count(threads, "wait")
              + Count(threads, "woken") + Count(threads, "run") + Count(threads, "leave")
         /\ Sound(Len(runq), Count(threads, "begin"), Count(threads, "wait"),
                  Count(threads, "woken"), Count(threads, "run"), Count(threads, "leave"),
                  numThreads, freeThreads, owed, failed)
<1>1. threads \in [Place -> [Cache -> Nat]] /\ Len(runq) \in Nat
  BY DEF IInv, TypeOK
<1>2. numThreads \in Nat /\ freeThreads \in Nat /\ owed \in Nat /\ failed \in Nat
  BY DEF IInv, TypeOK
<1>3. Sound(Len(runq), Count(threads, "begin"), Count(threads, "wait"),
            Count(threads, "woken"), Count(threads, "run"), Count(threads, "leave"),
            numThreads, freeThreads, owed, failed)
  BY DEF IInv, CountsRight, EveryTaskHasThread, At, Sound
<1> QED
  BY <1>1, <1>2, <1>3, CountNat

\* What an action has to show of the numbers in the state after it.
LEMMA After ==
  ASSUME TypeOK',
         Sound(Len(runq'), Count(threads', "begin"), Count(threads', "wait"),
               Count(threads', "woken"), Count(threads', "run"), Count(threads', "leave"),
               numThreads', freeThreads', owed', failed'),
         Cached(threads') <= MaxCached, threads'["leave"]["stay"] = 0
  PROVE  IInv'
BY DEF IInv, CountsRight, EveryTaskHasThread, CachedBounded, At, Sound

\* One step of the pool keeps the invariant; a case for each action.
LEMMA Inductive == IInv /\ [Next]_vars => IInv'
<1> SUFFICES ASSUME IInv, [Next]_vars PROVE IInv'
  OBVIOUS
<1> DEFINE len == Len(runq)                 len1 == Len(runq')
           b == Count(threads, "begin")     b1 == Count(threads', "begin")
           w == Count(threads, "wait")      w1 == Count(threads', "wait")
           k == Count(threads, "woken")     k1 == Count(threads', "woken")
           r == Count(threads, "run")       r1 == Count(threads', "run")
           l == Count(threads, "leave")     l1 == Count(threads', "leave")
           s == Cached(threads)             s1 == Cached(threads')
           Goal == Sound(len1, b1, w1, k1, r1, l1, numThreads', freeThreads', owed', failed')
<1>1. /\ len \in Nat /\ b \in Nat /\ w \in Nat /\ k \in Nat /\ r \in Nat /\ l \in Nat
      /\ numThreads \in Nat /\ freeThreads \in Nat /\ owed \in Nat /\ failed \in Nat
      /\ Sound(len, b, w, k, r, l, numThreads, freeThreads, owed, failed)
  BY Before
<1>2. s \in Nat /\ s <= b + w + k + r + l
  BY Before
<1>3. TypeOK /\ s <= MaxCached /\ threads["leave"]["stay"] = 0
  BY DEF IInv, CachedBounded
<1>4. threads \in [Place -> [Cache -> Nat]] /\ runq \in Seq(Task)
  BY <1>3 DEF TypeOK
<1>5. ASSUME TypeOK', Goal, s1 <= MaxCached, threads'["leave"]["stay"] = 0
      PROVE  IInv'
  BY <1>5, After
<1> HIDE DEF len, len1, b, b1, w, w1, k, k1, r, r1, l, l1, s, s1
<1>6. ASSUME NEW t \in Task, run(t) PROVE IInv'
  <2>1. runq' \in Seq(Task) /\ len1 = len + 1 /\ freeThreads' = freeThreads
    BY <1>4, <1>6 DEF run, len, len1
  <2>2. CASE /\ Len(runq) + 1 > freeThreads
             /\ startThread /\ owed' = owed + 1 /\ failed' = failed
    <3> DEFINE c == CacheFlag(numThreads + 1)
    <3>1. c \in Cache
      BY DEF CacheFlag, Cache
    <3>2. /\ threads' = [threads EXCEPT !["begin"][c] = @ + 1]
          /\ numThreads' = numThreads + 1 /\ owed' = owed + 1 /\ failed' = failed
      BY <2>2 DEF startThread
    <3>3. c = "stay" => numThreads + 1 <= MaxCached
      BY DEF CacheFlag
    <3> HIDE DEF c
    <3>4. /\ threads' \in [Place -> [Cache -> Nat]]
          /\ \A p \in Place, d \in Cache :
               threads'[p][d] = IF p = "begin" /\ d = c THEN threads[p][d] + 1 ELSE threads[p][d]
      BY <1>4, <3>1, <3>2, PlaceMembers
    <3>5. \A p \in Place, d \in Cache : threads[p][d] \in Nat
      BY <1>4
    <3>6. b1 = b + 1 /\ w1 = w /\ k1 = k /\ r1 = r /\ l1 = l
      BY <3>1, <3>4, <3>5 DEF b, b1, w, w1, k, k1, r, r1, l, l1, Count, Place, Cache
    <3>7. threads'["leave"]["stay"] = 0
      BY <1>3, <3>4 DEF Place, Cache
    <3>8. s1 = (IF c = "stay" THEN s + 1 ELSE s)
      BY <3>1, <3>4, <3>5 DEF s, s1, Cached, Place, Cache
    <3>9. TypeOK'
      BY <1>3, <2>1, <2>2, <3>2, <3>4 DEF TypeOK
    <3>10. Goal
      <4>1. numThreads' = numThreads + 1 /\ owed' = owed + 1 /\ failed' = failed
        BY <3>2
      <4> QED
        BY <1>1, <2>1, <3>6, <4>1 DEF Sound
    <3>11. s1 <= MaxCached
      BY <1>1, <1>2, <1>3, <3>3, <3>8 DEF Sound
    <3> QED
      BY <1>5, <3>7, <3>9, <3>10, <3>11
  <2>3. CASE startThreadFails
    <3>1. /\ threads' = threads /\ owed' = owed
          /\ numThreads' = numThreads + 1 /\ failed' = failed + 1
      BY <2>3 DEF startThreadFails
    <3>2. b1 = b /\ w1 = w /\ k1 = k /\ r1 = r /\ l1 = l /\ s1 = s
      BY <3>1 DEF b, b1, w, w1, k, k1, r, r1, l, l1, s, s1
    <3>3. TypeOK'
      BY <1>3, <2>1, <3>1 DEF TypeOK
    <3>4. Goal
      BY <1>1, <2>1, <3>1, <3>2 DEF Sound
    <3> QED
      BY <1>3, <1>5, <3>1, <3>2, <3>3, <3>4
  <2>4. CASE /\ ~ (Len(runq) + 1 > freeThreads)
             /\ owed' = owed + 1 /\ UNCHANGED <<threads, numThreads, failed>>
    <3>1. b1 = b /\ w1 = w /\ k1 = k /\ r1 = r /\ l1 = l /\ s1 = s /\ len + 1 <= freeThreads
      BY <1>1, <2>4 DEF b, b1, w, w1, k, k1, r, r1, l, l1, s, s1, len
    <3>2. TypeOK'
      BY <1>3, <2>1, <2>4 DEF TypeOK
    <3>3. Goal
      BY <1>1, <2>1, <2>4, <3>1 DEF Sound
    <3> QED
      BY <1>3, <1>5, <2>4, <3>1, <3>2, <3>3
  <2> QED
    BY <1>6, <2>2, <2>3, <2>4 DEF run
<1>7. ASSUME Notify \/ SpuriousWakeup PROVE IInv'
  <2>1. /\ runq' = runq /\ numThreads' = numThreads /\ freeThreads' = freeThreads
        /\ failed' = failed
    BY <1>7 DEF Notify, SpuriousWakeup
  <2>2. owed' \in Nat /\ (owed' = owed \/ owed' = owed - 1)
    BY <1>1, <1>7 DEF Notify, SpuriousWakeup
  <2>3. len1 = len
    BY <2>1 DEF len, len1
  <2>4. CASE threads' = threads /\ At("wait") = 0
    <3>1. b1 = b /\ w1 = w /\ k1 = k /\ r1 = r /\ l1 = l /\ s1 = s /\ w = 0
      BY <2>4 DEF b, b1, w, w1, k, k1, r, r1, l, l1, s, s1, At
    <3>2. TypeOK'
      BY <1>3, <2>1, <2>2, <2>4 DEF TypeOK
    <3>3. Goal
      <4>1. CASE owed' = owed
        BY <1>1, <2>1, <2>3, <3>1, <4>1 DEF Sound
      <4>2. CASE owed' = owed - 1
        BY <1>1, <2>1, <2>2, <2>3, <3>1, <4>2 DEF Sound
      <4> QED
        BY <2>2, <4>1, <4>2
    <3> QED
      BY <1>3, <1>5, <2>4, <3>1, <3>2, <3>3
  <2>5. CASE \E c \in Cache : Goes(c, "wait", "woken")
    <3>1. PICK c \in Cache : Goes(c, "wait", "woken")
      BY <2>5
    <3>2. /\ threads' \in [Place -> [Cache -> Nat]]
          /\ Count(threads, "wait") > 0
          /\ \A q \in Place : Count(threads', q) = IF q = "wait" THEN Count(threads, q) - 1
                                                  ELSE IF q = "woken" THEN Count(threads, q) + 1
                                                  ELSE Count(threads, q)
          /\ Cached(threads') = Cached(threads)
      BY <1>4, <3>1, PlaceMembers, GoesSums
    <3>3. threads'["leave"]["stay"] = 0
      BY <1>3, <1>4, <3>1, PlaceMembers, GoesSums
    <3>4. b1 = b /\ w1 = w - 1 /\ k1 = k + 1 /\ r1 = r /\ l1 = l /\ s1 = s /\ w > 0
      BY <3>2, PlaceMembers DEF b, b1, w, w1, k, k1, r, r1, l, l1, s, s1
    <3>5. TypeOK'
      BY <1>3, <2>1, <2>2, <3>2 DEF TypeOK
    <3>6. Goal
      <4>1. CASE owed' = owed
        BY <1>1, <2>1, <2>3, <3>4, <4>1 DEF Sound
      <4>2. CASE owed' = owed - 1
        BY <1>1, <2>1, <2>2, <2>3, <3>4, <4>2 DEF Sound
      <4> QED
        BY <2>2, <4>1, <4>2
    <3> QED
      BY <1>3, <1>5, <3>3, <3>4, <3>5, <3>6
  <2> QED
    BY <1>7, <2>4, <2>5 DEF Notify, SpuriousWakeup
<1>8. ASSUME NEW c \in Cache, NEW p \in {"begin", "woken"}, Wait(c, p) PROVE IInv'
  <2>1. /\ runq' = runq /\ numThreads' = numThreads /\ owed' = owed /\ failed' = failed
        /\ freeThreads' = IF p = "begin" THEN freeThreads + 1 ELSE freeThreads
    BY <1>8 DEF Wait
  <2>2. len1 = len /\ len = 0
    BY <1>8 DEF Wait, len, len1
  <2>3. p \in Place /\ p # "wait"
    BY DEF Place
  <2>4. /\ threads' \in [Place -> [Cache -> Nat]]
        /\ Count(threads, p) > 0
        /\ \A q \in Place : Count(threads', q) = IF q = p THEN Count(threads, q) - 1
                                                ELSE IF q = "wait" THEN Count(threads, q) + 1
                                                ELSE Count(threads, q)
        /\ Cached(threads') = Cached(threads)
    BY <1>4, <1>8, <2>3, PlaceMembers, GoesSums DEF Wait
  <2>5. threads'["leave"]["stay"] = 0
    BY <1>3, <1>4, <1>8, <2>3, PlaceMembers, GoesSums DEF Wait
  <2>6. TypeOK'
    BY <1>3, <2>1, <2>4 DEF TypeOK
  <2>7. r1 = r /\ l1 = l /\ s1 = s /\ w1 = w + 1
    BY <2>4, PlaceMembers DEF w, w1, r, r1, l, l1, s, s1
  <2>8. CASE p = "begin"
    <3>1. b1 = b - 1 /\ k1 = k /\ b > 0 /\ freeThreads' = freeThreads + 1
      BY <2>1, <2>4, <2>8, PlaceMembers DEF b, b1, k, k1
    <3>2. Goal
      BY <1>1, <2>1, <2>2, <2>7, <3>1 DEF Sound
    <3> QED
      BY <1>3, <1>5, <2>5, <2>6, <2>7, <3>2
  <2>9. CASE p = "woken"
    <3>1. b1 = b /\ k1 = k - 1 /\ k > 0 /\ freeThreads' = freeThreads
      BY <2>1, <2>4, <2>9, PlaceMembers DEF b, b1, k, k1
    <3>2. Goal
      BY <1>1, <2>1, <2>2, <2>7, <3>1 DEF Sound
    <3> QED
      BY <1>3, <1>5, <2>5, <2>6, <2>7, <3>2
  <2> QED
    BY <2>8, <2>9
<1>9. ASSUME NEW c \in Cache, NEW p \in {"begin", "woken"}, Take(c, p) PROVE IInv'
  <2>1. /\ numThreads' = numThreads /\ owed' = owed /\ failed' = failed
        /\ freeThreads' = IF p = "begin" THEN freeThreads ELSE freeThreads - 1
    BY <1>9 DEF Take
  <2>2. runq' \in Seq(Task) /\ len1 = len - 1
    BY <1>4, <1>9 DEF Take, len, len1
  <2>3. p \in Place /\ p # "run"
    BY DEF Place
  <2>4. /\ threads' \in [Place -> [Cache -> Nat]]
        /\ Count(threads, p) > 0
        /\ \A q \in Place : Count(threads', q) = IF q = p THEN Count(threads, q) - 1
                                                ELSE IF q = "run" THEN Count(threads, q) + 1
                                                ELSE Count(threads, q)
        /\ Cached(threads') = Cached(threads)
    BY <1>4, <1>9, <2>3, PlaceMembers, GoesSums DEF Take
  <2>5. threads'["leave"]["stay"] = 0
    BY <1>3, <1>4, <1>9, <2>3, PlaceMembers, GoesSums DEF Take
  <2>6. r1 = r + 1 /\ l1 = l /\ s1 = s /\ w1 = w
    BY <2>4, PlaceMembers DEF w, w1, r, r1, l, l1, s, s1
  <2>7. CASE p = "begin"
    <3>1. b1 = b - 1 /\ k1 = k /\ b > 0 /\ freeThreads' = freeThreads
      BY <2>1, <2>4, <2>7, PlaceMembers DEF b, b1, k, k1
    <3>2. Goal
      BY <1>1, <2>1, <2>2, <2>6, <3>1 DEF Sound
    <3>3. TypeOK'
      BY <1>3, <2>1, <2>2, <2>4, <3>1 DEF TypeOK
    <3> QED
      BY <1>3, <1>5, <2>5, <2>6, <3>2, <3>3
  <2>8. CASE p = "woken"
    <3>1. b1 = b /\ k1 = k - 1 /\ k > 0 /\ freeThreads' = freeThreads - 1
      BY <2>1, <2>4, <2>8, PlaceMembers DEF b, b1, k, k1
    <3>2. Goal /\ freeThreads' \in Nat
      BY <1>1, <2>1, <2>2, <2>6, <3>1 DEF Sound
    <3>3. TypeOK'
      BY <1>3, <2>1, <2>2, <2>4, <3>2 DEF TypeOK
    <3> QED
      BY <1>3, <1>5, <2>5, <2>6, <3>2, <3>3
  <2> QED
    BY <2>7, <2>8
<1>10. ASSUME NEW c \in Cache, Return(c) PROVE IInv'
  <2>1. /\ runq' = runq /\ numThreads' = numThreads /\ freeThreads' = freeThreads
        /\ owed' = owed /\ failed' = failed
    BY <1>10 DEF Return
  <2>2. len1 = len
    BY <2>1 DEF len, len1
  <2>3. CASE c = "stay"
    <3>1. Goes(c, "run", "begin")
      BY <1>10, <2>3 DEF Return
    <3>2. /\ threads' \in [Place -> [Cache -> Nat]]
          /\ Count(threads, "run") > 0
          /\ \A q \in Place : Count(threads', q) = IF q = "run" THEN Count(threads, q) - 1
                                                  ELSE IF q = "begin" THEN Count(threads, q) + 1
                                                  ELSE Count(threads, q)
          /\ Cached(threads') = Cached(threads)
      BY <1>4, <3>1, PlaceMembers, GoesSums
    <3>3. threads'["leave"]["stay"] = 0
      BY <1>3, <1>4, <3>1, PlaceMembers, GoesSums
    <3>4. b1 = b + 1 /\ w1 = w /\ k1 = k /\ r1 = r - 1 /\ l1 = l /\ s1 = s
      BY <3>2, PlaceMembers DEF b, b1, w, w1, k, k1, r, r1, l, l1, s, s1
    <3>5. TypeOK'
      BY <1>3, <2>1, <3>2 DEF TypeOK
    <3>6. Goal
      BY <1>1, <2>1, <2>2, <3>4 DEF Sound
    <3> QED
      BY <1>3, <1>5, <3>3, <3>4, <3>5, <3>6
  <2>4. CASE c = "once"
    <3>1. Goes(c, "run", "leave")
      BY <1>10, <2>4 DEF Return
    <3>2. /\ threads' \in [Place -> [Cache -> Nat]]
          /\ Count(threads, "run") > 0
          /\ \A q \in Place : Count(threads', q) = IF q = "run" THEN Count(threads, q) - 1
                                                  ELSE IF q = "leave" THEN Count(threads, q) + 1
                                                  ELSE Count(threads, q)
          /\ Cached(threads') = Cached(threads)
      BY <1>4, <3>1, PlaceMembers, GoesSums
    <3>3. threads'["leave"]["stay"] = 0
      BY <1>3, <1>4, <2>4, <3>1, PlaceMembers, GoesSums
    <3>4. b1 = b /\ w1 = w /\ k1 = k /\ r1 = r - 1 /\ l1 = l + 1 /\ s1 = s
      BY <3>2, PlaceMembers DEF b, b1, w, w1, k, k1, r, r1, l, l1, s, s1
    <3>5. TypeOK'
      BY <1>3, <2>1, <3>2 DEF TypeOK
    <3>6. Goal
      BY <1>1, <2>1, <2>2, <3>4 DEF Sound
    <3> QED
      BY <1>3, <1>5, <3>3, <3>4, <3>5, <3>6
  <2> QED
    BY <2>3, <2>4 DEF Cache
<1>11. ASSUME Leave PROVE IInv'
  <2>1. /\ runq' = runq /\ numThreads' = numThreads - 1 /\ freeThreads' = freeThreads
        /\ owed' = owed /\ failed' = failed
    BY <1>11 DEF Leave
  <2>2. len1 = len
    BY <2>1 DEF len, len1
  <2>3. /\ threads["leave"]["once"] > 0
        /\ threads' = [threads EXCEPT !["leave"]["once"] = @ - 1]
    BY <1>11 DEF Leave
  <2>4. /\ threads' \in [Place -> [Cache -> Nat]]
        /\ \A p \in Place, d \in Cache :
             threads'[p][d] = IF p = "leave" /\ d = "once" THEN threads[p][d] - 1 ELSE threads[p][d]
    BY <1>4, <2>3 DEF Place, Cache
  <2>5. \A p \in Place, d \in Cache : threads[p][d] \in Nat
    BY <1>4
  <2>6. b1 = b /\ w1 = w /\ k1 = k /\ r1 = r /\ l1 = l - 1 /\ l > 0
    BY <2>3, <2>4, <2>5 DEF b, b1, w, w1, k, k1, r, r1, l, l1, Count, Place, Cache
  <2>7. s1 = s /\ threads'["leave"]["stay"] = 0
    BY <1>3, <2>4, <2>5 DEF s, s1, Cached, Place, Cache
  <2>8. Goal /\ numThreads' \in Nat
    BY <1>1, <2>1, <2>2, <2>6 DEF Sound
  <2>9. TypeOK'
    BY <1>3, <2>1, <2>4, <2>8 DEF TypeOK
  <2> QED
    BY <1>3, <1>5, <2>7, <2>8, <2>9
<1>12. CASE UNCHANGED vars
  BY <1>12 DEF vars, IInv, TypeOK, CountsRight, EveryTaskHasThread, CachedBounded, At
<1> QED
  BY <1>6, <1>7, <1>8, <1>9, <1>10, <1>11, <1>12 DEF Next, Lock

\* In the initial state there are no threads, no tasks and nothing is owed.
LEMMA Initial == Init => IInv
BY DEF Init, IInv, TypeOK, CountsRight, EveryTaskHasThread, CachedBounded, Cached, At, Count,
       Place, Cache

\* The invariant holds in every reachable state.
LEMMA Invariant == Spec => []IInv
BY Initial, Inductive, PTL DEF Spec

\* Every thread and every task is where the pool can have it, at any time.
THEOREM TypeCorrect == Spec => []TypeOK
<1>1. IInv => TypeOK
  BY DEF IInv
<1> QED
  BY <1>1, Invariant, PTL

\* free_threads_ and num_threads_ are what they are said to be, for any number of
\* tasks, cached threads and threads that cannot be created (thread_pool.cpp:30-64).
THEOREM CountsAreRight == Spec => []CountsRight
<1>1. IInv => CountsRight
  BY DEF IInv
<1> QED
  BY <1>1, Invariant, PTL

\* No wakeup is lost: while a task is in runq_, a thread looks at it or a
\* notification is on its way to one (thread_pool.cpp:17-27).
THEOREM NoWakeupIsLost == Spec => []EveryTaskHasThread
<1>1. IInv => EveryTaskHasThread
  BY DEF IInv
<1> QED
  BY <1>1, Invariant, PTL

\* No more than max_cached_threads_ threads stay (thread_pool.cpp:32-35).
THEOREM CacheIsBounded == Spec => []CachedBounded
<1>1. IInv => CachedBounded
  BY DEF IInv
<1> QED
  BY <1>1, Invariant, PTL

\* The counts are right, no task waits without a thread and no thread stays that should
\* not, for any number of tasks and threads.
THEOREM PoolIsSound == Spec => []PoolSound
<1>1. TypeOK /\ CountsRight /\ EveryTaskHasThread /\ CachedBounded => PoolSound
  BY DEF PoolSound
<1> QED
  BY <1>1, TypeCorrect, CountsAreRight, NoWakeupIsLost, CacheIsBounded, PTL
=============================================================================
