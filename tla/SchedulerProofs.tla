-------------------------- MODULE SchedulerProofs --------------------------
EXTENDS Scheduler, SequenceTheorems, TLAPS

(* What its position says about the state st of a thread that is not       *)
(* running on the CPU.                                                     *)
ParkedAt(st, p, t) ==
  /\ st[t] \in {"RUNNING", "READY"} => p[t] \in {"run", "slept", "resumed", "reaping"}
  /\ st[t] = "BLOCKED" => p[t] = "resumed"
  /\ st[t] = "SLEEPING" => p[t] \in {"slept", "run"}
  /\ st[t] = "ZOMBIE" => p[t] = "exited"
  /\ st[t] = "NEW" => p[t] = "run"
  /\ st[t] = "FREE" => p[t] \in {"run", "exited"}

(* The running thread may also be in a window before its thread_yield.     *)
PositionInv ==
  /\ state[Idle] \in {"NEW", "RUNNING"} /\ pc[Idle] \in {"run", "reaping"}
  /\ state[Boot] \notin {"FREE", "NEW", "ZOMBIE"}
  /\ state[current] \notin {"FREE", "NEW", "READY"}
  /\ state[current] = "SLEEPING" => pc[current] = "slept"
  /\ state[current] = "BLOCKED" => pc[current] = "blocked"
  /\ \A t \in Threads : state[t] = "RUNNING" => t = current \/ t = Idle
  /\ \A t \in Threads : pc[t] = "blocked" => ~ iflag[t]
  /\ \A t \in Threads : pc[t] = "reaping" <=> reaping[t] # None
  /\ \A t \in Threads : (t = current /\ state[t] = "BLOCKED") \/ ParkedAt(state, pc, t)

ReaperInv ==
  /\ \A t \in Threads : state[t] = "ZOMBIE" <=>
        InList(t, zombies) \/ \E r \in Threads : reaping[r] = t
  /\ \A r \in Threads : ~ InList(reaping[r], zombies)
  /\ \A r, q \in Threads : reaping[r] = reaping[q] /\ reaping[r] # None => r = q
  /\ \A r \in Threads : reaping[r] # current

ListInv ==
  /\ NoDuplicates(ready) /\ NoDuplicates(sleepers) /\ NoDuplicates(zombies)
  /\ \A t \in Threads : InList(t, ready) <=> state[t] = "READY"
  /\ \A t \in Threads : InList(t, sleepers) <=> state[t] = "SLEEPING"

IndInv == TypeOK /\ PositionInv /\ ReaperInv /\ ListInv

-----------------------------------------------------------------------------
(* What the list operations of thread.c do to a list without duplicates,   *)
(* stated once on sequences; the proofs below never look inside a list.    *)

(* queue_push: the new element is the last one.                            *)
LEMMA PushList ==
  ASSUME NEW S, NEW s \in Seq(S), NEW e \in S,
         NoDuplicates(s), ~ InList(e, s)
  PROVE  /\ Append(s, e) \in Seq(S)
         /\ NoDuplicates(Append(s, e))
         /\ \A x : InList(x, Append(s, e)) <=> InList(x, s) \/ x = e
  <1>1. /\ Append(s, e) \in Seq(S)
        /\ Len(Append(s, e)) = Len(s) + 1
        /\ \A i \in 1..Len(s) : Append(s, e)[i] = s[i]
        /\ Append(s, e)[Len(s) + 1] = e
        /\ Len(s) \in Nat
    OBVIOUS
  <1>2. NoDuplicates(Append(s, e))
    BY <1>1 DEF NoDuplicates, InList
  <1>3. ASSUME NEW x
        PROVE  InList(x, Append(s, e)) <=> InList(x, s) \/ x = e
    <2>1. ASSUME InList(x, Append(s, e)) PROVE InList(x, s) \/ x = e
      BY <1>1, <2>1 DEF InList
    <2>2. ASSUME InList(x, s) PROVE InList(x, Append(s, e))
      BY <1>1, <2>2 DEF InList
    <2>3. ASSUME x = e PROVE InList(x, Append(s, e))
      BY <1>1, <2>3 DEF InList
    <2> QED BY <2>1, <2>2, <2>3
  <1> QED BY <1>1, <1>2, <1>3

(* queue_pop: the head leaves, everything else stays.                      *)
LEMMA PopList ==
  ASSUME NEW S, NEW s \in Seq(S), s # <<>>, NoDuplicates(s)
  PROVE  /\ Head(s) \in S /\ InList(Head(s), s)
         /\ Tail(s) \in Seq(S)
         /\ NoDuplicates(Tail(s))
         /\ \A x : InList(x, Tail(s)) <=> InList(x, s) /\ x # Head(s)
  <1>1. /\ Len(s) \in Nat /\ Len(s) >= 1
        /\ Head(s) = s[1] /\ Head(s) \in S
        /\ Tail(s) \in Seq(S) /\ Len(Tail(s)) = Len(s) - 1
        /\ \A i \in 1..(Len(s) - 1) : Tail(s)[i] = s[i + 1]
    OBVIOUS
  <1>2. NoDuplicates(Tail(s))
    <2> SUFFICES ASSUME NEW i \in 1..(Len(s) - 1), NEW j \in 1..(Len(s) - 1),
                        Tail(s)[i] = Tail(s)[j]
                 PROVE  i = j
      BY <1>1 DEF NoDuplicates
    <2>1. i + 1 \in 1..Len(s) /\ j + 1 \in 1..Len(s) /\ s[i + 1] = s[j + 1]
      BY <1>1
    <2> QED BY <2>1 DEF NoDuplicates
  <1>3. ASSUME NEW x
        PROVE  InList(x, Tail(s)) <=> InList(x, s) /\ x # Head(s)
    <2>1. ASSUME InList(x, Tail(s)) PROVE InList(x, s) /\ x # Head(s)
      <3>1. PICK i \in 1..(Len(s) - 1) : Tail(s)[i] = x
        BY <1>1, <2>1 DEF InList
      <3>2. i + 1 \in 1..Len(s) /\ s[i + 1] = x /\ i + 1 # 1 /\ 1 \in 1..Len(s)
        BY <1>1, <3>1
      <3> QED BY <1>1, <3>2 DEF InList, NoDuplicates
    <2>2. ASSUME InList(x, s), x # Head(s) PROVE InList(x, Tail(s))
      <3>1. PICK i \in 1..Len(s) : s[i] = x
        BY <2>2 DEF InList
      <3>2. i - 1 \in 1..(Len(s) - 1) /\ Tail(s)[i - 1] = s[(i - 1) + 1]
        BY <1>1, <2>2, <3>1
      <3>3. (i - 1) + 1 = i
        BY <1>1
      <3> QED BY <1>1, <3>1, <3>2, <3>3 DEF InList
    <2> QED BY <2>1, <2>2
  <1>4. InList(Head(s), s)
    BY <1>1 DEF InList
  <1> QED BY <1>1, <1>2, <1>3, <1>4

(* sleep_insert: the new element at any position.                          *)
LEMMA InsertList ==
  ASSUME NEW S, NEW s \in Seq(S), NEW e \in S, NEW k \in 1..(Len(s) + 1),
         NoDuplicates(s), ~ InList(e, s)
  PROVE  /\ InsertAt(s, k, e) \in Seq(S)
         /\ Len(InsertAt(s, k, e)) = Len(s) + 1
         /\ \A i \in 1..(Len(s) + 1) :
              InsertAt(s, k, e)[i] = IF i < k THEN s[i]
                                     ELSE IF i = k THEN e ELSE s[i - 1]
         /\ NoDuplicates(InsertAt(s, k, e))
         /\ \A x : InList(x, InsertAt(s, k, e)) <=> InList(x, s) \/ x = e
  <1> DEFINE p == SubSeq(s, 1, k - 1)
             q == SubSeq(s, k, Len(s))
             r == (p \o <<e>>) \o q
  <1>1. Len(s) \in Nat /\ k \in Nat /\ k >= 1 /\ k <= Len(s) + 1
    OBVIOUS
  <1>2. /\ p \in Seq(S) /\ Len(p) = k - 1
        /\ \A i \in 1..(k - 1) : p[i] = s[i]
    BY <1>1, SubSeqProperties
  <1>3. /\ q \in Seq(S) /\ Len(q) = (Len(s) - k) + 1
        /\ \A i \in 1..((Len(s) - k) + 1) : q[i] = s[(k + i) - 1]
    BY <1>1, SubSeqProperties
  <1> HIDE DEF p, q
  <1>4. /\ p \o <<e>> \in Seq(S) /\ Len(p \o <<e>>) = k
        /\ \A i \in 1..k : (p \o <<e>>)[i] = IF i < k THEN s[i] ELSE e
    BY <1>1, <1>2
  <1> DEFINE pe == p \o <<e>>
  <1> HIDE DEF pe
  <1>10. /\ pe \o q \in Seq(S) /\ Len(pe \o q) = k + ((Len(s) - k) + 1)
        /\ \A i \in 1..(k + ((Len(s) - k) + 1)) :
             (pe \o q)[i] = IF i <= k THEN pe[i] ELSE q[i - k]
    BY <1>1, <1>3, <1>4 DEF pe
  <1>11. \A i \in 1..(Len(s) + 1) : i > k =>
          i - k \in 1..((Len(s) - k) + 1) /\ (k + (i - k)) - 1 = i - 1
    BY <1>1
  <1>5. /\ r \in Seq(S) /\ Len(r) = Len(s) + 1
        /\ \A i \in 1..(Len(s) + 1) :
             r[i] = IF i < k THEN s[i] ELSE IF i = k THEN e ELSE s[i - 1]
    <2>1. r = pe \o q /\ k + ((Len(s) - k) + 1) = Len(s) + 1
      BY <1>1 DEF pe
    <2>2. \A i \in 1..k : pe[i] = IF i < k THEN s[i] ELSE e
      BY <1>4 DEF pe
    <2> HIDE DEF r
    <2>3. ASSUME NEW i \in 1..(Len(s) + 1)
          PROVE  r[i] = IF i < k THEN s[i] ELSE IF i = k THEN e ELSE s[i - 1]
      <3>1. CASE i <= k
        BY <1>1, <1>10, <2>1, <2>2, <3>1
      <3>2. CASE i > k
        <4>1. r[i] = q[i - k]
          BY <1>1, <1>10, <2>1, <3>2
        <4>2. q[i - k] = s[i - 1]
          BY <1>3, <1>11, <3>2
        <4> QED BY <1>1, <3>2, <4>1, <4>2
      <3> QED BY <1>1, <3>1, <3>2
    <2> QED BY <1>10, <2>1, <2>3
  <1>6. r = InsertAt(s, k, e)
    BY DEF InsertAt, p, q
  <1> HIDE DEF r
  <1>7. NoDuplicates(r)
    <2> SUFFICES ASSUME NEW i \in 1..(Len(s) + 1), NEW j \in 1..(Len(s) + 1),
                        r[i] = r[j], i < j
                 PROVE  FALSE
      BY <1>5 DEF NoDuplicates
    <2>1. \A m, n \in 1..Len(s) : s[m] = s[n] => m = n
      BY DEF NoDuplicates
    <2>2. \A m \in 1..Len(s) : s[m] # e
      BY DEF InList
    <2>3. CASE j < k
      BY <1>1, <1>5, <2>1, <2>3
    <2>4. CASE j = k
      BY <1>1, <1>5, <2>2, <2>4
    <2>5. CASE j > k
      <3>1. j - 1 \in 1..Len(s) /\ r[j] = s[j - 1]
        BY <1>1, <1>5, <2>5
      <3>2. CASE i < k
        BY <1>1, <1>5, <2>1, <2>5, <3>1, <3>2
      <3>3. CASE i = k
        BY <1>1, <1>5, <2>2, <3>1, <3>3
      <3>4. CASE i > k
        <4>1. i - 1 \in 1..Len(s) /\ r[i] = s[i - 1]
          BY <1>1, <1>5, <3>4
        <4> QED BY <1>1, <2>1, <3>1, <4>1
      <3> QED BY <1>1, <3>2, <3>3, <3>4
    <2> QED BY <1>1, <2>3, <2>4, <2>5
  <1>8. ASSUME NEW x
        PROVE  InList(x, r) <=> InList(x, s) \/ x = e
    <2>1. ASSUME InList(x, r) PROVE InList(x, s) \/ x = e
      <3>1. PICK i \in 1..(Len(s) + 1) : r[i] = x
        BY <1>5, <2>1 DEF InList
      <3> QED BY <1>1, <1>5, <3>1 DEF InList
    <2>2. ASSUME InList(x, s) PROVE InList(x, r)
      <3>1. PICK i \in 1..Len(s) : s[i] = x
        BY <2>2 DEF InList
      <3>2. CASE i < k
        BY <1>1, <1>5, <3>1, <3>2 DEF InList
      <3>3. CASE i >= k
        <4>1. i + 1 \in 1..(Len(s) + 1) /\ r[i + 1] = x
          BY <1>1, <1>5, <3>1, <3>3
        <4> QED BY <1>5, <4>1 DEF InList
      <3> QED BY <1>1, <3>2, <3>3
    <2>3. ASSUME x = e PROVE InList(x, r)
      BY <1>1, <1>5, <2>3 DEF InList
    <2> QED BY <2>1, <2>2, <2>3
  <1> QED BY <1>5, <1>6, <1>7, <1>8

(* wake_due_sleepers: the first n elements move to the end of another list.*)
LEMMA MoveHeads ==
  ASSUME NEW S, NEW s \in Seq(S), NEW q \in Seq(S), NEW n \in 0..Len(s),
         NoDuplicates(s), NoDuplicates(q),
         \A x : ~ (InList(x, s) /\ InList(x, q))
  PROVE  /\ q \o SubSeq(s, 1, n) \in Seq(S)
         /\ NoDuplicates(q \o SubSeq(s, 1, n))
         /\ \A x : InList(x, q \o SubSeq(s, 1, n)) <=>
                     InList(x, q) \/ x \in {s[i] : i \in 1..n}
         /\ SubSeq(s, n + 1, Len(s)) \in Seq(S)
         /\ Len(SubSeq(s, n + 1, Len(s))) = Len(s) - n
         /\ \A i \in 1..(Len(s) - n) : SubSeq(s, n + 1, Len(s))[i] = s[n + i]
         /\ NoDuplicates(SubSeq(s, n + 1, Len(s)))
         /\ \A x : InList(x, SubSeq(s, n + 1, Len(s))) <=>
                     InList(x, s) /\ x \notin {s[i] : i \in 1..n}
  <1> DEFINE p == SubSeq(s, 1, n)
             z == SubSeq(s, n + 1, Len(s))
             w == q \o p
  <1>1. Len(s) \in Nat /\ n \in Nat /\ n <= Len(s) /\ Len(q) \in Nat
    OBVIOUS
  <1>2. p \in Seq(S) /\ Len(p) = n /\ \A i \in 1..n : p[i] = s[i]
    BY <1>1, SubSeqProperties
  <1>3. /\ z \in Seq(S) /\ Len(z) = Len(s) - n
        /\ \A i \in 1..(Len(s) - n) : z[i] = s[n + i]
    BY <1>1, SubSeqProperties
  <1> HIDE DEF p, z
  <1>4. /\ w \in Seq(S) /\ Len(w) = Len(q) + n
        /\ \A i \in 1..(Len(q) + n) :
             w[i] = IF i <= Len(q) THEN q[i] ELSE s[i - Len(q)]
    BY <1>1, <1>2, SMTT(30)
  <1> HIDE DEF w
  <1>5. /\ \A i, j \in 1..Len(s) : s[i] = s[j] => i = j
        /\ \A i, j \in 1..Len(q) : q[i] = q[j] => i = j
        /\ \A i \in 1..Len(s), j \in 1..Len(q) : s[i] # q[j]
    BY DEF NoDuplicates, InList
  <1>6. NoDuplicates(w)
    <2> SUFFICES ASSUME NEW i \in 1..(Len(q) + n), NEW j \in 1..(Len(q) + n),
                        w[i] = w[j], i < j
                 PROVE  FALSE
      BY <1>4 DEF NoDuplicates
    <2>1. CASE j <= Len(q)
      BY <1>1, <1>4, <1>5, <2>1
    <2>2. CASE i <= Len(q) /\ j > Len(q)
      BY <1>1, <1>4, <1>5, <2>2
    <2>3. CASE i > Len(q)
      BY <1>1, <1>4, <1>5, <2>3
    <2> QED BY <1>1, <2>1, <2>2, <2>3
  <1>7. ASSUME NEW x
        PROVE  InList(x, w) <=> InList(x, q) \/ x \in {s[i] : i \in 1..n}
    <2>1. ASSUME InList(x, w) PROVE InList(x, q) \/ x \in {s[i] : i \in 1..n}
      <3>1. PICK i \in 1..(Len(q) + n) : w[i] = x
        BY <1>4, <2>1 DEF InList
      <3>2. CASE i <= Len(q)
        BY <1>1, <1>4, <3>1, <3>2 DEF InList
      <3>3. CASE i > Len(q)
        <4>1. i - Len(q) \in 1..n /\ s[i - Len(q)] = x
          BY <1>1, <1>4, <3>1, <3>3
        <4> QED BY <4>1
      <3> QED BY <1>1, <3>2, <3>3
    <2>2. ASSUME InList(x, q) PROVE InList(x, w)
      BY <1>1, <1>4, <2>2 DEF InList
    <2>3. ASSUME x \in {s[i] : i \in 1..n} PROVE InList(x, w)
      <3>1. PICK i \in 1..n : s[i] = x
        BY <2>3
      <3>2. /\ Len(q) + i \in 1..(Len(q) + n) /\ ~ (Len(q) + i <= Len(q))
            /\ (Len(q) + i) - Len(q) = i
        BY <1>1
      <3>3. w[Len(q) + i] = s[(Len(q) + i) - Len(q)]
        BY <1>4, <3>2
      <3>4. w[Len(q) + i] = x
        BY <3>1, <3>2, <3>3
      <3> QED BY <1>4, <3>2, <3>4 DEF InList
    <2> QED BY <2>1, <2>2, <2>3
  <1>8. NoDuplicates(z)
    BY <1>1, <1>3, <1>5 DEF NoDuplicates
  <1>9. ASSUME NEW x
        PROVE  InList(x, z) <=> InList(x, s) /\ x \notin {s[i] : i \in 1..n}
    <2>1. ASSUME InList(x, z) PROVE InList(x, s) /\ x \notin {s[i] : i \in 1..n}
      <3>1. PICK i \in 1..(Len(s) - n) : z[i] = x
        BY <1>3, <2>1 DEF InList
      <3>2. n + i \in 1..Len(s) /\ s[n + i] = x /\ n + i \notin 1..n
        BY <1>1, <1>3, <3>1
      <3>3. ASSUME NEW j \in 1..n, s[j] = x PROVE FALSE
        BY <1>1, <1>5, <3>2, <3>3
      <3> QED BY <3>2, <3>3 DEF InList
    <2>2. ASSUME InList(x, s), x \notin {s[i] : i \in 1..n} PROVE InList(x, z)
      <3>1. PICK i \in 1..Len(s) : s[i] = x
        BY <2>2 DEF InList
      <3>2. i \notin 1..n
        BY <2>2, <3>1
      <3>3. i - n \in 1..(Len(s) - n) /\ n + (i - n) = i
        BY <1>1, <3>2
      <3> QED BY <1>3, <3>1, <3>3 DEF InList
    <2> QED BY <2>1, <2>2
  <1> QED BY <1>3, <1>4, <1>6, <1>7, <1>8, <1>9 DEF p, z, w

-----------------------------------------------------------------------------
(* What thread_schedule_from_interrupt guarantees, whatever states st and  *)
(* ready list rq it is entered with: the dispatched thread is RUNNING and  *)
(* nothing else is (but the parked idle thread), the ready list still      *)
(* holds exactly the READY threads, and no other state changes.            *)
LEMMA ScheduleEffect ==
  ASSUME NEW st \in [Threads -> States], NEW rq \in Seq(Threads),
         current \in Threads,
         NoDuplicates(rq),
         \A t \in Threads : InList(t, rq) <=> st[t] = "READY",
         \A t \in Threads : st[t] = "RUNNING" => t = current \/ t = Idle,
         st[Idle] \in {"NEW", "RUNNING"},
         current = Idle => st[Idle] = "RUNNING",
         Schedule(st, rq)
  PROVE  /\ state' \in [Threads -> States] /\ ready' \in Seq(Threads)
         /\ current' \in Threads /\ slice' = 0 /\ resched' = FALSE
         /\ NoDuplicates(ready')
         /\ \A t \in Threads : InList(t, ready') <=> state'[t] = "READY"
         /\ \A t \in Threads : state'[t] = "RUNNING" => t = current' \/ t = Idle
         /\ state'[current'] = "RUNNING"
         /\ \A t \in Threads : state'[t] # st[t] =>
              \/ st[t] = "READY" /\ state'[t] = "RUNNING"
              \/ st[t] = "RUNNING" /\ state'[t] = "READY" /\ t # Idle
              \/ t = Idle /\ state'[t] = "RUNNING"
         /\ current' = current \/ current' = Idle \/ st[current'] = "READY"
  <1> USE ThreadAssumption
  <1>1. Idle \in Threads
    BY DEF Threads
  <1>2. slice' = 0 /\ resched' = FALSE
    BY DEF Schedule
  <1>3. CASE /\ rq = <<>>
             /\ current = Idle \/ (current # Idle /\ st[current] = "RUNNING")
             /\ state' = st /\ ready' = rq /\ current' = current
    BY <1>1, <1>2, <1>3
  <1>4. CASE /\ rq = <<>>
             /\ ~ (current = Idle \/ (current # Idle /\ st[current] = "RUNNING"))
             /\ SwitchTo(Idle, st, rq)
    BY <1>1, <1>2, <1>4 DEF SwitchTo, States
  <1>5. CASE rq # <<>> /\ current # Idle /\ st[current] = "RUNNING"
             /\ SwitchTo(Head(rq), [st EXCEPT ![current] = "READY"],
                         Append(Tail(rq), current))
    <2>1. /\ Head(rq) \in Threads /\ InList(Head(rq), rq)
          /\ Tail(rq) \in Seq(Threads) /\ NoDuplicates(Tail(rq))
          /\ \A x : InList(x, Tail(rq)) <=> InList(x, rq) /\ x # Head(rq)
      BY <1>5, PopList
    <2>2. ~ InList(current, Tail(rq)) /\ current # Head(rq) /\ st[Head(rq)] = "READY"
      BY <1>5, <2>1
    <2>3. /\ Append(Tail(rq), current) \in Seq(Threads)
          /\ NoDuplicates(Append(Tail(rq), current))
          /\ \A x : InList(x, Append(Tail(rq), current)) <=>
                      InList(x, Tail(rq)) \/ x = current
      <3> DEFINE tl == Tail(rq)
      <3>1. tl \in Seq(Threads) /\ NoDuplicates(tl) /\ ~ InList(current, tl)
        BY <2>1, <2>2
      <3> HIDE DEF tl
      <3>2. /\ Append(tl, current) \in Seq(Threads)
            /\ NoDuplicates(Append(tl, current))
            /\ \A x : InList(x, Append(tl, current)) <=> InList(x, tl) \/ x = current
        BY <3>1, PushList
      <3> QED BY <3>2 DEF tl
    <2>4. /\ state' = [[st EXCEPT ![current] = "READY"] EXCEPT ![Head(rq)] = "RUNNING"]
          /\ ready' = Append(Tail(rq), current) /\ current' = Head(rq)
      BY <1>5 DEF SwitchTo
    <2>5. \A t \in Threads :
            state'[t] = IF t = Head(rq) THEN "RUNNING"
                        ELSE IF t = current THEN "READY" ELSE st[t]
      BY <2>1, <2>4
    <2>6. state' \in [Threads -> States]
      BY <2>1, <2>4 DEF States
    <2> QED BY <1>1, <1>2, <1>5, <2>1, <2>2, <2>3, <2>4, <2>5, <2>6
  <1>6. CASE rq # <<>> /\ ~ (current # Idle /\ st[current] = "RUNNING")
             /\ SwitchTo(Head(rq), st, Tail(rq))
    <2>1. /\ Head(rq) \in Threads /\ InList(Head(rq), rq)
          /\ Tail(rq) \in Seq(Threads) /\ NoDuplicates(Tail(rq))
          /\ \A x : InList(x, Tail(rq)) <=> InList(x, rq) /\ x # Head(rq)
      BY <1>6, PopList
    <2>2. st[Head(rq)] = "READY"
      BY <2>1
    <2>3. /\ state' = [st EXCEPT ![Head(rq)] = "RUNNING"]
          /\ ready' = Tail(rq) /\ current' = Head(rq)
      BY <1>6 DEF SwitchTo
    <2>4. \A t \in Threads :
            state'[t] = IF t = Head(rq) THEN "RUNNING" ELSE st[t]
      BY <2>1, <2>3
    <2>5. state' \in [Threads -> States]
      BY <2>1, <2>3 DEF States
    <2> QED BY <1>1, <1>2, <1>6, <2>1, <2>2, <2>3, <2>4, <2>5
  <1> QED BY <1>3, <1>4, <1>5, <1>6 DEF Schedule

-----------------------------------------------------------------------------
(* The conclusion of ScheduleEffect, as one fact.                          *)
TakenBySchedule(st, rq) ==
  /\ state' \in [Threads -> States] /\ ready' \in Seq(Threads)
  /\ current' \in Threads /\ slice' = 0 /\ resched' = FALSE
  /\ NoDuplicates(ready')
  /\ \A t \in Threads : InList(t, ready') <=> state'[t] = "READY"
  /\ \A t \in Threads : state'[t] = "RUNNING" => t = current' \/ t = Idle
  /\ state'[current'] = "RUNNING"
  /\ \A t \in Threads : state'[t] # st[t] =>
       \/ st[t] = "READY" /\ state'[t] = "RUNNING"
       \/ st[t] = "RUNNING" /\ state'[t] = "READY" /\ t # Idle
       \/ t = Idle /\ state'[t] = "RUNNING"
  /\ current' = current \/ current' = Idle \/ st[current'] = "READY"

(* The scheduler entered by int 0x30, with the lists as they are.          *)
LEMMA ScheduleHere ==
  ASSUME IndInv, Schedule(state, ready)
  PROVE  TakenBySchedule(state, ready)
  <1>1. /\ state \in [Threads -> States] /\ ready \in Seq(Threads)
        /\ current \in Threads
        /\ NoDuplicates(ready)
        /\ \A t \in Threads : InList(t, ready) <=> state[t] = "READY"
        /\ \A t \in Threads : state[t] = "RUNNING" => t = current \/ t = Idle
        /\ state[Idle] \in {"NEW", "RUNNING"}
        /\ current = Idle => state[Idle] = "RUNNING"
    BY DEF IndInv, TypeOK, ListInv, PositionInv
  <1> QED BY <1>1, ScheduleEffect DEF TakenBySchedule

(* The scheduler preserves the invariant when it is entered with states st *)
(* and lists that satisfy it for every thread as if none was running, and  *)
(* the same zombies as before.                                             *)
LEMMA AfterSchedule ==
  ASSUME NEW st \in [Threads -> States], NEW rq \in Seq(Threads),
         TakenBySchedule(st, rq), TypeOK, ReaperInv,
         zombies' = zombies, reaping' = reaping, NoDuplicates(zombies),
         \A t \in Threads : st[t] = "ZOMBIE" <=> state[t] = "ZOMBIE",
         NoDuplicates(sleepers'),
         \A t \in Threads : InList(t, sleepers') <=> st[t] = "SLEEPING",
         st[Idle] \in {"NEW", "RUNNING"}, pc'[Idle] \in {"run", "reaping"},
         st[Boot] \notin {"FREE", "NEW", "ZOMBIE"},
         \A t \in Threads : pc'[t] = "blocked" => ~ iflag'[t],
         \A t \in Threads : pc'[t] = "reaping" <=> reaping[t] # None,
         \A t \in Threads : ParkedAt(st, pc', t)
  PROVE  PositionInv' /\ ReaperInv' /\ ListInv'
  <1> USE ThreadAssumption
  <1>1. Idle \in Threads /\ Boot \in Threads /\ Boot # Idle
    BY DEF Threads
  <1>2. /\ state'[Idle] \in {"NEW", "RUNNING"}
        /\ state'[Boot] \notin {"FREE", "NEW", "ZOMBIE"}
    BY <1>1 DEF TakenBySchedule
  <1>3. \A t \in Threads : state'[t] = "ZOMBIE" <=> state[t] = "ZOMBIE"
    BY <1>1 DEF TakenBySchedule
  <1>4. ASSUME NEW t \in Threads PROVE ParkedAt(state', pc', t)
    <2>1. CASE state'[t] = st[t]
      BY <2>1 DEF ParkedAt
    <2>2. CASE state'[t] # st[t]
      BY <1>1, <2>2 DEF ParkedAt, TakenBySchedule
    <2> QED BY <2>1, <2>2
  <1>5. PositionInv'
    BY <1>2, <1>4 DEF PositionInv, TakenBySchedule, ParkedAt
  <1>6. ReaperInv'
    <2>1. \A r \in Threads : reaping[r] # current'
      BY <1>3 DEF TakenBySchedule, ReaperInv
    <2> QED BY <1>3, <2>1 DEF ReaperInv
  <1>7. \A t \in Threads : InList(t, sleepers') <=> state'[t] = "SLEEPING"
    BY <1>1 DEF TakenBySchedule
  <1>8. ListInv'
    BY <1>7 DEF ListInv, TakenBySchedule
  <1> QED BY <1>5, <1>6, <1>8

LEMMA ThreadYieldInv ==
  ASSUME IndInv, NEW t \in Threads, ThreadYield(t)
  PROVE  IndInv'
  <1> USE ThreadAssumption DEF IndInv
  <1>1. TakenBySchedule(state, ready)
    BY ScheduleHere DEF ThreadYield
  <1>2. TypeOK'
    BY <1>1 DEF ThreadYield, TypeOK, TakenBySchedule, Positions
  <1>3. /\ zombies' = zombies /\ reaping' = reaping /\ sleepers' = sleepers
        /\ state \in [Threads -> States] /\ ready \in Seq(Threads)
    BY DEF ThreadYield, TypeOK
  <1>4. \A u \in Threads :
          /\ pc'[u] = "blocked" => ~ iflag'[u]
          /\ pc'[u] = "reaping" <=> reaping[u] # None
          /\ ParkedAt(state, pc', u)
    BY DEF ThreadYield, TypeOK, PositionInv, ParkedAt, InThreadCode, InOwnCode
  <1>5. pc'[Idle] \in {"run", "reaping"}
    BY DEF ThreadYield, TypeOK, PositionInv, Threads
  <1> QED BY <1>1, <1>2, <1>3, <1>4, <1>5, AfterSchedule DEF PositionInv, ListInv

LEMMA SleepYieldInv ==
  ASSUME IndInv, NEW t \in Threads, SleepYield(t)
  PROVE  IndInv'
  <1> USE ThreadAssumption DEF IndInv
  <1>1. TakenBySchedule(state, ready)
    BY ScheduleHere DEF SleepYield
  <1>2. TypeOK'
    BY <1>1 DEF SleepYield, TypeOK, TakenBySchedule, Positions
  <1>3. /\ zombies' = zombies /\ reaping' = reaping /\ sleepers' = sleepers
        /\ state \in [Threads -> States] /\ ready \in Seq(Threads)
    BY DEF SleepYield, TypeOK
  <1>4. \A u \in Threads :
          /\ pc'[u] = "blocked" => ~ iflag'[u]
          /\ pc'[u] = "reaping" <=> reaping[u] # None
          /\ ParkedAt(state, pc', u)
    BY DEF SleepYield, TypeOK, PositionInv, ParkedAt, InThreadCode, InOwnCode
  <1>5. pc'[Idle] \in {"run", "reaping"}
    BY DEF SleepYield, TypeOK, PositionInv, Threads
  <1> QED BY <1>1, <1>2, <1>3, <1>4, <1>5, AfterSchedule DEF PositionInv, ListInv

LEMMA BlockYieldInv ==
  ASSUME IndInv, NEW t \in Threads, BlockYield(t)
  PROVE  IndInv'
  <1> USE ThreadAssumption DEF IndInv
  <1>1. TakenBySchedule(state, ready)
    BY ScheduleHere DEF BlockYield
  <1>2. TypeOK'
    BY <1>1 DEF BlockYield, TypeOK, TakenBySchedule, Positions
  <1>3. /\ zombies' = zombies /\ reaping' = reaping /\ sleepers' = sleepers
        /\ state \in [Threads -> States] /\ ready \in Seq(Threads)
    BY DEF BlockYield, TypeOK
  <1>4. \A u \in Threads :
          /\ pc'[u] = "blocked" => ~ iflag'[u]
          /\ pc'[u] = "reaping" <=> reaping[u] # None
          /\ ParkedAt(state, pc', u)
    BY DEF BlockYield, TypeOK, PositionInv, ParkedAt, InThreadCode, InOwnCode
  <1>5. pc'[Idle] \in {"run", "reaping"}
    BY DEF BlockYield, TypeOK, PositionInv, Threads
  <1> QED BY <1>1, <1>2, <1>3, <1>4, <1>5, AfterSchedule DEF PositionInv, ListInv

LEMMA ExitYieldInv ==
  ASSUME IndInv, NEW t \in Threads, ExitYield(t)
  PROVE  IndInv'
  <1> USE ThreadAssumption DEF IndInv
  <1>1. TakenBySchedule(state, ready)
    BY ScheduleHere DEF ExitYield
  <1>2. TypeOK'
    BY <1>1 DEF ExitYield, TypeOK, TakenBySchedule, Positions
  <1>3. /\ zombies' = zombies /\ reaping' = reaping /\ sleepers' = sleepers
        /\ state \in [Threads -> States] /\ ready \in Seq(Threads)
    BY DEF ExitYield, TypeOK
  <1>4. \A u \in Threads :
          /\ pc'[u] = "blocked" => ~ iflag'[u]
          /\ pc'[u] = "reaping" <=> reaping[u] # None
          /\ ParkedAt(state, pc', u)
    BY DEF ExitYield, TypeOK, PositionInv, ParkedAt, InThreadCode, InOwnCode
  <1>5. pc'[Idle] \in {"run", "reaping"}
    BY DEF ExitYield, TypeOK, PositionInv, Threads
  <1> QED BY <1>1, <1>2, <1>3, <1>4, <1>5, AfterSchedule DEF PositionInv, ListInv

(* An unlinked thread u becomes READY at the end of the ready list.        *)
LEMMA ReadyPush ==
  ASSUME IndInv, NEW u \in Threads, u # Idle,
         state[u] \in {"FREE", "NEW", "BLOCKED"}, u # current,
         state' = [state EXCEPT ![u] = "READY"],
         ready' = Append(ready, u),
         sleepers' = sleepers, zombies' = zombies
  PROVE  /\ state' \in [Threads -> States] /\ ready' \in Seq(Threads)
         /\ ListInv'
         /\ \A t \in Threads : state'[t] = IF t = u THEN "READY" ELSE state[t]
  <1> USE DEF IndInv
  <1>1. /\ ready \in Seq(Threads) /\ NoDuplicates(ready) /\ ~ InList(u, ready)
        /\ state \in [Threads -> States]
    BY DEF TypeOK, ListInv
  <1>2. /\ ready' \in Seq(Threads) /\ NoDuplicates(ready')
        /\ \A x : InList(x, ready') <=> InList(x, ready) \/ x = u
    BY <1>1, PushList
  <1>3. /\ state' \in [Threads -> States]
        /\ \A t \in Threads : state'[t] = IF t = u THEN "READY" ELSE state[t]
    BY <1>1 DEF States
  <1>4. ListInv'
    BY <1>2, <1>3 DEF ListInv
  <1> QED BY <1>2, <1>3, <1>4

LEMMA ThreadStartInv ==
  ASSUME IndInv, NEW t \in Threads, NEW u \in Thread, ThreadStart(t, u)
  PROVE  IndInv'
  <1> USE ThreadAssumption DEF IndInv
  <1>1. u \in Threads /\ u # Idle /\ u # Boot /\ u # current /\ state[u] = "NEW"
    BY DEF ThreadStart, PositionInv, Threads
  <1>2. /\ state' = [state EXCEPT ![u] = "READY"] /\ ready' = Append(ready, u)
        /\ sleepers' = sleepers /\ zombies' = zombies
    BY DEF ThreadStart
  <1>3. /\ state' \in [Threads -> States] /\ ready' \in Seq(Threads) /\ ListInv'
        /\ \A v \in Threads : state'[v] = IF v = u THEN "READY" ELSE state[v]
    BY <1>1, <1>2, ReadyPush
  <1>4. TypeOK'
    BY <1>3 DEF ThreadStart, TypeOK, clock
  <1>5. PositionInv'
    BY <1>1, <1>3 DEF ThreadStart, TypeOK, PositionInv, ParkedAt, Threads
  <1>6. ReaperInv'
    BY <1>1, <1>3 DEF ThreadStart, TypeOK, ReaperInv
  <1> QED BY <1>3, <1>4, <1>5, <1>6

LEMMA ThreadWakeInv ==
  ASSUME IndInv, NEW u \in Threads, ThreadWake(u)
  PROVE  IndInv'
  <1> USE ThreadAssumption DEF IndInv
  <1>1. u # Idle /\ u # current /\ state[u] = "BLOCKED"
    BY DEF ThreadWake, PositionInv, TypeOK
  <1>2. /\ state' = [state EXCEPT ![u] = "READY"] /\ ready' = Append(ready, u)
        /\ sleepers' = sleepers /\ zombies' = zombies
    BY DEF ThreadWake
  <1>3. /\ state' \in [Threads -> States] /\ ready' \in Seq(Threads) /\ ListInv'
        /\ \A v \in Threads : state'[v] = IF v = u THEN "READY" ELSE state[v]
    BY <1>1, <1>2, ReadyPush
  <1>4. TypeOK'
    BY <1>3 DEF ThreadWake, TypeOK
  <1>5. PositionInv'
    BY <1>1, <1>3 DEF ThreadWake, TypeOK, PositionInv, ParkedAt, Threads
  <1>6. ReaperInv'
    BY <1>1, <1>3 DEF ThreadWake, TypeOK, ReaperInv
  <1> QED BY <1>3, <1>4, <1>5, <1>6

LEMMA ThreadCreateInv ==
  ASSUME IndInv, NEW t \in Threads, NEW u \in Thread, NEW e \in BOOLEAN,
         ThreadCreate(t, u, e)
  PROVE  IndInv'
  <1> USE ThreadAssumption DEF IndInv
  <1>1. u \in Threads /\ u # Idle /\ u # Boot /\ u # current /\ state[u] = "FREE"
    BY DEF ThreadCreate, PositionInv, Threads
  <1>2. reaping[u] = None /\ pc[u] # "reaping"
    BY <1>1 DEF PositionInv, ParkedAt
  <1>3. /\ state' \in [Threads -> States] /\ ready' \in Seq(Threads) /\ ListInv'
        /\ state'[u] \in {"READY", "NEW"}
        /\ \A v \in Threads : v # u => state'[v] = state[v]
    <2>1. CASE e
      BY <1>1, <2>1, ReadyPush DEF ThreadCreate
    <2>2. CASE ~ e
      BY <1>1, <2>2, ZenonT(30) DEF ThreadCreate, TypeOK, ListInv, States
    <2> QED BY <2>1, <2>2
  <1>7. /\ wake_tick' = [wake_tick EXCEPT ![u] = 0]
        /\ pc' = [pc EXCEPT ![u] = "run"]
        /\ iflag' = [iflag EXCEPT ![u] = TRUE]
        /\ UNCHANGED <<reaping, current, sleepers, zombies, clock, due>>
    BY DEF ThreadCreate
  <1>4. TypeOK'
    BY <1>1, <1>3, <1>7, TickAssumption DEF TypeOK, Positions, clock
  <1>5. PositionInv'
    BY <1>1, <1>2, <1>3, <1>7, SMTT(30) DEF TypeOK, PositionInv, ParkedAt, Threads
  <1>6. ReaperInv'
    BY <1>1, <1>3, <1>7 DEF TypeOK, ReaperInv
  <1> QED BY <1>3, <1>4, <1>5, <1>6

LEMMA ThreadBlockCurrentInv ==
  ASSUME IndInv, NEW t \in Threads, ThreadBlockCurrent(t)
  PROVE  IndInv'
  <1> USE ThreadAssumption DEF IndInv
  <1>1. \A v \in Threads : state'[v] = IF v = t THEN "BLOCKED" ELSE state[v]
    BY DEF ThreadBlockCurrent, TypeOK
  <1>2. t = current /\ t # Idle /\ state[t] = "RUNNING" /\ pc[t] = "run"
    BY DEF ThreadBlockCurrent, InThreadCode, InOwnCode
  <1>3. TypeOK'
    BY DEF ThreadBlockCurrent, TypeOK, Positions, States, lists
  <1>4. PositionInv'
    BY <1>1, <1>2 DEF ThreadBlockCurrent, TypeOK, PositionInv, ParkedAt, Threads
  <1>5. ReaperInv'
    BY <1>1, <1>2 DEF ThreadBlockCurrent, TypeOK, ReaperInv, lists
  <1>6. ListInv'
    BY <1>1, <1>2 DEF ThreadBlockCurrent, ListInv, lists
  <1> QED BY <1>3, <1>4, <1>5, <1>6

LEMMA BlockReturnInv ==
  ASSUME IndInv, NEW t \in Threads, BlockReturn(t)
  PROVE  IndInv'
  <1> USE ThreadAssumption DEF IndInv
  <1>1. TypeOK'
    BY DEF BlockReturn, TypeOK, Positions, lists, clock
  <1>2. PositionInv'
    BY DEF BlockReturn, TypeOK, PositionInv, ParkedAt, Threads
  <1>3. ReaperInv' /\ ListInv'
    BY DEF BlockReturn, ReaperInv, ListInv, lists
  <1> QED BY <1>1, <1>2, <1>3

LEMMA PreemptionInitInv ==
  ASSUME IndInv, PreemptionInit
  PROVE  IndInv'
  <1> USE ThreadAssumption DEF IndInv
  <1>1. TypeOK'
    BY DEF PreemptionInit, TypeOK, lists
  <1>2. PositionInv'
    BY DEF PreemptionInit, InOwnCode, TypeOK, PositionInv, ParkedAt, Threads
  <1>3. ReaperInv' /\ ListInv'
    BY DEF PreemptionInit, ReaperInv, ListInv, lists
  <1> QED BY <1>1, <1>2, <1>3

LEMMA ThreadExitInv ==
  ASSUME IndInv, NEW t \in Threads, ThreadExit(t)
  PROVE  IndInv'
  <1> USE ThreadAssumption DEF IndInv
  <1>1. t = current /\ t # Idle /\ t # Boot /\ pc[t] = "run" /\ state[t] = "RUNNING"
    BY DEF ThreadExit, InThreadCode, InOwnCode, PositionInv, ParkedAt, TypeOK, States
  <1>2. /\ zombies' = Append(zombies, t) /\ ~ InList(t, zombies)
        /\ \A r \in Threads : reaping[r] # t
    BY <1>1 DEF ThreadExit, ReaperInv
  <1>3. /\ zombies' \in Seq(Threads) /\ NoDuplicates(zombies')
        /\ \A x : InList(x, zombies') <=> InList(x, zombies) \/ x = t
    BY <1>2, PushList DEF TypeOK, ListInv
  <1>4. \A v \in Threads : state'[v] = IF v = t THEN "ZOMBIE" ELSE state[v]
    BY DEF ThreadExit, TypeOK
  <1>5. TypeOK'
    BY <1>3 DEF ThreadExit, TypeOK, Positions, States
  <1>6. PositionInv'
    BY <1>1, <1>4 DEF ThreadExit, TypeOK, PositionInv, ParkedAt, Threads
  <1>7. ReaperInv'
    BY <1>1, <1>2, <1>3, <1>4 DEF ThreadExit, TypeOK, ReaperInv
  <1>8. ListInv'
    BY <1>1, <1>3, <1>4 DEF ThreadExit, ListInv
  <1> QED BY <1>5, <1>6, <1>7, <1>8

LEMMA ReapPopInv ==
  ASSUME IndInv, NEW t \in Threads, ReapPop(t)
  PROVE  IndInv'
  <1> USE ThreadAssumption DEF IndInv
  <1>1. t = current /\ pc[t] = "run" /\ state[t] = "RUNNING" /\ reaping[t] = None
    BY DEF ReapPop, InOwnCode, PositionInv, ParkedAt, TypeOK, States
  <1>2. /\ Head(zombies) \in Threads /\ InList(Head(zombies), zombies)
        /\ zombies' \in Seq(Threads) /\ NoDuplicates(zombies')
        /\ \A x : InList(x, zombies') <=> InList(x, zombies) /\ x # Head(zombies)
    BY PopList DEF ReapPop, TypeOK, ListInv
  <1>3. \A r \in Threads : reaping'[r] = IF r = t THEN Head(zombies) ELSE reaping[r]
    BY DEF ReapPop, TypeOK
  <1>4. state[Head(zombies)] = "ZOMBIE" /\ Head(zombies) # t /\ Head(zombies) # None
    BY <1>1, <1>2 DEF ReaperInv, Threads
  <1>5. TypeOK'
    BY <1>2 DEF ReapPop, TypeOK, Positions, clock
  <1>6. PositionInv'
    BY <1>1, <1>3, <1>4 DEF ReapPop, TypeOK, PositionInv, ParkedAt, Threads
  <1>7. ReaperInv'
    <2>1. UNCHANGED <<state, current>>
      BY DEF ReapPop
    <2>2. \A u \in Threads : state'[u] = "ZOMBIE" <=>
             InList(u, zombies') \/ \E r \in Threads : reaping'[r] = u
      BY <1>1, <1>2, <1>3, <1>4, <2>1 DEF ReaperInv
    <2>3. \A r \in Threads : ~ InList(reaping'[r], zombies') /\ reaping'[r] # current
      BY <1>1, <1>2, <1>3, <1>4 DEF ReaperInv
    <2>4. \A r, q \in Threads :
             reaping'[r] = reaping'[q] /\ reaping'[r] # None => r = q
      BY <1>2, <1>3 DEF ReaperInv
    <2> QED BY <2>1, <2>2, <2>3, <2>4 DEF ReaperInv
  <1>8. ListInv'
    BY <1>2 DEF ReapPop, ListInv
  <1> QED BY <1>5, <1>6, <1>7, <1>8

LEMMA ReapFreeInv ==
  ASSUME IndInv, NEW t \in Threads, ReapFree(t)
  PROVE  IndInv'
  <1> USE ThreadAssumption DEF IndInv
  <1> DEFINE z == reaping[t]
  <1>1. t = current /\ pc[t] = "reaping" /\ z \in Threads /\ z # current /\ z # None
    BY DEF ReapFree, TypeOK, PositionInv, ReaperInv
  <1>2. state[t] = "RUNNING"
    BY <1>1 DEF PositionInv, ParkedAt, TypeOK, States
  <1>3. state[z] = "ZOMBIE" /\ ~ InList(z, zombies) /\ z # Boot /\ z # Idle
    BY <1>1 DEF ReaperInv, PositionInv
  <1>4. /\ \A u \in Threads : state'[u] = IF u = z THEN "FREE" ELSE state[u]
        /\ \A r \in Threads : reaping'[r] = IF r = t THEN None ELSE reaping[r]
        /\ UNCHANGED <<current, zombies, ready, sleepers>>
    BY <1>1 DEF ReapFree, TypeOK, lists
  <1>5. TypeOK'
    BY <1>1 DEF ReapFree, TypeOK, Positions, States, lists, clock
  <1> HIDE DEF z
  <1>6. PositionInv'
    BY <1>1, <1>2, <1>3, <1>4, SMTT(30) DEF ReapFree, TypeOK, PositionInv, ParkedAt, Threads
  <1>7. ReaperInv'
    <2>1. \A r \in Threads : reaping[r] = z => r = t
      BY <1>1 DEF ReaperInv, z
    <2>2. \A u \in Threads : state'[u] = "ZOMBIE" <=>
             InList(u, zombies) \/ \E r \in Threads : reaping'[r] = u
      BY <1>1, <1>3, <1>4, <2>1 DEF ReaperInv, Threads, z
    <2>3. ~ InList(None, zombies)
      BY DEF InList, TypeOK
    <2>4. \A r \in Threads : ~ InList(reaping'[r], zombies) /\ reaping'[r] # current
      BY <1>4, <2>3 DEF ReaperInv, TypeOK
    <2>5. \A r, q \in Threads :
             reaping'[r] = reaping'[q] /\ reaping'[r] # None => r = q
      BY <1>4 DEF ReaperInv
    <2> QED BY <1>4, <2>2, <2>4, <2>5 DEF ReaperInv
  <1>8. ListInv'
    BY <1>3, <1>4 DEF ListInv
  <1> QED BY <1>5, <1>6, <1>7, <1>8

LEMMA ThreadSleepTicksInv ==
  ASSUME IndInv, NEW t \in Threads, NEW d \in SleepDurations, ThreadSleepTicks(t, d)
  PROVE  IndInv'
  <1> USE ThreadAssumption DEF IndInv
  <1> DEFINE w == TickAdd(ticks, d)
  <1>1. t = current /\ t # Idle /\ pc[t] = "run" /\ state[t] = "RUNNING"
    BY DEF ThreadSleepTicks, InThreadCode, InOwnCode, PositionInv, ParkedAt, TypeOK, States
  <1>2. w \in 0..(TickMod - 1) /\ d \in Nat
    BY TickAssumption DEF TickAdd, TypeOK
  <1>3. PICK i \in 1..(Len(sleepers) + 1) : sleepers' = InsertAt(sleepers, i, t)
    BY DEF ThreadSleepTicks, sleep_insert
  <1>4. sleepers \in Seq(Threads) /\ NoDuplicates(sleepers) /\ ~ InList(t, sleepers)
    BY <1>1 DEF TypeOK, ListInv
  <1>5. /\ sleepers' \in Seq(Threads) /\ NoDuplicates(sleepers')
        /\ \A x : InList(x, sleepers') <=> InList(x, sleepers) \/ x = t
    BY <1>3, <1>4, InsertList
  <1>6. /\ state' = [state EXCEPT ![t] = "SLEEPING"]
        /\ wake_tick' = [wake_tick EXCEPT ![t] = w]
        /\ pc' = [pc EXCEPT ![t] = "slept"] /\ due' = [due EXCEPT ![t] = d]
        /\ resched' = TRUE
        /\ UNCHANGED <<iflag, reaping, current, ready, zombies, ticks, slice, preempt>>
    BY DEF ThreadSleepTicks
  <1> HIDE DEF w
  <1>7. \A v \in Threads : state'[v] = IF v = t THEN "SLEEPING" ELSE state[v]
    BY <1>6 DEF TypeOK
  <1>8. TypeOK'
    BY <1>2, <1>5, <1>6 DEF TypeOK, Positions, States
  <1>9. PositionInv'
    BY <1>1, <1>6, <1>7 DEF TypeOK, PositionInv, ParkedAt, Threads
  <1>10. ReaperInv'
    BY <1>1, <1>6, <1>7 DEF TypeOK, ReaperInv
  <1>11. ListInv'
    BY <1>1, <1>5, <1>6, <1>7 DEF ListInv
  <1> QED BY <1>8, <1>9, <1>10, <1>11

LEMMA TimerTickInv ==
  ASSUME IndInv, TimerTick
  PROVE  IndInv'
  <1> USE ThreadAssumption DEF IndInv
  <1>1. PICK n \in 0..Len(sleepers) :
          LET woken == {sleepers[i] : i \in 1..n}
              st == [t \in Threads |-> IF t \in woken THEN "READY" ELSE state[t]]
              rq == ready \o SubSeq(sleepers, 1, n)
              request == resched \/ n > 0 \/ SliceUsed(rq) >= TicksPerSlice
          IN /\ DueHeads(TickAdd(ticks, 1), n)
             /\ sleepers' = SubSeq(sleepers, n + 1, Len(sleepers))
             /\ \/ request /\ Schedule(st, rq)
                \/ /\ ~ request
                   /\ state' = st /\ ready' = rq /\ current' = current
                   /\ slice' = SliceUsed(rq) /\ resched' = resched
    BY Zenon DEF TimerTick
  <1> DEFINE woken == {sleepers[i] : i \in 1..n}
             st == [t \in Threads |-> IF t \in woken THEN "READY" ELSE state[t]]
             rq == ready \o SubSeq(sleepers, 1, n)
  <1>2. /\ sleepers \in Seq(Threads) /\ ready \in Seq(Threads)
        /\ NoDuplicates(sleepers) /\ NoDuplicates(ready)
        /\ \A x : ~ (InList(x, sleepers) /\ InList(x, ready))
    <2>1. ASSUME NEW x, InList(x, sleepers) PROVE x \in Threads
      BY <2>1 DEF InList, TypeOK
    <2> QED BY <2>1 DEF TypeOK, ListInv
  <1>3. /\ rq \in Seq(Threads) /\ NoDuplicates(rq)
        /\ \A x : InList(x, rq) <=> InList(x, ready) \/ x \in woken
        /\ sleepers' \in Seq(Threads) /\ NoDuplicates(sleepers')
        /\ \A x : InList(x, sleepers') <=> InList(x, sleepers) /\ x \notin woken
    BY <1>1, <1>2, MoveHeads
  <1>4. \A t \in Threads : t \in woken => state[t] = "SLEEPING"
    <2>1. \A i \in 1..n : InList(sleepers[i], sleepers)
      BY <1>2 DEF InList
    <2> QED BY <2>1 DEF ListInv
  <1>5. /\ UNCHANGED <<wake_tick, pc, iflag, reaping, zombies, preempt>>
        /\ ticks' = TickAdd(ticks, 1)
        /\ due' = [t \in Threads |->
                     IF state[t] = "SLEEPING" /\ due[t] > 0 THEN due[t] - 1 ELSE due[t]]
        /\ iflag[current]
    BY DEF TimerTick
  <1>6. ticks' \in 0..(TickMod - 1)
    BY <1>5, TickAssumption DEF TypeOK, TickAdd
  <1>7. due' \in [Threads -> Nat]
    BY <1>5 DEF TypeOK
  <1>8. CASE Schedule(st, rq)
    <2> HIDE DEF rq, woken
    <2>1. /\ st \in [Threads -> States]
          /\ \A t \in Threads : st[t] = IF t \in woken THEN "READY" ELSE state[t]
      BY DEF TypeOK, States
    <2> HIDE DEF st
    <2>2. /\ \A t \in Threads : InList(t, rq) <=> st[t] = "READY"
          /\ \A t \in Threads : st[t] = "RUNNING" => t = current \/ t = Idle
          /\ \A t \in Threads : InList(t, sleepers') <=> st[t] = "SLEEPING"
          /\ \A t \in Threads : st[t] = "ZOMBIE" <=> state[t] = "ZOMBIE"
      BY <1>3, <1>4, <2>1 DEF ListInv, PositionInv
    <2>3. Idle \in Threads /\ Boot \in Threads /\ current \in Threads
      BY DEF Threads, TypeOK
    <2>4. /\ st[Idle] \in {"NEW", "RUNNING"}
          /\ current = Idle => st[Idle] = "RUNNING"
          /\ st[Boot] \notin {"FREE", "NEW", "ZOMBIE"}
      BY <1>4, <2>1, <2>3 DEF PositionInv
    <2>5. TakenBySchedule(st, rq)
      BY <1>3, <1>8, <2>1, <2>2, <2>3, <2>4, ScheduleEffect DEF TakenBySchedule
    <2>6. \A t \in Threads : ParkedAt(state, pc, t)
      BY <1>5 DEF PositionInv, TypeOK
    <2>7. \A t \in Threads : ParkedAt(st, pc', t)
      BY <1>4, <1>5, <2>1, <2>6 DEF ParkedAt
    <2>8. PositionInv' /\ ReaperInv' /\ ListInv'
      <3>1. /\ zombies' = zombies /\ reaping' = reaping /\ NoDuplicates(zombies)
            /\ pc'[Idle] \in {"run", "reaping"}
            /\ \A t \in Threads : pc'[t] = "blocked" => ~ iflag'[t]
            /\ \A t \in Threads : pc'[t] = "reaping" <=> reaping[t] # None
        BY <1>5 DEF PositionInv, ListInv
      <3> QED BY <1>3, <2>1, <2>2, <2>4, <2>5, <2>7, <3>1, AfterSchedule
    <2>9. TypeOK'
      BY <1>3, <1>5, <1>6, <1>7, <2>5 DEF TypeOK, TakenBySchedule
    <2> QED BY <2>8, <2>9
  <1>9. CASE /\ ~ (n > 0)
             /\ state' = st /\ ready' = rq /\ current' = current
             /\ slice' = SliceUsed(rq) /\ resched' = resched
    <2>1. woken = {}
      BY <1>1, <1>9
    <2> HIDE DEF rq, woken
    <2>2. state' = state /\ current' = current
      BY <1>9, <2>1 DEF TypeOK
    <2>3. ready' \in Seq(Threads) /\ ListInv'
      BY <1>3, <1>5, <1>9, <2>1, <2>2 DEF ListInv
    <2>4. slice' \in Nat
      BY <1>9 DEF SliceUsed, TypeOK
    <2>5. TypeOK'
      BY <1>3, <1>5, <1>6, <1>7, <1>9, <2>2, <2>3, <2>4 DEF TypeOK
    <2>6. PositionInv' /\ ReaperInv'
      BY <1>5, <2>2 DEF PositionInv, ReaperInv, ParkedAt
    <2> QED BY <2>3, <2>5, <2>6
  <1> QED BY <1>1, <1>8, <1>9

LEMMA InitInv == Init => IndInv
  <1> USE ThreadAssumption, TickAssumption
  <1> SUFFICES ASSUME Init PROVE IndInv
    OBVIOUS
  <1>1. \A x : ~ InList(x, <<>>)
    BY DEF InList
  <1>2. NoDuplicates(<<>>)
    BY DEF NoDuplicates
  <1>3. TypeOK
    <2>1. \A t \in Threads : state[t] \in States
      BY DEF Init, States
    <2>2. state \in [Threads -> States]
      BY <2>1 DEF Init
    <2>3. iflag \in [Threads -> BOOLEAN]
      BY Zenon DEF Init
    <2>4. /\ ready \in Seq(Threads) /\ sleepers \in Seq(Threads)
          /\ zombies \in Seq(Threads)
      BY DEF Init
    <2>5. /\ wake_tick \in [Threads -> 0..(TickMod - 1)] /\ ticks \in 0..(TickMod - 1)
          /\ due \in [Threads -> Nat] /\ slice \in Nat
      BY DEF Init
    <2>6. /\ pc \in [Threads -> Positions] /\ reaping \in [Threads -> Threads \cup {None}]
          /\ current \in Threads /\ resched \in BOOLEAN /\ preempt \in BOOLEAN
      BY DEF Init, Positions, Threads
    <2> QED BY <2>2, <2>3, <2>4, <2>5, <2>6 DEF TypeOK
  <1>4. PositionInv
    BY DEF Init, PositionInv, ParkedAt, Threads
  <1>5. ReaperInv /\ ListInv
    BY <1>1, <1>2 DEF Init, ReaperInv, ListInv, Threads
  <1> QED BY <1>3, <1>4, <1>5 DEF IndInv

LEMMA NextInv == IndInv /\ [Next]_vars => IndInv'
  <1> SUFFICES ASSUME IndInv, [Next]_vars PROVE IndInv'
    OBVIOUS
  <1>1. ASSUME NEW t \in Threads, ThreadStep(t) PROVE IndInv'
    BY <1>1, ThreadCreateInv, ThreadStartInv, ThreadYieldInv, ThreadSleepTicksInv,
       SleepYieldInv, ThreadBlockCurrentInv, BlockYieldInv, BlockReturnInv,
       ThreadExitInv, ExitYieldInv, ReapPopInv, ReapFreeInv DEF ThreadStep
  <1>2. ASSUME NEW u \in Threads, ThreadWake(u) PROVE IndInv'
    BY <1>2, ThreadWakeInv
  <1>3. CASE PreemptionInit
    BY <1>3, PreemptionInitInv
  <1>4. CASE TimerTick
    BY <1>4, TimerTickInv
  <1>5. CASE UNCHANGED vars
    BY <1>5 DEF vars, lists, clock, IndInv, TypeOK, PositionInv, ParkedAt, ReaperInv, ListInv
  <1> QED BY <1>1, <1>2, <1>3, <1>4, <1>5 DEF Next

(* The inductive invariant holds in every reachable state.                 *)
THEOREM Inductive == Spec => []IndInv
  BY InitInv, NextInv, PTL DEF Spec

(* Every variable keeps its type, for any number of threads and any width  *)
(* of the tick counter.                                                    *)
THEOREM TypeCorrect == Spec => []TypeOK
  BY Inductive, PTL DEF IndInv

(* ListsMatchStates: thread.c's three intrusive lists and thread->state    *)
(* never disagree, and no thread is linked twice.                          *)
THEOREM ListsAlwaysMatch == Spec => []ListsMatchStates
  <1>1. IndInv => ListsMatchStates
    BY DEF IndInv, TypeOK, ReaperInv, ListInv, ListsMatchStates
  <1> QED BY <1>1, Inductive, PTL

(* CurrentIsRunning: the panics of thread_block_current and thread_exit    *)
(* that guard against a wrong current_thread are unreachable.              *)
THEOREM CurrentAlwaysRunning == Spec => []CurrentIsRunning
  <1>1. IndInv => CurrentIsRunning
    <2> SUFFICES ASSUME IndInv PROVE CurrentIsRunning
      OBVIOUS
    <2> USE DEF IndInv
    <2>1. \A t \in Threads \ {Idle} : state[t] = "RUNNING" => t = current
      BY DEF PositionInv
    <2>2. /\ current \in Threads /\ state[current] \in States /\ pc[current] \in Positions
          /\ InList(current, sleepers) <=> state[current] = "SLEEPING"
          /\ state[current] \notin {"FREE", "NEW", "READY"}
          /\ state[current] = "SLEEPING" => pc[current] = "slept"
          /\ state[current] = "BLOCKED" => pc[current] = "blocked"
          /\ state[current] = "BLOCKED" \/ ParkedAt(state, pc, current)
      BY DEF PositionInv, TypeOK, ListInv
    <2>3. CASE state[current] = "BLOCKED"
      BY <2>1, <2>2, <2>3 DEF CurrentIsRunning
    <2>4. CASE state[current] = "ZOMBIE"
      BY <2>1, <2>2, <2>4 DEF CurrentIsRunning, ParkedAt
    <2>5. CASE state[current] = "SLEEPING"
      BY <2>1, <2>2, <2>5 DEF CurrentIsRunning
    <2>6. CASE state[current] = "RUNNING"
      BY <2>1, <2>2, <2>6 DEF CurrentIsRunning, ParkedAt
    <2> QED BY <2>2, <2>3, <2>4, <2>5, <2>6 DEF States
  <1> QED BY <1>1, Inductive, PTL

(* ReaperHoldsDeadStack: thread_reap_zombies frees only stacks the CPU has *)
(* left for good.                                                          *)
THEOREM ReaperAlwaysSafe == Spec => []ReaperHoldsDeadStack
  <1>1. IndInv => ReaperHoldsDeadStack
    <2> SUFFICES ASSUME IndInv, NEW r \in Threads, reaping[r] # None
                 PROVE  /\ reaping[r] # current /\ reaping[r] # r
                        /\ state[reaping[r]] = "ZOMBIE" /\ pc[reaping[r]] = "exited"
      BY DEF ReaperHoldsDeadStack
    <2>1. reaping[r] \in Threads /\ state[reaping[r]] = "ZOMBIE"
      BY DEF IndInv, TypeOK, ReaperInv
    <2>2. pc[reaping[r]] = "exited" /\ pc[r] = "reaping"
      BY <2>1 DEF IndInv, PositionInv, ParkedAt
    <2> QED BY <2>1, <2>2 DEF IndInv, ReaperInv
  <1> QED BY <1>1, Inductive, PTL

-----------------------------------------------------------------------------
(* The timer interrupt: what TimerTick does, in terms of n, the number of  *)
(* sleepers it wakes.                                                      *)
LEMMA TickEffect ==
  ASSUME IndInv, TimerTick
  PROVE  \E n \in 0..Len(sleepers) :
           /\ DueHeads(TickAdd(ticks, 1), n)
           /\ Len(sleepers') = Len(sleepers) - n
           /\ \A i \in 1..(Len(sleepers) - n) : sleepers'[i] = sleepers[n + i]
           /\ \A t \in Threads : state[t] = "SLEEPING" =>
                (state'[t] = "SLEEPING" <=> t \notin {sleepers[i] : i \in 1..n})
           /\ \A t \in Threads : state'[t] = "SLEEPING" => state[t] = "SLEEPING"
           /\ \A t \in Threads : state[t] = "ZOMBIE" =>
                /\ state'[t] = "ZOMBIE"
                /\ current' = t => current = t
  <1> USE ThreadAssumption
  <1>0. PICK n \in 0..Len(sleepers) :
          LET woken == {sleepers[i] : i \in 1..n}
              st == [t \in Threads |-> IF t \in woken THEN "READY" ELSE state[t]]
              rq == ready \o SubSeq(sleepers, 1, n)
              request == resched \/ n > 0 \/ SliceUsed(rq) >= TicksPerSlice
          IN /\ DueHeads(TickAdd(ticks, 1), n)
             /\ sleepers' = SubSeq(sleepers, n + 1, Len(sleepers))
             /\ \/ request /\ Schedule(st, rq)
                \/ /\ ~ request
                   /\ state' = st /\ ready' = rq /\ current' = current
                   /\ slice' = SliceUsed(rq) /\ resched' = resched
    BY Zenon DEF TimerTick
  <1> DEFINE woken == {sleepers[i] : i \in 1..n}
  <1>1. IndInv'
    BY TimerTickInv
  <1>2. /\ sleepers \in Seq(Threads) /\ ready \in Seq(Threads)
        /\ NoDuplicates(sleepers) /\ NoDuplicates(ready)
        /\ \A x : ~ (InList(x, sleepers) /\ InList(x, ready))
    <2>1. ASSUME NEW x, InList(x, sleepers) PROVE x \in Threads
      BY <2>1 DEF InList, IndInv, TypeOK
    <2> QED BY <2>1 DEF IndInv, TypeOK, ListInv
  <1>3. /\ Len(sleepers') = Len(sleepers) - n
        /\ \A i \in 1..(Len(sleepers) - n) : sleepers'[i] = sleepers[n + i]
        /\ \A x : InList(x, sleepers') <=> InList(x, sleepers) /\ x \notin woken
    <2>1. sleepers' = SubSeq(sleepers, n + 1, Len(sleepers))
      BY <1>0
    <2>2. PICK rest : rest = SubSeq(sleepers, n + 1, Len(sleepers))
      OBVIOUS
    <2>3. \A i \in 1..(Len(sleepers) - n) : rest[i] = sleepers[n + i]
      BY ONLY <1>2, <2>2, n \in 0..Len(sleepers)
    <2>4. Len(rest) = Len(sleepers) - n
      BY ONLY <1>2, <2>2, n \in 0..Len(sleepers)
    <2>5. \A x : InList(x, rest) <=> InList(x, sleepers) /\ x \notin woken
      BY ONLY <1>2, <2>2, n \in 0..Len(sleepers), MoveHeads
    <2> QED BY <2>1, <2>2, <2>3, <2>4, <2>5
  <1> HIDE DEF woken
  <1>4. \A t \in Threads : /\ InList(t, sleepers) <=> state[t] = "SLEEPING"
                           /\ InList(t, sleepers') <=> state'[t] = "SLEEPING"
    BY <1>1 DEF IndInv, ListInv
  <1>5. ASSUME NEW t \in Threads, state[t] = "ZOMBIE"
        PROVE  state'[t] = "ZOMBIE" /\ (current' = t => current = t)
    <2>1. /\ zombies' = zombies /\ reaping' = reaping
      BY DEF TimerTick
    <2>2. state'[t] = "ZOMBIE"
      BY <1>1, <1>5, <2>1 DEF IndInv, ReaperInv
    <2>3. state'[current'] = "RUNNING" \/ current' = current
      BY <1>0, <1>1 DEF Schedule, SwitchTo, IndInv, TypeOK
    <2> QED BY <2>2, <2>3
  <1> QED BY <1>0, <1>3, <1>4, <1>5 DEF woken

ZombieStays ==
  \A t \in Threads : state[t] = "ZOMBIE" =>
    /\ state'[t] \in {"ZOMBIE", "FREE"}
    /\ current' = t => current = t

LEMMA ZombieStep == IndInv /\ [Next]_vars => ZombieStays
  <1> SUFFICES ASSUME IndInv, [Next]_vars PROVE ZombieStays
    OBVIOUS
  <1> USE ThreadAssumption
  <1>1. ASSUME Schedule(state, ready) PROVE ZombieStays
    <2>1. TakenBySchedule(state, ready)
      BY <1>1, ScheduleHere
    <2>2. state[Idle] # "ZOMBIE"
      BY DEF IndInv, PositionInv
    <2> QED BY <2>1, <2>2 DEF TakenBySchedule, ZombieStays
  <1>2. ASSUME current' = current,
               NEW u \in Threads, NEW x \in States,
               state' = [state EXCEPT ![u] = x], state[u] # "ZOMBIE" \/ x = "FREE"
        PROVE  ZombieStays
    BY <1>2 DEF ZombieStays, IndInv, TypeOK
  <1>3. ASSUME NEW t \in Threads, ThreadStep(t) PROVE ZombieStays
    <2>1. CASE \E u \in Thread, e \in BOOLEAN : ThreadCreate(t, u, e)
      <3>1. PICK u \in Thread, e \in BOOLEAN : ThreadCreate(t, u, e)
        BY <2>1
      <3>2. \/ state' = [state EXCEPT ![u] = "READY"]
            \/ state' = [state EXCEPT ![u] = "NEW"]
        BY <3>1 DEF ThreadCreate
      <3>3. current' = current /\ state[u] = "FREE"
        BY <3>1 DEF ThreadCreate
      <3> QED BY <1>2, <3>2, <3>3 DEF States, Threads
    <2>2. CASE \E u \in Thread : ThreadStart(t, u)
      BY <1>2, <2>2 DEF ThreadStart, States, Threads
    <2>3. CASE ThreadYield(t) \/ SleepYield(t) \/ BlockYield(t) \/ ExitYield(t)
      BY <1>1, <2>3 DEF ThreadYield, SleepYield, BlockYield, ExitYield
    <2>4. CASE InThreadCode(t) /\ ((\E d \in SleepDurations : ThreadSleepTicks(t, d))
                                   \/ ThreadBlockCurrent(t) \/ ThreadExit(t))
      <3>1. state[t] # "ZOMBIE"
        BY <2>4 DEF InThreadCode, InOwnCode, IndInv, PositionInv, ParkedAt
      <3>2. /\ current' = current
            /\ \/ state' = [state EXCEPT ![t] = "SLEEPING"]
               \/ state' = [state EXCEPT ![t] = "BLOCKED"]
               \/ state' = [state EXCEPT ![t] = "ZOMBIE"]
        BY <2>4 DEF ThreadSleepTicks, ThreadBlockCurrent, ThreadExit
      <3> QED BY <1>2, <3>1, <3>2 DEF States
    <2>5. CASE BlockReturn(t) \/ ReapPop(t)
      BY <2>5 DEF BlockReturn, ReapPop, ZombieStays
    <2>6. CASE ReapFree(t)
      <3>1. reaping[t] \in Threads
        BY <2>6 DEF ReapFree, IndInv, TypeOK, PositionInv
      <3> QED BY <1>2, <2>6, <3>1 DEF ReapFree, States
    <2> QED BY <1>3, <2>1, <2>2, <2>3, <2>4, <2>5, <2>6
            DEF ThreadStep, ThreadSleepTicks, ThreadBlockCurrent, ThreadExit
  <1>4. ASSUME NEW u \in Threads, ThreadWake(u) PROVE ZombieStays
    BY <1>2, <1>4 DEF ThreadWake, States
  <1>5. CASE PreemptionInit
    BY <1>5 DEF PreemptionInit, ZombieStays
  <1>6. CASE TimerTick
    BY <1>6, TickEffect DEF ZombieStays
  <1>7. CASE UNCHANGED vars
    BY <1>7 DEF vars, ZombieStays
  <1> QED BY <1>3, <1>4, <1>5, <1>6, <1>7 DEF Next

(* ExitIsFinal: a thread that called thread_exit is never dispatched again *)
(* and leaves ZOMBIE only by being freed.                                  *)
THEOREM ExitAlwaysFinal == Spec => ExitIsFinal
  <1>1. IndInv /\ [Next]_vars => [ZombieStays]_vars
    BY ZombieStep
  <1> QED BY <1>1, Inductive, PTL DEF Spec, ExitIsFinal, ZombieStays

-----------------------------------------------------------------------------
(* Sleeping.  No argument of thread_sleep_ticks exceeds half the range of  *)
(* the counter, the largest distance a signed comparison can order.        *)
ShortSleeps == \A d \in SleepDurations : 2 * d <= TickMod

(* Two wake-up ticks at distances a and b from now compare as a and b do.  *)
LEMMA ReachedIsOrder ==
  ASSUME NEW k \in 0..(TickMod - 1), NEW a \in Nat, NEW b \in Nat,
         a > 0, b > 0, 2 * a <= TickMod, 2 * b <= TickMod
  PROVE  tick_reached(TickAdd(k, a), TickAdd(k, b)) <=> b <= a
  BY TickAssumption DEF tick_reached, TickAdd, TickSub

(* One tick later a sleeper at distance a is due iff a is 1.               *)
LEMMA ReachedIsLast ==
  ASSUME NEW k \in 0..(TickMod - 1), NEW a \in Nat, a > 0, 2 * a <= TickMod
  PROVE  /\ tick_reached(TickAdd(k, 1), TickAdd(k, a)) <=> a = 1
         /\ a > 1 => TickAdd(TickAdd(k, 1), a - 1) = TickAdd(k, a)
  BY TickAssumption DEF tick_reached, TickAdd, TickSub

(* wake_tick of a sleeper is the tick at which its remaining ticks have    *)
(* passed, and the list is ordered by remaining ticks.                     *)
SleeperOK(t) ==
  /\ due[t] > 0 /\ 2 * due[t] <= TickMod
  /\ wake_tick[t] = TickAdd(ticks, due[t])

SleepInv ==
  /\ \A t \in Threads : state[t] = "SLEEPING" => SleeperOK(t)
  /\ \A i, j \in 1..Len(sleepers) : i <= j => due[sleepers[i]] <= due[sleepers[j]]

WakesWhenDue ==
  \A t \in Threads : state[t] = "SLEEPING" => (state'[t] = "SLEEPING" <=> due'[t] > 0)

LEMMA SleeperFacts ==
  ASSUME IndInv, SleepInv, NEW i \in 1..Len(sleepers)
  PROVE  /\ sleepers[i] \in Threads /\ state[sleepers[i]] = "SLEEPING"
         /\ due[sleepers[i]] \in Nat
         /\ SleeperOK(sleepers[i])
  <1>1. sleepers[i] \in Threads /\ InList(sleepers[i], sleepers)
    BY DEF IndInv, TypeOK, InList
  <1> QED BY <1>1 DEF IndInv, TypeOK, ListInv, SleepInv

(* sleep_insert keeps the list ordered.                                    *)
LEMMA SleepInsertInv ==
  ASSUME IndInv, SleepInv, ShortSleeps, NEW t \in Threads, NEW d \in SleepDurations,
         ThreadSleepTicks(t, d)
  PROVE  SleepInv' /\ WakesWhenDue
  <1> DEFINE w == TickAdd(ticks, d)
  <1>1. d \in Nat /\ d > 0 /\ 2 * d <= TickMod /\ ticks \in 0..(TickMod - 1)
    BY TickAssumption DEF ShortSleeps, IndInv, TypeOK
  <1>2. state[t] # "SLEEPING" /\ ~ InList(t, sleepers)
    BY DEF ThreadSleepTicks, InThreadCode, InOwnCode, IndInv, PositionInv, ListInv
  <1>3. PICK k \in 1..(Len(sleepers) + 1) :
          /\ \A j \in 1..(k - 1) : ~ tick_reached(wake_tick[sleepers[j]], w)
          /\ k <= Len(sleepers) => tick_reached(wake_tick[sleepers[k]], w)
          /\ sleepers' = InsertAt(sleepers, k, t)
    BY DEF ThreadSleepTicks, sleep_insert
  <1>4. /\ Len(sleepers') = Len(sleepers) + 1 /\ Len(sleepers) \in Nat
        /\ \A i \in 1..(Len(sleepers) + 1) :
             sleepers'[i] = IF i < k THEN sleepers[i]
                            ELSE IF i = k THEN t ELSE sleepers[i - 1]
    <2>1. sleepers \in Seq(Threads) /\ NoDuplicates(sleepers)
      BY DEF IndInv, TypeOK, ListInv
    <2> QED BY <1>2, <1>3, <2>1, InsertList
  <1>5. /\ \A v \in Threads : due'[v] = IF v = t THEN d ELSE due[v]
        /\ \A v \in Threads : wake_tick'[v] = IF v = t THEN w ELSE wake_tick[v]
        /\ \A v \in Threads : state'[v] = IF v = t THEN "SLEEPING" ELSE state[v]
        /\ ticks' = ticks
    BY DEF ThreadSleepTicks, IndInv, TypeOK
  <1>6. \A v \in Threads : state'[v] = "SLEEPING" => SleeperOK(v)'
    BY <1>1, <1>2, <1>5 DEF SleepInv, SleeperOK
  <1>7. ASSUME NEW j \in 1..Len(sleepers)
        PROVE  /\ due'[sleepers[j]] = due[sleepers[j]] /\ due[sleepers[j]] \in Nat
               /\ tick_reached(wake_tick[sleepers[j]], w) <=> d <= due[sleepers[j]]
    <2>1. /\ sleepers[j] \in Threads /\ due[sleepers[j]] \in Nat
          /\ state[sleepers[j]] = "SLEEPING" /\ SleeperOK(sleepers[j])
      BY SleeperFacts
    <2> QED BY <1>1, <1>2, <1>5, <2>1, ReachedIsOrder DEF SleeperOK
  <1>8. /\ \A j \in 1..Len(sleepers) : j < k => due[sleepers[j]] < d
        /\ \A j \in 1..Len(sleepers) : j >= k => due[sleepers[j]] >= d
    <2>1. ASSUME NEW j \in 1..Len(sleepers), j < k PROVE due[sleepers[j]] < d
      BY <1>1, <1>3, <1>7, <2>1
    <2>2. ASSUME NEW j \in 1..Len(sleepers), j >= k PROVE due[sleepers[j]] >= d
      <3>1. k \in 1..Len(sleepers) /\ due[sleepers[k]] >= d
        BY <1>1, <1>3, <1>4, <1>7, <2>2
      <3>2. due[sleepers[k]] <= due[sleepers[j]]
        BY <2>2, <3>1 DEF SleepInv
      <3> QED BY <1>1, <1>7, <3>1, <3>2
    <2> QED BY <2>1, <2>2
  <1>9. \A i, j \in 1..Len(sleepers') : i <= j => due'[sleepers'[i]] <= due'[sleepers'[j]]
    <2> SUFFICES ASSUME NEW i \in 1..(Len(sleepers) + 1), NEW j \in 1..(Len(sleepers) + 1),
                        i <= j
                 PROVE  due'[sleepers'[i]] <= due'[sleepers'[j]]
      BY <1>4
    <2>1. \A m, n \in 1..Len(sleepers) : m <= n => due[sleepers[m]] <= due[sleepers[n]]
      BY DEF SleepInv
    <2>2. due'[t] = d
      BY <1>5
    <2>3. CASE j < k
      BY <1>1, <1>4, <1>7, <2>1, <2>3, SMTT(30)
    <2>4. CASE j = k
      BY <1>1, <1>4, <1>7, <1>8, <2>2, <2>4, SMTT(30)
    <2>5. CASE j > k
      <3>1. j - 1 \in 1..Len(sleepers) /\ sleepers'[j] = sleepers[j - 1] /\ j - 1 >= k
        BY <1>4, <2>5
      <3>2. CASE i < k
        BY <1>4, <1>7, <2>1, <3>1, <3>2
      <3>3. CASE i = k
        BY <1>4, <1>7, <1>8, <2>2, <3>1, <3>3
      <3>4. CASE i > k
        <4>1. i - 1 \in 1..Len(sleepers) /\ sleepers'[i] = sleepers[i - 1]
          BY <1>4, <3>4
        <4> QED BY <1>7, <2>1, <3>1, <4>1
      <3> QED BY <3>2, <3>3, <3>4
    <2> QED BY <2>3, <2>4, <2>5
  <1>10. WakesWhenDue
    BY <1>2, <1>5 DEF WakesWhenDue, SleepInv, SleeperOK
  <1> QED BY <1>6, <1>9, <1>10 DEF SleepInv

(* wake_due_sleepers wakes exactly the sleepers whose ticks have passed.   *)
LEMMA SleepTickInv ==
  ASSUME IndInv, SleepInv, TimerTick
  PROVE  SleepInv' /\ WakesWhenDue
  <1>1. PICK n \in 0..Len(sleepers) :
           /\ DueHeads(TickAdd(ticks, 1), n)
           /\ Len(sleepers') = Len(sleepers) - n
           /\ \A i \in 1..(Len(sleepers) - n) : sleepers'[i] = sleepers[n + i]
           /\ \A t \in Threads : state[t] = "SLEEPING" =>
                (state'[t] = "SLEEPING" <=> t \notin {sleepers[i] : i \in 1..n})
           /\ \A t \in Threads : state'[t] = "SLEEPING" => state[t] = "SLEEPING"
    BY TickEffect
  <1>2. Len(sleepers) \in Nat /\ n \in Nat /\ n <= Len(sleepers) /\ ticks \in 0..(TickMod - 1)
    BY DEF IndInv, TypeOK
  <1>3. /\ ticks' = TickAdd(ticks, 1) /\ wake_tick' = wake_tick
        /\ \A t \in Threads : due'[t] = IF state[t] = "SLEEPING" /\ due[t] > 0
                                        THEN due[t] - 1 ELSE due[t]
    BY DEF TimerTick
  <1>4. ASSUME NEW i \in 1..Len(sleepers)
        PROVE  /\ sleepers[i] \in Threads /\ due[sleepers[i]] \in Nat
               /\ due[sleepers[i]] > 0
               /\ due'[sleepers[i]] = due[sleepers[i]] - 1
               /\ tick_reached(TickAdd(ticks, 1), wake_tick[sleepers[i]]) <=>
                    due[sleepers[i]] = 1
    <2>1. /\ sleepers[i] \in Threads /\ due[sleepers[i]] \in Nat
          /\ state[sleepers[i]] = "SLEEPING" /\ SleeperOK(sleepers[i])
      BY SleeperFacts
    <2> QED BY <1>2, <1>3, <2>1, ReachedIsLast DEF SleeperOK
  <1>5. /\ \A i \in 1..n : due[sleepers[i]] = 1
        /\ \A i \in 1..Len(sleepers) : i > n => due[sleepers[i]] > 1
    <2>1. ASSUME NEW i \in 1..n PROVE due[sleepers[i]] = 1
      BY <1>1, <1>2, <1>4 DEF DueHeads
    <2>2. ASSUME NEW i \in 1..Len(sleepers), i > n PROVE due[sleepers[i]] > 1
      <3>1. n + 1 \in 1..Len(sleepers) /\ due[sleepers[n + 1]] > 1
        BY <1>1, <1>2, <1>4, <2>2 DEF DueHeads
      <3>2. due[sleepers[n + 1]] <= due[sleepers[i]]
        BY <1>2, <2>2, <3>1 DEF SleepInv
      <3> QED BY <1>2, <1>4, <3>1, <3>2
    <2> QED BY <2>1, <2>2
  <1>6. ASSUME NEW t \in Threads, state[t] = "SLEEPING"
        PROVE  /\ due'[t] = due[t] - 1 /\ due[t] \in Nat
               /\ state'[t] = "SLEEPING" <=> due[t] > 1
    <2>1. PICK i \in 1..Len(sleepers) : sleepers[i] = t
      BY <1>6 DEF IndInv, ListInv, InList
    <2>2. ASSUME i > n PROVE t \notin {sleepers[j] : j \in 1..n}
      BY <1>2, <1>5, <2>1, <2>2
    <2>3. ASSUME ~ (i > n) PROVE t \in {sleepers[j] : j \in 1..n}
      <3>1. i \in 1..n
        BY <1>2, <2>3
      <3> QED BY <2>1, <3>1
    <2>4. due[t] > 1 <=> i > n
      BY <1>2, <1>5, <2>1
    <2> QED BY <1>1, <1>4, <1>6, <2>1, <2>2, <2>3, <2>4
  <1>7. \A t \in Threads : state'[t] = "SLEEPING" => SleeperOK(t)'
    <2> SUFFICES ASSUME NEW t \in Threads, state'[t] = "SLEEPING" PROVE SleeperOK(t)'
      OBVIOUS
    <2>1. state[t] = "SLEEPING" /\ SleeperOK(t)
      BY <1>1 DEF SleepInv
    <2>2. due'[t] = due[t] - 1 /\ due[t] > 1 /\ due[t] \in Nat
      BY <1>6, <2>1
    <2>3. wake_tick[t] = TickAdd(ticks, due[t]) /\ 2 * due[t] <= TickMod
      BY <2>1 DEF SleeperOK
    <2>4. TickAdd(TickAdd(ticks, 1), due[t] - 1) = TickAdd(ticks, due[t])
      BY <1>2, <2>2, <2>3, ReachedIsLast
    <2>5. wake_tick'[t] = TickAdd(ticks', due'[t])
      BY <1>3, <2>2, <2>3, <2>4
    <2>6. due'[t] > 0 /\ 2 * due'[t] <= TickMod
      BY <2>2, <2>3, TickAssumption
    <2> QED BY <2>5, <2>6 DEF SleeperOK, TickAdd
  <1>8. \A i, j \in 1..Len(sleepers') : i <= j => due'[sleepers'[i]] <= due'[sleepers'[j]]
    <2> SUFFICES ASSUME NEW i \in 1..(Len(sleepers) - n), NEW j \in 1..(Len(sleepers) - n),
                        i <= j
                 PROVE  due'[sleepers'[i]] <= due'[sleepers'[j]]
      BY <1>1
    <2>1. n + i \in 1..Len(sleepers) /\ n + j \in 1..Len(sleepers) /\ n + i <= n + j
      BY <1>2
    <2>2. due[sleepers[n + i]] <= due[sleepers[n + j]]
      BY <2>1 DEF SleepInv
    <2> QED BY <1>1, <1>4, <2>1, <2>2, SMTT(30)
  <1>9. WakesWhenDue
    <2> SUFFICES ASSUME NEW t \in Threads, state[t] = "SLEEPING"
                 PROVE  state'[t] = "SLEEPING" <=> due'[t] > 0
      BY DEF WakesWhenDue
    <2> QED BY <1>6
  <1> QED BY <1>7, <1>8, <1>9 DEF SleepInv

LEMMA SleepStep ==
  ASSUME ShortSleeps
  PROVE  IndInv /\ SleepInv /\ [Next]_vars => SleepInv' /\ [WakesWhenDue]_vars
  <1> SUFFICES ASSUME IndInv, SleepInv, [Next]_vars PROVE SleepInv' /\ WakesWhenDue
    OBVIOUS
  <1>1. IndInv'
    BY NextInv
  <1>2. ASSUME UNCHANGED <<sleepers, due, ticks>>,
               \A t \in Threads : state[t] = "SLEEPING" => wake_tick'[t] = wake_tick[t]
        PROVE  SleepInv' /\ WakesWhenDue
    <2>1. \A t \in Threads : state'[t] = "SLEEPING" <=> state[t] = "SLEEPING"
      BY <1>1, <1>2 DEF IndInv, ListInv
    <2> QED BY <1>2, <2>1 DEF SleepInv, SleeperOK, WakesWhenDue
  <1>3. ASSUME NEW t \in Threads, ThreadStep(t) PROVE SleepInv' /\ WakesWhenDue
    <2>1. CASE \E d \in SleepDurations : ThreadSleepTicks(t, d)
      BY <2>1, SleepInsertInv
    <2>2. CASE \E u \in Thread, e \in BOOLEAN : ThreadCreate(t, u, e)
      <3>1. PICK u \in Thread, e \in BOOLEAN : ThreadCreate(t, u, e)
        BY <2>2
      <3>2. /\ wake_tick' = [wake_tick EXCEPT ![u] = 0] /\ state[u] = "FREE"
            /\ UNCHANGED <<sleepers, due, ticks>>
        BY <3>1 DEF ThreadCreate, clock
      <3> QED BY <1>2, <3>2 DEF IndInv, TypeOK
    <2>3. CASE UNCHANGED <<sleepers, due, ticks, wake_tick>>
      BY <1>2, <2>3
    <2> QED BY <1>3, <2>1, <2>2, <2>3
            DEF ThreadStep, ThreadStart, ThreadYield, SleepYield, ThreadBlockCurrent,
                BlockYield, BlockReturn, ThreadExit, ExitYield, ReapPop, ReapFree,
                lists, clock
  <1>4. ASSUME NEW u \in Threads, ThreadWake(u) PROVE SleepInv' /\ WakesWhenDue
    BY <1>2, <1>4 DEF ThreadWake
  <1>5. CASE PreemptionInit
    BY <1>2, <1>5 DEF PreemptionInit, lists
  <1>6. CASE TimerTick
    BY <1>6, SleepTickInv
  <1>7. CASE UNCHANGED vars
    BY <1>2, <1>7 DEF vars, lists, clock
  <1> QED BY <1>3, <1>4, <1>5, <1>6, <1>7 DEF Next

(* SleepsRequestedTicks, for every width of the tick counter and every     *)
(* number of sleepers: if no sleep is longer than half the range of        *)
(* scheduler_ticks, thread_sleep_ticks(d) lasts exactly d ticks, across    *)
(* any number of wraps.                                                    *)
THEOREM SleepAlwaysExact ==
  ASSUME ShortSleeps
  PROVE  Spec => SleepsRequestedTicks
  <1>1. Init => SleepInv
    BY ThreadAssumption DEF Init, SleepInv
  <1>2. IndInv /\ SleepInv /\ [Next]_vars => SleepInv' /\ [WakesWhenDue]_vars
    BY SleepStep
  <1> QED BY <1>1, <1>2, Inductive, PTL DEF Spec, SleepsRequestedTicks, WakesWhenDue

-----------------------------------------------------------------------------
(* Round robin.  The thread at place i of the list is dispatched, or it is *)
(* at that place or before it afterwards.                                  *)
Advances(rq, next, rq1) ==
  \A i \in 1..Len(rq) :
    \/ next = rq[i]
    \/ \E j \in 1..i : j <= Len(rq1) /\ rq1[j] = rq[i]
KeepsPlace == Advances(ready, current', ready')

(* Threads that are appended are behind all others, ...                    *)
LEMMA AppendedBehind ==
  ASSUME NEW S, NEW rq \in Seq(S), NEW more \in Seq(S)
  PROVE  /\ rq \o more \in Seq(S) /\ Len(rq) <= Len(rq \o more)
         /\ \A i \in 1..Len(rq) : (rq \o more)[i] = rq[i]
  OBVIOUS

LEMMA PushBehind ==
  ASSUME NEW S, NEW rq \in Seq(S), NEW t \in S, NEW next
  PROVE  Advances(rq, next, Append(rq, t))
  <1>1. Len(Append(rq, t)) = Len(rq) + 1 /\ \A i \in 1..Len(rq) : Append(rq, t)[i] = rq[i]
    OBVIOUS
  <1>2. ASSUME NEW i \in 1..Len(rq) PROVE i \in 1..i /\ i <= Len(rq) + 1
    OBVIOUS
  <1> QED BY <1>1, <1>2 DEF Advances

LEMMA SamePlaces ==
  ASSUME NEW S, NEW rq \in Seq(S), NEW next
  PROVE  Advances(rq, next, rq)
  <1>1. ASSUME NEW i \in 1..Len(rq) PROVE i \in 1..i /\ i <= Len(rq)
    OBVIOUS
  <1> QED BY <1>1 DEF Advances

(* ... and when the head leaves for the CPU every other thread moves up by *)
(* one place, whether or not the old thread is put behind them.            *)
LEMMA HeadLeaves ==
  ASSUME NEW S, NEW rq \in Seq(S), rq # <<>>, NEW rq1, NEW more \in Seq(S), rq1 = Tail(rq) \o more
  PROVE  Advances(rq, Head(rq), rq1)
  <1>1. PICK n \in Nat : n = Len(rq) /\ n > 0
    OBVIOUS
  <1>2. /\ Head(rq) = rq[1] /\ Tail(rq) \in Seq(S) /\ Len(Tail(rq)) = n - 1
        /\ \A j \in 1..(n - 1) : Tail(rq)[j] = rq[j + 1]
    BY <1>1
  <1>3. n - 1 <= Len(rq1) /\ \A j \in 1..(n - 1) : rq1[j] = Tail(rq)[j]
    BY <1>1, <1>2, AppendedBehind
  <1>4. ASSUME NEW i \in 1..n, i # 1
        PROVE  \E j \in 1..i : j <= Len(rq1) /\ rq1[j] = rq[i]
    <2>1. i - 1 \in 1..i /\ i - 1 \in 1..(n - 1) /\ (i - 1) + 1 = i
      BY <1>4
    <2>2. Len(rq1) \in Nat
      BY <1>2
    <2>3. i - 1 <= Len(rq1) /\ rq1[i - 1] = rq[i]
      BY <1>2, <1>3, <2>1, <2>2
    <2> QED BY <2>1, <2>3
  <1> QED BY <1>1, <1>2, <1>4 DEF Advances

(* A scheduler run on the ready list, behind which sleepers may have been  *)
(* put.                                                                    *)
LEMMA ScheduleAdvances ==
  ASSUME TypeOK, NEW st, NEW more \in Seq(Threads), Schedule(st, ready \o more)
  PROVE  KeepsPlace
  <1>1. PICK rq \in Seq(Threads) : rq = ready \o more
    BY AppendedBehind DEF TypeOK
  <1>2. ready \in Seq(Threads) /\ current \in Threads
    BY DEF TypeOK
  <1>3. Advances(rq, current', ready')
    <2>1. CASE rq = <<>>
      BY <2>1 DEF Advances
    <2>2. CASE rq # <<>>
      <3>1. current' = Head(rq) /\ (ready' = Append(Tail(rq), current) \/ ready' = Tail(rq))
        BY <1>1, <2>2 DEF Schedule, SwitchTo
      <3>2. Tail(rq) \in Seq(Threads)
        BY <2>2
      <3>3. PICK old \in Seq(Threads) : ready' = Tail(rq) \o old
        <4>1. CASE ready' = Append(Tail(rq), current)
          <5>1. <<current>> \in Seq(Threads) /\ Append(Tail(rq), current) = Tail(rq) \o <<current>>
            BY <1>2, <3>2
          <5> QED BY <4>1, <5>1
        <4>2. CASE ready' = Tail(rq)
          <5>1. <<>> \in Seq(Threads) /\ Tail(rq) = Tail(rq) \o <<>>
            BY <3>2
          <5> QED BY <4>2, <5>1
        <4> QED BY <3>1, <4>1, <4>2
      <3> QED BY <2>2, <3>1, <3>3, HeadLeaves
    <2> QED BY <2>1, <2>2
  <1>4. Len(ready) <= Len(rq) /\ \A i \in 1..Len(ready) : rq[i] = ready[i]
    BY <1>1, <1>2, AppendedBehind
  <1>5. \A i \in 1..Len(ready) : i \in 1..Len(rq)
    BY <1>2, <1>4
  <1> QED BY <1>3, <1>4, <1>5 DEF Advances, KeepsPlace

LEMMA YieldAdvances ==
  ASSUME TypeOK, Schedule(state, ready)
  PROVE  KeepsPlace
  <1>1. <<>> \in Seq(Threads) /\ ready \o <<>> = ready
    BY DEF TypeOK
  <1> QED BY <1>1, ScheduleAdvances

LEMMA TickAdvances ==
  ASSUME TypeOK, TimerTick
  PROVE  KeepsPlace
  <1>1. PICK n \in 0..Len(sleepers) :
          \/ \E st : Schedule(st, ready \o SubSeq(sleepers, 1, n))
          \/ ready' = ready \o SubSeq(sleepers, 1, n)
    <2> DEFINE Woken(n) == [t \in Threads |-> IF t \in {sleepers[i] : i \in 1..n} THEN "READY" ELSE state[t]]
    <2>1. \E n \in 0..Len(sleepers) :
            \/ Schedule(Woken(n), ready \o SubSeq(sleepers, 1, n))
            \/ ready' = ready \o SubSeq(sleepers, 1, n)
      BY DEF TimerTick
    <2> HIDE DEF Woken
    <2> QED BY <2>1
  <1>2. SubSeq(sleepers, 1, n) \in Seq(Threads) /\ ready \in Seq(Threads)
    BY DEF TypeOK
  <1>3. CASE ready' = ready \o SubSeq(sleepers, 1, n)
    <2>1. Len(ready) <= Len(ready') /\ \A i \in 1..Len(ready) : ready'[i] = ready[i]
      BY <1>2, <1>3, AppendedBehind
    <2>2. Len(ready') \in Nat /\ Len(ready) \in Nat
      BY <1>2, <1>3, AppendedBehind
    <2>3. ASSUME NEW i \in 1..Len(ready) PROVE i \in 1..i /\ i <= Len(ready')
      BY <2>1, <2>2
    <2> QED BY <2>1, <2>3 DEF Advances, KeepsPlace
  <1> QED BY <1>1, <1>2, <1>3, ScheduleAdvances

LEMMA PlaceStep == IndInv /\ [Next]_vars => KeepsPlace
  <1> SUFFICES ASSUME TypeOK, [Next]_vars PROVE KeepsPlace
    BY DEF IndInv
  <1>0. ready \in Seq(Threads)
    BY DEF TypeOK
  <1>1. ASSUME UNCHANGED ready PROVE KeepsPlace
    BY <1>0, <1>1, SamePlaces DEF KeepsPlace
  <1>2. ASSUME NEW u \in Threads, ready' = Append(ready, u) PROVE KeepsPlace
    BY <1>0, <1>2, PushBehind DEF KeepsPlace
  <1>3. CASE UNCHANGED vars
    BY <1>1, <1>3 DEF vars, lists
  <1>4. ASSUME NEW t \in Threads, ThreadStep(t) PROVE KeepsPlace
    <2>1. CASE \E u \in Thread, enqueue \in BOOLEAN : ThreadCreate(t, u, enqueue)
      BY <1>1, <1>2, <2>1 DEF ThreadCreate, Threads
    <2>2. CASE \E u \in Thread : ThreadStart(t, u)
      BY <1>2, <2>2 DEF ThreadStart, Threads
    <2>3. CASE ThreadYield(t) \/ SleepYield(t) \/ BlockYield(t) \/ ExitYield(t)
      BY <2>3, YieldAdvances DEF ThreadYield, SleepYield, BlockYield, ExitYield
    <2>4. CASE \/ \E d \in SleepDurations : ThreadSleepTicks(t, d)
               \/ ThreadBlockCurrent(t) \/ BlockReturn(t) \/ ThreadExit(t) \/ ReapPop(t) \/ ReapFree(t)
      BY <1>1, <2>4 DEF ThreadSleepTicks, ThreadBlockCurrent, BlockReturn, ThreadExit, ReapPop, ReapFree, lists
    <2> QED BY <1>4, <2>1, <2>2, <2>3, <2>4 DEF ThreadStep
  <1>5. ASSUME NEW u \in Threads, ThreadWake(u) PROVE KeepsPlace
    BY <1>2, <1>5 DEF ThreadWake
  <1>6. CASE PreemptionInit
    BY <1>1, <1>6 DEF PreemptionInit, lists
  <1>7. CASE TimerTick
    BY <1>7, TickAdvances
  <1> QED BY <1>3, <1>4, <1>5, <1>6, <1>7 DEF Next

(* NoOvertaking, for any number of threads: whatever thread_create,        *)
(* thread_wake, wake_due_sleepers and the scheduler do to the ready list,  *)
(* a READY thread is dispatched or keeps or improves its place.            *)
THEOREM NeverOvertaken == Spec => NoOvertaking
  <1>1. IndInv /\ [Next]_vars => [KeepsPlace]_vars
    BY PlaceStep
  <1> QED BY <1>1, Inductive, PTL DEF Spec, NoOvertaking, KeepsPlace, Advances
=============================================================================
