-------------------------- MODULE ReadStreamProofs --------------------------
(***************************************************************************)
(* The proofs about ReadStream: the data comes in order (Inv) and a read   *)
(* that the stream serves ends early only at the end of the file           *)
(* (EndIsReal), for all values of the constants.  The inductive invariant  *)
(* is StreamIInv; its main part says at which block the reader is.         *)
(***************************************************************************)
EXTENDS ReadStream, TLAPS

\* The remainder of a number below 2 * n.
LEMMA ModTurn ==
    ASSUME NEW n \in Nat \ {0}, NEW a \in 0 .. 2 * n - 1
    PROVE  a % n = IF a < n THEN a ELSE a - n
<1>1. CASE a < n
  BY <1>1
<1>2. CASE a >= n
  BY <1>2
<1> QED BY <1>1, <1>2

\* An offset inside block k, divided by the block size, gives k.
LEMMA DivBlock ==
    ASSUME NEW c \in Nat \ {0}, NEW k \in Nat, NEW x \in 0 .. c - 1, NEW z \in Nat,
           z = k * c + x
    PROVE  z \div c = k
OBVIOUS

\* A quotient is not zero when the dividend is not smaller than the divisor.
LEMMA Quo ==
    ASSUME NEW a \in Nat, NEW c \in Nat \ {0}, a >= c
    PROVE  a \div c \in Nat \ {0}
OBVIOUS

\* The smaller one of two numbers.
LEMMA MinTwo ==
    ASSUME NEW a \in Int, NEW b \in Int
    PROVE  Min({a, b}) = IF a <= b THEN a ELSE b
BY DEF Min

\* Where blocks start is additive.
LEMMA StartAdd ==
    ASSUME NEW a \in Nat, NEW b \in Nat
    PROVE  /\ Start(a) \in Nat
           /\ Start(a + b) = Start(a) + Start(b)
BY ConstantsOK DEF Start

\* Blocks 0 and 1 start at 0 and at Cap.
LEMMA StartOne == Start(1) = Cap /\ Start(0) = 0 /\ Cap \in Nat \ {0}
BY ConstantsOK DEF Start

\* Where a block starts is a natural number.
LEMMA StartNat == \A a \in Nat : Start(a) \in Nat
BY ConstantsOK DEF Start

\* Later blocks start later, at least a block's size apart.
LEMMA StartMono ==
    ASSUME NEW a \in Nat, NEW b \in Nat
    PROVE  /\ a <= b => Start(a) <= Start(b)
           /\ a < b => Start(a) + Cap <= Start(b)
           /\ a <= Start(a)
<1>1. ASSUME a <= b PROVE Start(a) <= Start(b)
  BY <1>1, ConstantsOK DEF Start
<1>2. ASSUME a < b PROVE Start(a) + Cap <= Start(b)
  <2>1. PICK d \in Nat : b = a + 1 + d BY <1>2
  <2>2. b * Cap = a * Cap + Cap + d * Cap BY <2>1, ConstantsOK
  <2>3. a * Cap \in Nat /\ d * Cap \in Nat BY ConstantsOK
  <2> QED BY <2>2, <2>3, ConstantsOK DEF Start
<1>3. a <= Start(a) BY ConstantsOK DEF Start
<1> QED BY <1>1, <1>2, <1>3

\* What a read gives, by cases, and that it is no more than was asked for.
LEMMA AvailableIs ==
    ASSUME NEW o \in Nat, NEW n \in Nat
    PROVE  /\ Available(o, n) = IF o >= FileSize THEN 0
                                ELSE IF n <= FileSize - o THEN n ELSE FileSize - o
           /\ Available(o, n) \in 0 .. n
<1>1. FileSize \in Nat /\ FileSize - o \in Int BY ConstantsOK
<1>2. Min({n, FileSize - o}) = IF n <= FileSize - o THEN n ELSE FileSize - o
  BY <1>1, MinTwo
<1> QED BY <1>1, <1>2 DEF Available

\* Far is behind the end of the file and behind the first block of every pipe.
LEMMA FarIs ==
    /\ Far \in Nat /\ Infinity \in Nat /\ Far < Infinity /\ FileSize <= Far
    /\ FileSize \in Nat \ {0}
    /\ \A i \in Pipes : Start(i) \in 0 .. Far
<1>1. QueueSize * Cap \in Nat \ {0} BY ConstantsOK
<1>2. FileSize \in Nat \ {0} BY ConstantsOK
<1>3. 3 * QueueSize * Cap = 3 * (QueueSize * Cap) BY ConstantsOK
<1>4. /\ Far \in Nat /\ Infinity \in Nat /\ Far < Infinity /\ FileSize <= Far
      /\ QueueSize * Cap <= Far
  BY <1>1, <1>2, <1>3 DEF Far, Infinity
<1>5. ASSUME NEW i \in Pipes PROVE Start(i) \in 0 .. Far
  <2>1. i \in Nat /\ QueueSize \in Nat /\ i <= QueueSize BY ConstantsOK DEF Pipes
  <2>2. Start(i) <= Start(QueueSize) /\ Start(i) \in Nat BY <2>1, StartMono, StartAdd
  <2>3. Start(QueueSize) = QueueSize * Cap BY DEF Start
  <2> QED BY <2>2, <2>3, <1>4, <1>1
<1> QED BY <1>2, <1>4, <1>5

-----------------------------------------------------------------------------
\* What TypeOK says of a pipe and of a thread.
PipeSet == [capacity: {0, Cap}, size: Error .. Cap, index: 0 .. Cap,
            stop: BOOLEAN, base: 0 .. Far]
ThreadSet == [at: {"none", "loop", "push", "block", "wait", "pushed",
                   "exit", "notify", "ended"},
              off: 0 .. Far, ret: Error .. Cap]

\* The types of the fields of pipes and threads.
LEMMA Fields ==
    /\ \A p \in PipeSet : /\ p.capacity \in Nat /\ p.size \in Int /\ p.size <= Cap
                          /\ p.index \in Nat /\ p.base \in Nat /\ p.stop \in BOOLEAN
                          /\ p.size >= -1 /\ p.index <= Cap
    /\ \A t \in ThreadSet : t.off \in Nat /\ t.ret \in Int /\ t.off <= Far
BY ConstantsOK, FarIs DEF PipeSet, ThreadSet, Error

\* A thread that moves without fetching leaves its pipe at the same block.
LEMMA PipeAtMove ==
    ASSUME NEW p, NEW t, NEW u, NEW i, NEW b, NEW n, PipeAt(p, t, i, b, n),
           u.off = t.off, u.at # "none", u.at = "pushed" => p.stop,
           u.at \in {"loop", "push", "block", "wait"} =>
               t.at \in {"loop", "push", "block", "wait"}
    PROVE  PipeAt(p, u, i, b, n)
BY DEF PipeAt

\* A pipe that is stopped with the data it has stays at the same block.
LEMMA PipeAtExit ==
    ASSUME NEW p, NEW q, NEW t, NEW u, NEW i, NEW b, NEW n, PipeAt(p, t, i, b, n),
           q.size = p.size, q.index = p.index, q.base = p.base, q.stop
    PROVE  PipeAt(q, u, i, b, n)
BY DEF PipeAt, HasData

\* A thread that filled its pipe with a whole block goes on to its next block.
LEMMA PipeAtLoop ==
    ASSUME NEW p \in PipeSet, NEW t \in ThreadSet, NEW u, NEW i, NEW b \in Nat,
           NEW n \in Nat \ {0}, PipeAt(p, t, i, b, n),
           t.at = "pushed", t.ret = p.capacity, u.at = "loop",
           u.off = Min({t.off + Start(n), Far})
    PROVE  PipeAt(p, u, i, b, n)
<1> SUFFICES ASSUME ~ p.stop
             PROVE  p.size > 0 /\ SamePlace(u.off, Start(NextBlock(p, b, n)))
  BY DEF PipeAt
<1>1. Fetched(p, t, b, n) /\ p.capacity = Cap BY DEF PipeAt
<1>a. t.ret = Cap /\ t.ret > 0 BY <1>1, StartOne
<1>b. t.ret = p.size /\ t.off + Start(n) = Start(NextBlock(p, b, n))
  BY <1>1, <1>a DEF Fetched
<1>2. p.size > 0 /\ t.off + Start(n) = Start(NextBlock(p, b, n))
  BY <1>a, <1>b
<1>3. t.off + Start(n) \in Int /\ Far \in Int BY Fields, StartNat, FarIs
<1>4. u.off = IF t.off + Start(n) <= Far THEN t.off + Start(n) ELSE Far
  BY <1>3, MinTwo
<1>5. SamePlace(u.off, Start(NextBlock(p, b, n)))
  BY <1>2, <1>3, <1>4, FarIs DEF SamePlace
<1> QED BY <1>2, <1>5

\* What PushData puts into an empty pipe is block b, or an error, or nothing behind
\* the end of the file.
LEMMA PipeAtData ==
    ASSUME NEW p \in PipeSet, NEW t \in ThreadSet, NEW q, NEW u, NEW i, NEW b \in Nat,
           NEW n \in Nat \ {0}, NEW m, PipeAt(p, t, i, b, n),
           ~ p.stop, t.at = "push", p.index = p.size,
           m \in {Available(t.off, p.capacity), Error},
           q.size = m, q.index = 0, q.base = t.off, q.capacity = p.capacity,
           u.at = "pushed", u.off = t.off, u.ret = m
    PROVE  /\ p.size > 0 /\ p.capacity = Cap /\ ~ HasData(p)
           /\ SamePlace(t.off, Start(b))
           /\ PipeAt(q, u, i, b, n)
           /\ HasData(q) => m > 0 /\ q.base = Start(b) /\ Start(b) < FileSize
<1>1. p.size > 0 /\ p.capacity = Cap /\ SamePlace(t.off, Start(NextBlock(p, b, n)))
  BY DEF PipeAt
<1>2. ~ HasData(p) /\ NextBlock(p, b, n) = b BY DEF HasData, NextBlock
<1>3. SamePlace(t.off, Start(b)) BY <1>1, <1>2
<1>4. t.off \in Nat /\ Start(b) \in Nat /\ Start(n) \in Nat /\ Cap \in Nat \ {0}
      /\ Start(b + n) = Start(b) + Start(n) /\ FileSize \in Nat
  BY Fields, StartNat, StartAdd, StartOne, FarIs
<1>5. /\ Available(t.off, Cap) = IF t.off >= FileSize THEN 0
                                ELSE IF Cap <= FileSize - t.off THEN Cap ELSE FileSize - t.off
      /\ Available(t.off, Cap) \in 0 .. Cap
  BY <1>4, AvailableIs
<1>6. m \in Int /\ (m = Available(t.off, Cap) \/ m = -1) BY <1>1, <1>4, <1>5 DEF Error
<1>7. ASSUME m > 0
      PROVE  t.off = Start(b) /\ t.off < FileSize /\ m = Available(t.off, Cap)
  BY <1>3, <1>4, <1>5, <1>6, <1>7 DEF SamePlace
<1>8. HasData(q) <=> m > 0 BY <1>6 DEF HasData
<1>9. HasData(q) => m > 0 /\ q.base = Start(b) /\ q.base < FileSize /\ q.size = Available(q.base, Cap)
  BY <1>7, <1>8
<1>10. Fetched(q, u, b, n)
  <2>1. ASSUME u.ret > 0 PROVE u.off + Start(n) = Start(NextBlock(q, b, n))
    <3>1. NextBlock(q, b, n) = b + n BY <2>1, <1>8 DEF NextBlock
    <3>2. u.off = Start(b) BY <2>1, <1>7
    <3> QED BY <3>1, <3>2, <1>4
  <2>2. u.ret = 0 => u.off >= FileSize BY <1>4, <1>5, <1>6
  <2>3. ASSUME u.ret \in 0 .. Cap - 1 PROVE u.off + Cap >= FileSize
    BY <2>3, <1>4, <1>5, <1>6
  <2> QED BY <2>1, <2>2, <2>3, <1>3 DEF Fetched
<1>11. PipeAt(q, u, i, b, n) BY <1>1, <1>9, <1>10 DEF PipeAt
<1> QED BY <1>1, <1>2, <1>3, <1>9, <1>11

\* A pipe from which some of the data is taken stays at the same block.
LEMMA PipeAtPop ==
    ASSUME NEW p, NEW q, NEW t, NEW i, NEW b, NEW n, PipeAt(p, t, i, b, n),
           HasData(p), HasData(q), q.size = p.size, q.base = p.base, q.stop = p.stop,
           q.capacity = p.capacity
    PROVE  PipeAt(q, t, i, b, n)
<1>1. NextBlock(p, b, n) = NextBlock(q, b, n) BY DEF NextBlock
<1>2. Fetched(p, t, b, n) => Fetched(q, t, b, n) BY <1>1 DEF Fetched
<1> QED BY <1>1, <1>2 DEF PipeAt

\* A pipe that has been emptied comes to the block n further on.
LEMMA PipeAtPopAll ==
    ASSUME NEW p \in PipeSet, NEW q, NEW t, NEW u, NEW i, NEW b \in Nat, NEW n \in Nat \ {0},
           PipeAt(p, t, i, b, n),
           HasData(p), ~ q.stop => /\ ~ HasData(q) /\ q.size = p.size /\ ~ p.stop
                                   /\ q.capacity = p.capacity, 
           q.stop => ~ HasData(q),
           u.at = t.at \/ (t.at = "wait" /\ u.at = "push"), u.off = t.off, u.ret = t.ret
    PROVE  PipeAt(q, u, i, b + n, n)
<1> SUFFICES ASSUME ~ q.stop PROVE PipeAt(q, u, i, b + n, n)
  BY DEF PipeAt
<1>0. ~ HasData(q) /\ q.size = p.size /\ ~ p.stop /\ q.capacity = p.capacity
  OBVIOUS
<1>1. NextBlock(p, b, n) = NextBlock(q, b + n, n) BY <1>0 DEF NextBlock
<1>2. p.size > 0 BY DEF HasData
<1>3. t.at # "none" /\ u.at # "none" /\ q.capacity = Cap BY <1>0 DEF PipeAt
<1>4. ASSUME u.at = "pushed" PROVE Fetched(q, u, b + n, n)
  <2>1. Fetched(p, t, b, n) /\ t.ret = u.ret /\ t.off = u.off BY <1>0, <1>4 DEF PipeAt
  <2>2. u.ret = q.size /\ u.ret > 0 /\ ~ (u.ret <= 0) /\ u.ret # 0
    BY <2>1, <1>0, <1>2, Fields DEF Fetched
  <2> QED BY <2>1, <2>2, <1>1, <1>0 DEF Fetched
<1>5. ASSUME u.at \in {"loop", "push", "block", "wait"}
      PROVE  SamePlace(u.off, Start(NextBlock(q, b + n, n)))
  BY <1>5, <1>0, <1>1 DEF PipeAt
<1> QED BY <1>0, <1>2, <1>3, <1>4, <1>5 DEF PipeAt

-----------------------------------------------------------------------------
\* Where a thread is that fetches no more.
Quit == {"exit", "notify", "ended"}

\* A place that is over stays over as long as errors stay where they are.
LEMMA OverKept ==
    ASSUME NEW ps, NEW qs, NEW bs, NEW cs, DOMAIN cs = DOMAIN bs,
           \A j \in DOMAIN bs : ps[j].size < 0 => qs[j].size < 0 /\ cs[j] = bs[j],
           NEW c, Over(ps, bs, c)
    PROVE  Over(qs, cs, c)
BY DEF Over

\* Ending is kept by steps after which the same blocks are next and no thread quits
\* that had something to fetch.
LEMMA EndKeep ==
    ASSUME NEW ps, NEW qs, NEW ts, NEW us, NEW so, NEW bs, NEW cs, NEW k \in Nat, NEW l \in Nat,
           NEW n \in Nat \ {0}, Ending(ps, ts, so, bs, k, n), k <= l, DOMAIN cs = DOMAIN bs,
           \A j \in DOMAIN bs :
             /\ ts[j].off \in Nat /\ us[j].off \in Nat /\ ts[j].off <= us[j].off
             /\ ps[j].size < 0 => qs[j].size < 0 /\ cs[j] = bs[j]
             /\ NextBlock(qs[j], cs[j], n) = NextBlock(ps[j], bs[j], n)
             /\ ts[j].at \in Quit => us[j].at \in Quit
             /\ us[j].at \in Quit => ts[j].at \in Quit \/ Over(ps, bs, NextBlock(ps[j], bs[j], n))
             /\ qs[j].stop => \/ ps[j].stop \/ ts[j].at \in Quit
                              \/ /\ ts[j].off >= FileSize
                                 /\ Over(ps, bs, NextBlock(ps[j], bs[j], n))
    PROVE  Ending(qs, us, so, cs, l, n)
<1>1. ASSUME NEW c, Over(ps, bs, c) PROVE Over(qs, cs, c)
  BY <1>1, OverKept
<1>2. ASSUME NEW j \in DOMAIN cs PROVE EndAt(qs, us[j], so, cs, j, n)
  <2> DEFINE c == NextBlock(ps[j], bs[j], n)
  <2>1. /\ ps[j].stop => ts[j].at \in Quit \/ ts[j].off >= FileSize
        /\ ps[j].stop \/ ts[j].at \in Quit => Over(ps, bs, c)
        /\ Start(c) >= so => Over(ps, bs, c)
    BY DEF Ending, EndAt, Quit
  <2>2. Over(ps, bs, c) => Over(qs, cs, c) BY <1>1
  <2>3. NextBlock(qs[j], cs[j], n) = c OBVIOUS
  <2> HIDE DEF c
  <2>4. qs[j].stop => us[j].at \in Quit \/ us[j].off >= FileSize BY <2>1, FarIs
  <2>5. qs[j].stop \/ us[j].at \in Quit => Over(qs, cs, c) BY <2>1, <2>2 DEF c
  <2> QED BY <2>1, <2>2, <2>3, <2>4, <2>5 DEF EndAt, Quit
<1>3. ASSUME NEW c \in 0 .. FileSize, c >= l + n, Start(c) >= so PROVE Over(qs, cs, c)
  <2>1. c >= k + n BY <1>3, FarIs
  <2> QED BY <1>1, <1>3, <2>1 DEF Ending
<1> QED BY <1>2, <1>3 DEF Ending

\* Ending is kept when thread i fills its empty pipe.
LEMMA EndData ==
    ASSUME NEW ps, NEW qs, NEW ts, NEW us, NEW so, NEW k \in Nat, NEW n \in Nat \ {0},
           NEW bs \in [0 .. n - 1 -> Nat], Ending(ps, ts, so, bs, k, n),
           NEW i \in 0 .. n - 1, bs[i] >= k,
           \A j \in 0 .. n - 1 : j # i => qs[j] = ps[j] /\ us[j] = ts[j],
           ps[i].size \in Nat, ~ HasData(ps[i]), ~ qs[i].stop, us[i].at = "pushed"
    PROVE  Ending(qs, us, so, bs, k, n)
<1>0. DOMAIN bs = 0 .. n - 1 /\ bs[i] \in Nat OBVIOUS
<1>1. ASSUME NEW c, Over(ps, bs, c) PROVE Over(qs, bs, c)
  <2>1. \A j \in DOMAIN bs : ps[j].size < 0 => qs[j].size < 0 BY <1>0
  <2> QED BY <1>1, <2>1 DEF Over
<1>2. ASSUME NEW j \in DOMAIN bs, j # i PROVE EndAt(qs, us[j], so, bs, j, n)
  BY <1>0, <1>1, <1>2 DEF Ending, EndAt
<1>3. EndAt(qs, us[i], so, bs, i, n)
  <2>1. NextBlock(ps[i], bs[i], n) = bs[i] BY DEF NextBlock
  <2>2. Start(bs[i]) >= so => Over(ps, bs, bs[i]) BY <1>0, <2>1 DEF Ending, EndAt
  <2>3. ASSUME Start(bs[i] + n) >= so PROVE Over(qs, bs, bs[i] + n)
    <3>1. CASE bs[i] + n <= FileSize
      <4>1. bs[i] + n \in 0 .. FileSize /\ bs[i] + n >= k + n BY <1>0, <3>1, FarIs
      <4> QED BY <4>1, <2>3, <1>1 DEF Ending
    <3>2. CASE bs[i] + n > FileSize
      <4>1. bs[i] + n \in Nat BY <1>0
      <4>2. Start(bs[i] + n) \in Nat /\ bs[i] + n <= Start(bs[i] + n)
        BY <4>1, StartMono, StartNat
      <4>3. Start(bs[i] + n) >= FileSize BY <4>1, <4>2, <3>2, FarIs
      <4> QED BY <4>3 DEF Over
    <3> QED BY <3>1, <3>2, <1>0, FarIs
  <2>4. NextBlock(qs[i], bs[i], n) \in {bs[i], bs[i] + n} BY DEF NextBlock
  <2>5. \A c \in {bs[i], bs[i] + n} : Start(c) >= so => Over(qs, bs, c)
    BY <1>1, <2>2, <2>3
  <2> QED BY <2>4, <2>5 DEF EndAt
<1>4. ASSUME NEW c \in 0 .. FileSize, c >= k + n, Start(c) >= so PROVE Over(qs, bs, c)
  BY <1>1, <1>4 DEF Ending
<1> QED BY <1>0, <1>2, <1>3, <1>4 DEF Ending

\* Ending holds with the offset of a short block as the new stopOffset: at that offset
\* and behind it there is nothing to fetch.
LEMMA EndPushed ==
    ASSUME NEW ps, NEW ts, NEW us, NEW so, NEW k \in Nat, NEW n \in Nat \ {0},
           NEW bs \in [0 .. n - 1 -> Nat], Ending(ps, ts, so, bs, k, n),
           NEW i \in 0 .. n - 1,
           \A j \in 0 .. n - 1 : bs[j] >= k /\ bs[j] < k + n /\ (j # i => bs[j] # bs[i]),
           \A j \in 0 .. n - 1 : j # i => us[j] = ts[j],
           ps[i] \in PipeSet, ts[i] \in ThreadSet, us[i].at = "exit",
           ts[i].at = "pushed", ts[i].ret # ps[i].capacity,
           PipeAt(ps[i], ts[i], i, bs[i], n)
    PROVE  Ending(ps, us, ts[i].off, bs, k, n)
<1> DEFINE p == ps[i]
           t == ts[i]
           b == bs[i]
<1>0. DOMAIN bs = 0 .. n - 1 /\ b \in Nat /\ b >= k /\ b < k + n OBVIOUS
<1>1. /\ t.off \in Nat /\ t.ret \in Int /\ p.size \in Int /\ p.size <= Cap /\ FileSize \in Nat
      /\ Cap \in Nat \ {0} /\ p.stop \in BOOLEAN
  BY Fields, FarIs, StartOne
<1>2. /\ Start(b) \in Nat /\ Start(n) \in Nat /\ Start(b + n) = Start(b) + Start(n)
      /\ b + n \in Nat /\ Start(n) >= Cap
  <2>1. 0 \in Nat /\ 0 < n /\ n \in Nat OBVIOUS
  <2>2. Start(0) + Cap <= Start(n) BY <2>1, StartMono
  <2>3. Start(b) \in Nat /\ Start(n) \in Nat /\ Start(0) = 0 BY <1>0, StartNat, StartOne
  <2>4. Start(b + n) = Start(b) + Start(n) BY <1>0, StartAdd
  <2> QED BY <2>2, <2>3, <2>4, <1>0, <1>1
<1>3. ASSUME p.stop
      PROVE  /\ t.off >= FileSize
             /\ Over(ps, bs, NextBlock(p, b, n))
  BY <1>3, <1>0 DEF Ending, EndAt
<1>4. ASSUME ~ p.stop PROVE Fetched(p, t, b, n) /\ t.ret # Cap
  BY <1>4 DEF PipeAt
<1> HIDE DEF p, t, b
<1>5. ASSUME NEW c \in Nat, Start(c) >= t.off, c >= k,
             c >= k + n \/ \E j \in 0 .. n - 1 : c = NextBlock(ps[j], bs[j], n)
      PROVE  Over(ps, bs, c)
  <2>0. Start(c) \in Nat BY StartNat
  <2>1. CASE t.off >= FileSize
    <3>1. Start(c) >= FileSize BY <2>0, <2>1, <1>1, <1>5
    <3> QED BY <3>1 DEF Over
  <2>2. CASE t.off < FileSize
    <3>1. Fetched(p, t, b, n) /\ t.ret # Cap BY <2>2, <1>1, <1>3, <1>4
    <3>2. CASE p.size < 0
      <4>1. SamePlace(t.off, Start(b)) BY <3>1, <3>2, <1>1 DEF Fetched
      <4>2. Start(b) <= Start(c) BY <4>1, <2>2, <1>1, <1>2, <1>5 DEF SamePlace
      <4>3. c < b => Start(c) + Cap <= Start(b) BY <1>0, <1>5, StartMono
      <4>4. b <= c BY <4>2, <4>3, <1>0, <1>1, <1>2, <1>5, <2>0
      <4> QED BY <4>4, <3>2, <1>0 DEF Over, p, b
    <3>3. CASE p.size = 0
      BY <3>1, <3>3, <2>2, <1>1 DEF Fetched
    <3>4. CASE p.size > 0
      <4>1. /\ t.off + Start(n) = Start(NextBlock(p, b, n))
            /\ t.ret = p.size
        BY <3>1, <3>4, <1>1 DEF Fetched
      <4>2. t.ret \in 0 .. Cap - 1 BY <4>1, <3>1, <3>4, <1>1
      <4>3. t.off + Cap >= FileSize BY <4>2, <3>1 DEF Fetched
      <4>4. Start(c) >= t.off + Cap
        <5>1. CASE HasData(p)
          <6>1. t.off = Start(b) BY <4>1, <5>1, <1>1, <1>2 DEF NextBlock
          <6>2. c # b
            <7>1. ASSUME NEW j \in 0 .. n - 1, c = NextBlock(ps[j], bs[j], n) PROVE c # b
              <8>1. bs[j] \in Nat /\ bs[j] >= k /\ (j # i => bs[j] # b) BY DEF b
              <8>2. CASE HasData(ps[j])
                BY <8>1, <8>2, <7>1, <1>0 DEF NextBlock
              <8>3. CASE ~ HasData(ps[j])
                BY <8>1, <8>3, <7>1, <5>1 DEF NextBlock, p
              <8> QED BY <8>2, <8>3
            <7> QED BY <7>1, <1>5, <1>0
          <6>3. c < b => Start(c) + Cap <= Start(b) BY <1>0, <1>5, StartMono
          <6>4. b < c BY <6>1, <6>2, <6>3, <1>0, <1>1, <1>2, <1>5, <2>0
          <6> QED BY <6>1, <6>4, <1>0, <1>5, StartMono
        <5>2. CASE ~ HasData(p)
          <6>1. t.off + Start(n) = Start(b) BY <4>1, <5>2 DEF NextBlock
          <6>2. c + n \in Nat /\ b < c + n BY <1>0, <1>5
          <6>3. Start(b) + Cap <= Start(c + n) BY <6>2, <1>0, StartMono
          <6>4. Start(c + n) = Start(c) + Start(n) BY <1>5, StartAdd
          <6>5. Start(b) + Cap <= Start(c) + Start(n) BY <6>3, <6>4
          <6>6. \A x, y, z, o, q \in Nat : o + y = x /\ x + q <= z + y => z >= o + q
            OBVIOUS
          <6>7. Cap \in Nat /\ t.off \in Nat /\ Start(b) \in Nat /\ Start(n) \in Nat BY <1>1, <1>2
          <6> QED BY <6>1, <6>5, <6>6, <6>7, <2>0
        <5> QED BY <5>1, <5>2
      <4>5. Start(c) >= FileSize BY <4>3, <4>4, <1>1, <1>5, <2>0
      <4> QED BY <4>5 DEF Over
    <3> QED BY <3>2, <3>3, <3>4, <1>1
  <2> QED BY <2>1, <2>2, <1>1
<1>6. ASSUME NEW j \in 0 .. n - 1, Start(NextBlock(ps[j], bs[j], n)) >= t.off
      PROVE  Over(ps, bs, NextBlock(ps[j], bs[j], n))
  <2>1. bs[j] \in Nat /\ bs[j] >= k OBVIOUS
  <2>2. NextBlock(ps[j], bs[j], n) \in Nat /\ NextBlock(ps[j], bs[j], n) >= k
    BY <2>1 DEF NextBlock
  <2> QED BY <2>2, <1>5, <1>6
<1>7. Over(ps, bs, NextBlock(p, b, n))
  <2>1. CASE p.stop BY <2>1, <1>3
  <2>2. CASE ~ p.stop
    <3>1. Fetched(p, t, b, n) BY <2>2, <1>4
    <3>2. CASE p.size > 0
      <4>1. t.off + Start(n) = Start(NextBlock(p, b, n)) BY <3>1, <3>2, <1>1 DEF Fetched
      <4>2. Start(NextBlock(p, b, n)) >= t.off BY <4>1, <1>1, <1>2
      <4> QED BY <4>2, <1>6 DEF p, b
    <3>3. CASE p.size <= 0
      <4>1. NextBlock(p, b, n) = b BY <3>3, <1>1 DEF NextBlock, HasData
      <4>2. CASE p.size < 0
        BY <4>1, <4>2, <1>0 DEF Over, p, b
      <4>3. CASE p.size = 0
        <5>1. SamePlace(t.off, Start(b)) /\ t.off >= FileSize
          BY <3>1, <4>3, <1>1 DEF Fetched
        <5> QED BY <4>1, <5>1 DEF SamePlace, Over
      <4> QED BY <3>3, <4>2, <4>3, <1>1
    <3> QED BY <3>2, <3>3, <1>1
  <2> QED BY <2>1, <2>2
<1>8. ASSUME NEW j \in DOMAIN bs PROVE EndAt(ps, us[j], t.off, bs, j, n)
  <2>1. CASE j = i
    BY <2>1, <1>0, <1>6, <1>7 DEF EndAt, p, b
  <2>2. CASE j # i
    BY <2>2, <1>0, <1>6 DEF EndAt, Ending
  <2> QED BY <2>1, <2>2
<1>9. ASSUME NEW c \in 0 .. FileSize, c >= k + n, Start(c) >= t.off PROVE Over(ps, bs, c)
  <2>1. c \in Nat /\ c >= k BY <1>9, <1>1
  <2> QED BY <2>1, <1>5, <1>9
<1> QED BY <1>8, <1>9 DEF Ending, t

-----------------------------------------------------------------------------
\* Turns, of constants.
TurnOf(i, x, n) == (i - x + n) % n

\* Turns from pipe x to pipe i, without the remainder.
LEMMA TurnIs ==
    ASSUME NEW n \in Nat \ {0}, NEW x \in 0 .. n - 1, NEW i \in 0 .. n - 1
    PROVE  (i - x + n) % n = IF i >= x THEN i - x ELSE i - x + n
<1>1. i - x + n \in 0 .. 2 * n - 1 BY ConstantsOK
<1>2. PICK a \in 0 .. 2 * n - 1 : a = i - x + n BY <1>1
<1>3. a % n = IF a < n THEN a ELSE a - n BY ModTurn
<1> QED BY <1>2, <1>3

\* When the reader moves from pipe x to the next one, every other pipe is a turn nearer
\* and pipe x is last.
LEMMA NextTurn ==
    ASSUME NEW n \in Nat \ {0}, NEW x \in 0 .. n - 1, NEW y, y = (x + 1) % n
    PROVE  /\ y \in 0 .. n - 1
           /\ \A i \in 0 .. n - 1 :
                1 + TurnOf(i, y, n) = IF i = x THEN n + TurnOf(i, x, n) ELSE TurnOf(i, x, n)
<1>1. x + 1 \in 0 .. 2 * n - 1 OBVIOUS
<1>a. PICK a \in 0 .. 2 * n - 1 : a = x + 1 BY <1>1
<1>b. a % n = IF a < n THEN a ELSE a - n BY ModTurn
<1>2. y = IF x + 1 < n THEN x + 1 ELSE x + 1 - n BY <1>a, <1>b
<1>3. y \in 0 .. n - 1 BY <1>2
<1>4. ASSUME NEW i \in 0 .. n - 1
      PROVE  1 + TurnOf(i, y, n) = IF i = x THEN n + TurnOf(i, x, n) ELSE TurnOf(i, x, n)
  <2>1. TurnOf(i, x, n) = IF i >= x THEN i - x ELSE i - x + n BY TurnIs DEF TurnOf
  <2>2. TurnOf(i, y, n) = IF i >= y THEN i - y ELSE i - y + n BY <1>3, TurnIs DEF TurnOf
  <2> QED BY <1>2, <2>1, <2>2
<1> QED BY <1>3, <1>4

\* The pipes stand for pipeNum different blocks that follow one another from block k,
\* the current pipe's.
LEMMA BlocksOK ==
    ASSUME pipeNum \in Nat \ {0}, pipeIndex \in 0 .. pipeNum - 1, NEW k \in Nat
    PROVE  /\ Blocks(k) \in [0 .. pipeNum - 1 -> Nat]
           /\ Blocks(k)[pipeIndex] = k
           /\ \A i \in 0 .. pipeNum - 1 : Blocks(k)[i] >= k /\ Blocks(k)[i] < k + pipeNum
           /\ \A i, j \in 0 .. pipeNum - 1 : i # j => Blocks(k)[i] # Blocks(k)[j]
<1>1. \A i \in 0 .. pipeNum - 1 :
        Turns(i) = IF i >= pipeIndex THEN i - pipeIndex ELSE i - pipeIndex + pipeNum
  BY TurnIs DEF Turns
<1>2. Blocks(k) = [i \in 0 .. pipeNum - 1 |->
                     k + (IF i >= pipeIndex THEN i - pipeIndex ELSE i - pipeIndex + pipeNum)]
  BY <1>1 DEF Blocks, Filled
<1> QED BY <1>2

\* StreamInv is kept by what leaves the stream and the position alone.
LEMMA QuietStep ==
    ASSUME StreamInv, UNCHANGED <<pipe, push, streamStop, stopOffset, pipeIndex, pipeNum, broken>>,
           (serial + Taken)' = serial + Taken
    PROVE  StreamInv'
<1>1. ASSUME NEW k, Synced(k) PROVE Synced(k)'
  <2>1. Blocks(k)' = Blocks(k) /\ Filled' = Filled BY DEF Blocks, Filled, Turns
  <2>2. Prefetching' = Prefetching BY DEF Prefetching
  <2> QED BY <1>1, <2>1, <2>2 DEF Synced
<1> QED BY <1>1 DEF StreamInv

\* The type invariant with the sets of pipes and threads named.
LEMMA Typed ==
    ASSUME TypeOK
    PROVE  /\ pipe \in [Pipes -> PipeSet] /\ push \in [Pipes -> ThreadSet]
           /\ serial \in 0 .. FileSize /\ pipeIndex \in Pipes /\ pipeNum \in 0 .. QueueSize
           /\ streamStop \in BOOLEAN /\ broken \in BOOLEAN
           /\ Filled \subseteq Pipes
<1>1. QueueSize \in Nat BY ConstantsOK
<1>2. Filled \subseteq Pipes BY <1>1 DEF TypeOK, Filled, Pipes
<1> QED BY <1>2 DEF TypeOK, PipeSet, ThreadSet

\* Once the stream has pipes, the current one is one of them.
LEMMA Running ==
    ASSUME TypeOK, StartsOnce, StreamInv, pipeNum # 0
    PROVE  pipeNum \in Nat \ {0} /\ pipeIndex \in 0 .. pipeNum - 1 /\ pipeIndex \in Filled
<1>1. pipeNum \in Nat /\ pipeIndex \in Nat BY ConstantsOK DEF TypeOK, Pipes
<1> QED BY <1>1 DEF StreamInv, Filled

\* A thread that exists has a pipe of the stream, and the stream prefetches unless it
\* was stopped.
LEMMA ThreadRuns ==
    ASSUME TypeOK, StartsOnce, StreamInv, NEW i \in Pipes, push[i].at # "none"
    PROVE  /\ pipeNum # 0 /\ i \in Filled /\ pipe[i] \in PipeSet /\ push[i] \in ThreadSet
           /\ ~ streamStop => Prefetching
<1>1. pipeNum # 0 /\ i \in Filled BY DEF StartsOnce
<1>2. ~ streamStop => Prefetching BY <1>1 DEF StartsOnce, Prefetching, Filled
<1> QED BY <1>1, <1>2, Typed

\* What thread i does keeps the reader at block k when pipe i stays at its block.
LEMMA PushSync ==
    ASSUME TypeOK, StartsOnce, StreamInv, NEW k \in 0 .. FileSize, Synced(k), ~ streamStop,
           NEW i \in Pipes, push[i].at # "none", push'[i].at # "none",
           \A j \in Pipes : j # i => pipe'[j] = pipe[j] /\ push'[j] = push[j],
           UNCHANGED <<serial, got, pipeMx, pipeIndex, pipeNum, streamStop>>,
           PipeAt(pipe'[i], push'[i], i, Blocks(k)[i], pipeNum),
           i = pipeIndex => Position(pipe'[i], k) = Position(pipe[i], k),
           i # pipeIndex /\ HasData(pipe'[i]) => pipe'[i].index = 0,
           Ending(pipe', push', stopOffset', Blocks(k), k, pipeNum)
    PROVE  Synced(k)'
<1>1. i \in Filled /\ pipeNum # 0 /\ Filled \subseteq Pipes /\ pipeIndex \in Pipes
  BY ThreadRuns, Typed
<1>2. Blocks(k)' = Blocks(k) /\ Filled' = Filled BY DEF Blocks, Filled, Turns
<1>3. Taken' = Taken BY DEF Taken
<1>4. serial + Taken = Position(pipe[pipeIndex], k) BY DEF Synced
<1>5. (serial + Taken)' = Position(pipe[pipeIndex], k)' BY <1>1, <1>3, <1>4
<1>6. \A j \in Filled : PipeAt(pipe'[j], push'[j], j, Blocks(k)[j], pipeNum)
  BY <1>1 DEF Synced
<1>7. \A j \in Filled : j # pipeIndex /\ HasData(pipe'[j]) => pipe'[j].index = 0
  BY <1>1 DEF Synced
<1> QED BY <1>2, <1>5, <1>6, <1>7 DEF Synced

\* StreamInv is kept by a thread's step that keeps Synced.
LEMMA PushInv ==
    ASSUME TypeOK, StartsOnce, StreamInv,
           UNCHANGED <<serial, got, pipeMx, pipeIndex, pipeNum, streamStop, broken>>,
           \A j \in Pipes : (pipe[j].size > 0 => pipe[j].index <= pipe[j].size) =>
                               (pipe'[j].size > 0 => pipe'[j].index <= pipe'[j].size),
           \A j \in Pipes : pipe[j] = Destroyed => pipe'[j] = Destroyed,
           ~ streamStop => \A k \in 0 .. FileSize : Synced(k) => Synced(k)'
    PROVE  StreamInv'
<1>1. Taken' = Taken BY DEF Taken
<1>2. pipeIndex \in Pipes BY Typed
<1> QED BY <1>1, <1>2 DEF StreamInv

\* Blocks(k) is about the pipes of the stream.
LEMMA BlocksFilled ==
    ASSUME NEW k
    PROVE  DOMAIN Blocks(k) = Filled
BY DEF Blocks

\* A thread moves and leaves its pipe alone: StreamInv is kept when the pipe stays at
\* its block and a thread that quits has nothing left to fetch.
LEMMA ThreadMove ==
    ASSUME TypeOK, StartsOnce, StreamInv, NEW i \in Pipes, push[i].at # "none",
           UNCHANGED <<serial, got, streamVars, pipe, broken>>,
           NEW u \in ThreadSet, push' = [push EXCEPT ![i] = u], u.at # "none",
           push[i].off <= u.off, push[i].at \in Quit => u.at \in Quit,
           \A b \in Nat :
             PipeAt(pipe[i], push[i], i, b, pipeNum) => PipeAt(pipe[i], u, i, b, pipeNum),
           u.at \in Quit /\ ~ streamStop =>
             \/ push[i].at \in Quit
             \/ \A b \in Nat : \A bs :
                  /\ bs[i] = b
                  /\ PipeAt(pipe[i], push[i], i, b, pipeNum)
                  /\ EndAt(pipe, push[i], stopOffset, bs, i, pipeNum)
                  => Over(pipe, bs, NextBlock(pipe[i], b, pipeNum))
    PROVE  StreamInv'
<1>1. /\ pipeNum # 0 /\ i \in Filled /\ push[i] \in ThreadSet
      /\ pipeNum \in Nat \ {0} /\ pipeIndex \in 0 .. pipeNum - 1 /\ Filled = 0 .. pipeNum - 1
  BY ThreadRuns, Running DEF Filled
<1>2. \A j \in Pipes : j # i => push'[j] = push[j] BY Typed
<1>3. push'[i] = u /\ push \in [Pipes -> ThreadSet] /\ Filled \subseteq Pipes BY Typed
<1>4. ASSUME ~ streamStop, NEW k \in 0 .. FileSize, Synced(k) PROVE Synced(k)'
  <2> DEFINE bs == Blocks(k)
  <2>0. k \in Nat BY FarIs
  <2>1. bs \in [0 .. pipeNum - 1 -> Nat] /\ DOMAIN bs = Filled BY <1>1, <2>0, BlocksOK, BlocksFilled
  <2>2. PipeAt(pipe[i], push[i], i, bs[i], pipeNum) /\ bs[i] \in Nat BY <1>4, <1>1, <2>1 DEF Synced
  <2>3. i # pipeIndex /\ HasData(pipe[i]) => pipe[i].index = 0 BY <1>4, <1>1 DEF Synced
  <2>4. Ending(pipe, push, stopOffset, bs, k, pipeNum) BY <1>4, ThreadRuns DEF Synced
  <2> HIDE DEF bs
  <2>5. PipeAt(pipe[i], u, i, bs[i], pipeNum) BY <2>2, <1>1
  <2>6. EndAt(pipe, push[i], stopOffset, bs, i, pipeNum) BY <2>1, <2>4, <1>1 DEF Ending
  <2>7. u.at \in Quit => push[i].at \in Quit \/ Over(pipe, bs, NextBlock(pipe[i], bs[i], pipeNum))
    BY <2>2, <2>6, <1>1, <1>4
  <2>8. \A j \in DOMAIN bs :
          /\ push[j].off \in Nat /\ push'[j].off \in Nat /\ push[j].off <= push'[j].off
          /\ push[j].at \in Quit => push'[j].at \in Quit
          /\ push'[j].at \in Quit =>
               push[j].at \in Quit \/ Over(pipe, bs, NextBlock(pipe[j], bs[j], pipeNum))
    <3> SUFFICES ASSUME NEW j \in Pipes
                 PROVE  /\ push[j].off \in Nat /\ push'[j].off \in Nat /\ push[j].off <= push'[j].off
                        /\ push[j].at \in Quit => push'[j].at \in Quit
                        /\ push'[j].at \in Quit =>
                             push[j].at \in Quit \/ Over(pipe, bs, NextBlock(pipe[j], bs[j], pipeNum))
      BY <2>1, <1>3
    <3>1. CASE j = i BY <3>1, <1>1, <1>3, <2>7, Fields
    <3>2. CASE j # i BY <3>2, <1>2, <1>3, Fields
    <3> QED BY <3>1, <3>2
  <2>9. Ending(pipe, push', stopOffset, bs, k, pipeNum)
    <3>1. k <= k BY <2>0
    <3> QED BY <3>1, <2>0, <1>1, <2>4, <2>8, EndKeep
  <2>10. Ending(pipe', push', stopOffset', bs, k, pipeNum) BY <2>9 DEF streamVars
  <2> QED BY <1>4, <1>2, <1>3, <2>3, <2>5, <2>10, PushSync DEF bs, streamVars
<1> QED BY <1>4, PushInv DEF streamVars

\* PushLoop keeps StreamInv: a thread at or behind stopOffset quits, with nothing left
\* to fetch.
LEMMA PushLoopInv ==
    ASSUME TypeOK, StartsOnce, StreamInv, NEW i \in Pipes, PushLoop(i)
    PROVE  StreamInv'
<1>1. push[i] \in ThreadSet /\ push[i].at = "loop" /\ push[i].off \in Nat
  BY Typed, Fields DEF PushLoop
<1>2. PICK a \in {"push", "exit"} :
        /\ push' = [push EXCEPT ![i].at = a]
        /\ a = "exit" => streamStop \/ ~ (push[i].off < stopOffset)
  BY DEF PushLoop
<1>3. PICK u : u = [push[i] EXCEPT !.at = a] OBVIOUS
<1>4. u \in ThreadSet /\ u.at = a /\ u.off = push[i].off /\ u.ret = push[i].ret
  BY <1>1, <1>3 DEF ThreadSet
<1>5. push' = [push EXCEPT ![i] = u] BY <1>2, <1>3, Typed
<1>6. \A b \in Nat :
             PipeAt(pipe[i], push[i], i, b, pipeNum) => PipeAt(pipe[i], u, i, b, pipeNum)
  BY <1>1, <1>4, PipeAtMove
<1>7. ASSUME a = "exit", ~ streamStop, NEW b \in Nat, NEW bs, bs[i] = b,
             PipeAt(pipe[i], push[i], i, b, pipeNum), EndAt(pipe, push[i], stopOffset, bs, i, pipeNum)
      PROVE  Over(pipe, bs, NextBlock(pipe[i], b, pipeNum))
  <2>1. CASE pipe[i].stop BY <1>7, <2>1 DEF EndAt
  <2>2. CASE ~ pipe[i].stop
    <3>1. SamePlace(push[i].off, Start(NextBlock(pipe[i], b, pipeNum))) BY <1>1, <1>7, <2>2 DEF PipeAt
    <3>2. stopOffset \in Nat /\ push[i].off >= stopOffset BY <1>1, <1>2, <1>7, FarIs DEF TypeOK
    <3>3. CASE push[i].off = Start(NextBlock(pipe[i], b, pipeNum))
      BY <3>3, <3>2, <1>7 DEF EndAt
    <3>4. CASE Start(NextBlock(pipe[i], b, pipeNum)) >= FileSize BY <3>4 DEF Over
    <3> QED BY <3>1, <3>3, <3>4 DEF SamePlace
  <2> QED BY <2>1, <2>2
<1>8. UNCHANGED <<serial, got, streamVars, pipe, broken>> BY DEF PushLoop, callVars, storeVars
<1>9. push[i].off <= u.off /\ u.at # "none" /\ push[i].at # "none" /\ push[i].at \notin Quit
  BY <1>1, <1>2, <1>4 DEF Quit
<1>10. u.at \in Quit => a = "exit" BY <1>4 DEF Quit
<1> QED BY <1>4, <1>5, <1>6, <1>7, <1>8, <1>9, <1>10, ThreadMove

\* A thread that moves without fetching or quitting keeps StreamInv.
LEMMA PlainMove ==
    ASSUME TypeOK, StartsOnce, StreamInv, NEW i \in Pipes, push[i].at # "none",
           UNCHANGED <<serial, got, streamVars, pipe, broken>>,
           NEW u \in ThreadSet, push' = [push EXCEPT ![i] = u], u.at # "none",
           u.off = push[i].off, push[i].at \in Quit <=> u.at \in Quit,
           u.at = "pushed" => pipe[i].stop,
           u.at \in {"loop", "push", "block", "wait"} =>
               push[i].at \in {"loop", "push", "block", "wait"}
    PROVE  StreamInv'
<1>1. \A b \in Nat :
             PipeAt(pipe[i], push[i], i, b, pipeNum) => PipeAt(pipe[i], u, i, b, pipeNum)
  BY PipeAtMove
<1>2. push[i].off <= u.off BY Fields, Typed
<1> QED BY <1>1, <1>2, ThreadMove

\* The waiting, the stopped and the notifying thread keep StreamInv.
LEMMA PushMovesInv ==
    ASSUME TypeOK, StartsOnce, StreamInv, NEW i \in Pipes,
           PushMustWait(i) \/ PushBlock(i) \/ PushStopped(i) \/ PushNotify(i)
    PROVE  StreamInv'
<1>1. push[i] \in ThreadSet /\ push \in [Pipes -> ThreadSet] BY Typed
<1>2. UNCHANGED <<serial, got, streamVars, pipe, broken>>
  BY DEF PushMustWait, PushBlock, PushStopped, PushNotify, callVars, storeVars
<1>3. ASSUME NEW a, push' = [push EXCEPT ![i].at = a], push[i].at # "none",
             a \in {"block", "wait", "ended"},
             <<push[i].at, a>> \in {<<"push", "block">>, <<"block", "wait">>, <<"notify", "ended">>}
      PROVE  StreamInv'
  <2>1. PICK u : u = [push[i] EXCEPT !.at = a] OBVIOUS
  <2>2. u \in ThreadSet /\ u.at = a /\ u.off = push[i].off BY <1>1, <2>1, <1>3 DEF ThreadSet
  <2>3. push' = [push EXCEPT ![i] = u] BY <1>1, <1>3, <2>1
  <2> QED BY <1>2, <1>3, <2>2, <2>3, PlainMove DEF Quit
<1>4. CASE PushMustWait(i) BY <1>3, <1>4 DEF PushMustWait, AtPush
<1>5. CASE PushBlock(i) BY <1>3, <1>5 DEF PushBlock
<1>6. CASE PushNotify(i) BY <1>3, <1>6 DEF PushNotify
<1>7. CASE PushStopped(i)
  <2>0. push[i].at = "push" /\ pipe[i].stop BY <1>7 DEF PushStopped, AtPush
  <2>1. PICK u : u = [[push[i] EXCEPT !.at = "pushed"] EXCEPT !.ret = 0] OBVIOUS
  <2>2. u \in ThreadSet /\ u.at = "pushed" /\ u.off = push[i].off
    <3>1. 0 \in Error .. Cap BY StartOne DEF Error
    <3> QED BY <3>1, <1>1, <2>1 DEF ThreadSet
  <2>3. push' = [push EXCEPT ![i] = u] BY <1>1, <1>7, <2>1 DEF PushStopped
  <2> QED BY <1>2, <2>0, <2>2, <2>3, PlainMove DEF Quit
<1> QED BY <1>4, <1>5, <1>6, <1>7

\* Pushed keeps StreamInv: a whole block leads to the thread's next one, less than that
\* to a stopOffset with nothing left to fetch behind it.
LEMMA PushedInv ==
    ASSUME TypeOK, StartsOnce, StreamInv, NEW i \in Pipes, Pushed(i)
    PROVE  StreamInv'
<1>1. /\ push[i] \in ThreadSet /\ push \in [Pipes -> ThreadSet] /\ push[i].at = "pushed"
      /\ push[i].off \in Nat
  BY Typed, Fields DEF Pushed
<1>2. /\ UNCHANGED <<serial, got, pipe, broken, pipeMx, streamStop, pipeIndex, pipeNum, toStop>>
  BY DEF Pushed, callVars, storeVars
<1>3. /\ pipeNum # 0 /\ i \in Filled /\ pipe[i] \in PipeSet
      /\ pipeNum \in Nat \ {0} /\ pipeIndex \in 0 .. pipeNum - 1 /\ Filled = 0 .. pipeNum - 1
  BY <1>1, ThreadRuns, Running DEF Filled
<1>4. CASE push[i].ret # pipe[i].capacity
  <2>1. /\ push' = [push EXCEPT ![i].at = "exit"]
        /\ stopOffset' = push[i].off
    BY <1>4 DEF Pushed
  <2>2. push'[i].at = "exit" /\ \A j \in Pipes : j # i => push'[j] = push[j] BY <1>1, <2>1
  <2>3. ASSUME ~ streamStop, NEW k \in 0 .. FileSize, Synced(k) PROVE Synced(k)'
    <3> DEFINE bs == Blocks(k)
    <3>0. k \in Nat BY FarIs
    <3>1. /\ bs \in [0 .. pipeNum - 1 -> Nat] /\ DOMAIN bs = Filled
          /\ \A j \in 0 .. pipeNum - 1 : bs[j] >= k /\ bs[j] < k + pipeNum /\ (j # i => bs[j] # bs[i])
      BY <1>3, <3>0, BlocksOK, BlocksFilled
    <3>2. PipeAt(pipe[i], push[i], i, bs[i], pipeNum) /\ bs[i] \in Nat BY <2>3, <1>3, <3>1 DEF Synced
    <3>3. i # pipeIndex /\ HasData(pipe[i]) => pipe[i].index = 0 BY <2>3, <1>3 DEF Synced
    <3>4. Ending(pipe, push, stopOffset, bs, k, pipeNum) BY <2>3, <1>1, ThreadRuns DEF Synced
    <3> HIDE DEF bs
    <3>5. PipeAt(pipe[i], push'[i], i, bs[i], pipeNum) BY <3>2, <2>2 DEF PipeAt
    <3>6. \A j \in 0 .. pipeNum - 1 : j # i => push'[j] = push[j] BY <2>2, <1>3, Typed
    <3>7. Ending(pipe, push', push[i].off, bs, k, pipeNum)
      BY <3>0, <3>1, <3>2, <3>4, <3>6, <1>1, <1>3, <1>4, <2>2, EndPushed
    <3>8. Ending(pipe', push', stopOffset', bs, k, pipeNum) BY <3>7, <2>1, <1>2
    <3> QED BY <2>3, <2>2, <1>1, <1>2, <3>3, <3>5, <3>8, PushSync DEF bs
  <2> QED BY <2>3, <1>2, PushInv
<1>5. CASE push[i].ret = pipe[i].capacity
  <2>1. PICK o : o = Min({push[i].off + pipeNum * Cap, Far}) OBVIOUS
  <2>a. /\ push' = [push EXCEPT ![i].at = "loop", ![i].off = Min({@ + pipeNum * Cap, Far})]
        /\ stopOffset' = stopOffset
    BY <1>5 DEF Pushed
  <2>2. push' = [push EXCEPT ![i].at = "loop", ![i].off = o]
    BY <1>1, <2>1, <2>a
  <2>3. Start(pipeNum) \in Nat /\ pipeNum * Cap = Start(pipeNum) BY <1>3, StartNat DEF Start
  <2>4. push[i].off + Start(pipeNum) \in Int /\ Far \in Int BY <2>3, <1>1, FarIs
  <2>5. o = IF push[i].off + Start(pipeNum) <= Far THEN push[i].off + Start(pipeNum) ELSE Far
    BY <2>1, <2>3, <2>4, MinTwo
  <2>6. o \in 0 .. Far /\ push[i].off <= o BY <2>3, <2>5, <1>1, FarIs, Fields
  <2>7. PICK u : u = [[push[i] EXCEPT !.at = "loop"] EXCEPT !.off = o] OBVIOUS
  <2>8. u \in ThreadSet /\ u.at = "loop" /\ u.off = o BY <1>1, <2>6, <2>7 DEF ThreadSet
  <2>9. push' = [push EXCEPT ![i] = u] BY <1>1, <2>2, <2>7
  <2>10. ASSUME NEW b \in Nat, PipeAt(pipe[i], push[i], i, b, pipeNum)
         PROVE  PipeAt(pipe[i], u, i, b, pipeNum)
    BY <2>10, <2>8, <2>1, <2>3, <1>1, <1>3, <1>5, PipeAtLoop
  <2>11. UNCHANGED <<serial, got, streamVars, pipe, broken>> BY <2>a, <1>2 DEF streamVars
  <2> QED BY <2>6, <2>8, <2>9, <2>10, <2>11, <1>1, ThreadMove DEF Quit
<1> QED BY <1>4, <1>5

\* A destroyed pipe is a pipe.
LEMMA DestroyedOK == Destroyed \in PipeSet
<1>1. 0 \in 0 .. Far /\ 0 \in Error .. Cap /\ 0 \in 0 .. Cap BY StartOne, FarIs DEF Error
<1> QED BY <1>1 DEF Destroyed, PipeSet

\* A destroyed pipe has its stop set already.
LEMMA DestroyedTwice == [Destroyed EXCEPT !.stop = TRUE] = Destroyed
<1>1. ASSUME NEW p \in PipeSet, p.stop = TRUE PROVE [p EXCEPT !.stop = TRUE] = p
  BY <1>1 DEF PipeSet
<1>2. Destroyed.stop = TRUE BY DEF Destroyed
<1> QED BY <1>1, <1>2, DestroyedOK

\* PushExit keeps StreamInv: the pipe that is stopped keeps its data.
LEMMA PushExitInv ==
    ASSUME TypeOK, StartsOnce, StreamInv, NEW i \in Pipes, PushExit(i)
    PROVE  StreamInv'
<1>1. /\ push \in [Pipes -> ThreadSet] /\ pipe \in [Pipes -> PipeSet] /\ push[i].at = "exit"
      /\ pipe' = [pipe EXCEPT ![i].stop = TRUE]
      /\ push' = [push EXCEPT ![i].at = "notify"]
      /\ UNCHANGED <<serial, got, streamVars, broken>>
  BY Typed DEF PushExit, callVars, storeVars
<1>2. \A j \in Pipes : j # i => pipe'[j] = pipe[j] /\ push'[j] = push[j] BY <1>1
<1>3. /\ push'[i].at = "notify" /\ push'[i].off = push[i].off
      /\ pipe'[i].size = pipe[i].size /\ pipe'[i].index = pipe[i].index
      /\ pipe'[i].base = pipe[i].base /\ pipe'[i].stop
  BY <1>1 DEF ThreadSet, PipeSet
<1>4. /\ pipeNum # 0 /\ i \in Filled
      /\ pipeNum \in Nat \ {0} /\ pipeIndex \in 0 .. pipeNum - 1 /\ Filled = 0 .. pipeNum - 1
      /\ Filled \subseteq Pipes
  BY <1>1, ThreadRuns, Running, Typed DEF Filled
<1>5. HasData(pipe'[i]) <=> HasData(pipe[i]) BY <1>3 DEF HasData
<1>6. ASSUME ~ streamStop, NEW k \in 0 .. FileSize, Synced(k) PROVE Synced(k)'
  <2> DEFINE bs == Blocks(k)
  <2>0. k \in Nat BY FarIs
  <2>1. bs \in [0 .. pipeNum - 1 -> Nat] /\ DOMAIN bs = Filled BY <1>4, <2>0, BlocksOK, BlocksFilled
  <2>2. PipeAt(pipe[i], push[i], i, bs[i], pipeNum) BY <1>6, <1>4 DEF Synced
  <2>3. i # pipeIndex /\ HasData(pipe[i]) => pipe[i].index = 0 BY <1>6, <1>4 DEF Synced
  <2>4. Ending(pipe, push, stopOffset, bs, k, pipeNum) BY <1>6, <1>1, ThreadRuns DEF Synced
  <2> HIDE DEF bs
  <2>5. PipeAt(pipe'[i], push'[i], i, bs[i], pipeNum) BY <2>2, <1>3, PipeAtExit
  <2>6. Position(pipe'[i], k) = Position(pipe[i], k) BY <1>3, <1>5 DEF Position
  <2>7. ASSUME NEW j \in Filled
        PROVE  /\ push[j].off \in Nat /\ push'[j].off \in Nat /\ push[j].off <= push'[j].off
               /\ pipe[j].size < 0 => pipe'[j].size < 0
               /\ NextBlock(pipe'[j], bs[j], pipeNum) = NextBlock(pipe[j], bs[j], pipeNum)
               /\ push[j].at \in Quit => push'[j].at \in Quit
               /\ push'[j].at \in Quit => push[j].at \in Quit
               /\ pipe'[j].stop => pipe[j].stop \/ push[j].at \in Quit
    <3>1. push[j] \in ThreadSet /\ push[j].off \in Nat BY <1>1, <1>4, Fields
    <3>2. CASE j = i BY <3>1, <3>2, <1>1, <1>3, <1>5 DEF NextBlock, Quit
    <3>3. CASE j # i BY <3>1, <3>3, <1>2, <1>4
    <3> QED BY <3>2, <3>3
  <2>9. Ending(pipe', push', stopOffset, bs, k, pipeNum)
    <3>1. k <= k BY <2>0
    <3> QED BY <3>1, <2>0, <2>1, <1>4, <2>4, <2>7, EndKeep
  <2>10. Ending(pipe', push', stopOffset', bs, k, pipeNum) BY <2>9, <1>1 DEF streamVars
  <2> QED BY <1>6, <1>1, <1>2, <1>3, <1>5, <2>3, <2>5, <2>6, <2>10, PushSync DEF bs, streamVars
<1>7. \A j \in Pipes : pipe[j] = Destroyed => pipe'[j] = Destroyed
  <2>1. ASSUME pipe[i] = Destroyed PROVE pipe'[i] = Destroyed
    <3>1. pipe'[i] = [pipe[i] EXCEPT !.stop = TRUE] BY <1>1
    <3>2. [Destroyed EXCEPT !.stop = TRUE] = Destroyed BY DestroyedTwice
    <3> QED BY <3>1, <3>2, <2>1
  <2> QED BY <2>1, <1>2
<1>8. \A j \in Pipes : (pipe[j].size > 0 => pipe[j].index <= pipe[j].size) =>
                               (pipe'[j].size > 0 => pipe'[j].index <= pipe'[j].size)
  BY <1>2, <1>3
<1> QED BY <1>1, <1>6, <1>7, <1>8, PushInv DEF streamVars

\* PushData keeps StreamInv: what is read is the block whose turn it is.
LEMMA PushDataInv ==
    ASSUME TypeOK, StartsOnce, StreamInv, NEW i \in Pipes, PushData(i)
    PROVE  StreamInv'
<1>1. /\ push \in [Pipes -> ThreadSet] /\ pipe \in [Pipes -> PipeSet] /\ push[i].at = "push"
      /\ pipe[i].index = pipe[i].size /\ ~ pipe[i].stop
      /\ UNCHANGED <<serial, got, streamVars, broken>>
  BY Typed DEF PushData, AtPush, callVars, storeVars
<1>2. PICK m \in {Available(push[i].off, pipe[i].capacity), Error} :
          /\ pipe' = [pipe EXCEPT ![i].index = 0, ![i].size = m, ![i].base = push[i].off]
          /\ push' = [push EXCEPT ![i].at = "pushed", ![i].ret = m]
  <2>1. PICK m \in {Available(push[i].off, pipe[i].capacity)}
                  \cup (IF "read" \in Faults THEN {Error} ELSE {}) :
          /\ pipe' = [pipe EXCEPT ![i].index = 0, ![i].size = m, ![i].base = push[i].off]
          /\ push' = [push EXCEPT ![i].at = "pushed", ![i].ret = m]
    BY DEF PushData
  <2>2. m \in {Available(push[i].off, pipe[i].capacity), Error} OBVIOUS
  <2> QED BY <2>1, <2>2
<1>3. \A j \in Pipes : j # i => pipe'[j] = pipe[j] /\ push'[j] = push[j] BY <1>1, <1>2
<1>4. /\ push'[i].at = "pushed" /\ push'[i].off = push[i].off /\ push'[i].ret = m
      /\ pipe'[i].size = m /\ pipe'[i].index = 0 /\ pipe'[i].base = push[i].off
      /\ pipe'[i].stop = pipe[i].stop /\ pipe'[i].capacity = pipe[i].capacity
  BY <1>1, <1>2 DEF ThreadSet, PipeSet
<1>5. /\ pipeNum # 0 /\ i \in Filled
      /\ pipeNum \in Nat \ {0} /\ pipeIndex \in 0 .. pipeNum - 1 /\ Filled = 0 .. pipeNum - 1
      /\ Filled \subseteq Pipes
  BY <1>1, ThreadRuns, Running, Typed DEF Filled
<1>6. ASSUME ~ streamStop, NEW k \in 0 .. FileSize, Synced(k) PROVE Synced(k)'
  <2> DEFINE bs == Blocks(k)
  <2>0. k \in Nat /\ Start(k) \in Nat /\ FileSize \in Nat BY FarIs, StartNat
  <2>1. bs \in [0 .. pipeNum - 1 -> Nat] /\ bs[i] \in Nat /\ bs[i] >= k /\ bs[pipeIndex] = k
    BY <1>5, <2>0, BlocksOK
  <2>2. PipeAt(pipe[i], push[i], i, bs[i], pipeNum) BY <1>6, <1>5 DEF Synced
  <2>4. Ending(pipe, push, stopOffset, bs, k, pipeNum) BY <1>6, <1>1, ThreadRuns DEF Synced
  <2> HIDE DEF bs
  <2>5. /\ pipe[i].size > 0 /\ ~ HasData(pipe[i])
        /\ PipeAt(pipe'[i], push'[i], i, bs[i], pipeNum)
        /\ HasData(pipe'[i]) => Start(bs[i]) < FileSize
    <3>1. PICK p \in PipeSet : p = pipe[i] BY <1>1
    <3>2. PICK t \in ThreadSet : t = push[i] BY <1>1
    <3>3. PICK q : q = pipe'[i] OBVIOUS
    <3>4. PICK u : u = push'[i] OBVIOUS
    <3>5. PICK b \in Nat : b = bs[i] BY <2>1
    <3>6. PICK n \in Nat \ {0} : n = pipeNum BY <1>5
    <3>7. PipeAt(p, t, i, b, n) /\ ~ p.stop /\ t.at = "push" /\ p.index = p.size
      BY <3>1, <3>2, <3>5, <3>6, <2>2, <1>1
    <3>8. /\ m \in {Available(t.off, p.capacity), Error}
          /\ q.size = m /\ q.index = 0 /\ q.base = t.off /\ q.capacity = p.capacity
          /\ u.at = "pushed" /\ u.off = t.off /\ u.ret = m
      BY <3>1, <3>2, <3>3, <3>4, <1>4
    <3>9. p.size > 0 /\ ~ HasData(p) /\ PipeAt(q, u, i, b, n) /\ (HasData(q) => Start(b) < FileSize)
      BY <3>7, <3>8, PipeAtData
    <3> QED BY <3>1, <3>3, <3>4, <3>5, <3>6, <3>9
  <2>6. ASSUME i = pipeIndex PROVE Position(pipe'[i], k) = Position(pipe[i], k)
    <3>1. Min({Start(k), FileSize}) = IF Start(k) <= FileSize THEN Start(k) ELSE FileSize
      BY <2>0, MinTwo
    <3>2. HasData(pipe'[i]) => Start(k) < FileSize BY <2>5, <2>1, <2>6
    <3> QED BY <3>1, <3>2, <2>0, <2>5, <1>4 DEF Position
  <2>7. pipe[i].size \in Nat BY <2>5, <1>1, Fields
  <2>9. Ending(pipe', push', stopOffset, bs, k, pipeNum)
    <3>1. \A j \in 0 .. pipeNum - 1 : j # i => pipe'[j] = pipe[j] /\ push'[j] = push[j]
      BY <1>3, <1>5
    <3>2. i \in 0 .. pipeNum - 1 /\ ~ pipe'[i].stop BY <1>1, <1>4, <1>5
    <3> QED BY <3>1, <3>2, <2>0, <2>1, <2>4, <2>5, <2>7, <1>4, <1>5, EndData
  <2>10. Ending(pipe', push', stopOffset', bs, k, pipeNum) BY <2>9, <1>1 DEF streamVars
  <2> QED BY <1>6, <1>1, <1>3, <1>4, <2>5, <2>6, <2>10, PushSync DEF bs, streamVars
<1>7. \A j \in Pipes : pipe[j] = Destroyed => pipe'[j] = Destroyed
  <2>1. Destroyed.stop BY DEF Destroyed
  <2> QED BY <1>1, <1>3, <2>1
<1>8. \A j \in Pipes : (pipe[j].size > 0 => pipe[j].index <= pipe[j].size) =>
                               (pipe'[j].size > 0 => pipe'[j].index <= pipe'[j].size)
  <2>1. m \in Int
    <3>1. push[i].off \in Nat /\ pipe[i].capacity \in Nat BY <1>1, Fields
    <3>2. Available(push[i].off, pipe[i].capacity) \in 0 .. pipe[i].capacity
      BY <3>1, AvailableIs
    <3> QED BY <3>1, <3>2, <1>2 DEF Error
  <2> QED BY <2>1, <1>3, <1>4
<1> QED BY <1>1, <1>6, <1>7, <1>8, PushInv DEF streamVars

-----------------------------------------------------------------------------
\* A reader in WaitPop has both mutexes, its offset is serialReadEnd, and what is taken
\* of the current read is what it got.
LEMMA PopperHolds ==
    ASSUME TypeOK, MutexesHeld, NEW r \in Readers, pc[r] = "popping"
    PROVE  /\ pipeMx = r /\ fileMx = r /\ off[r] = serial /\ Taken = got[r]
           /\ got[r] \in Nat /\ serial \in Nat /\ ReadSize \in Nat /\ got[r] <= ReadSize
BY ConstantsOK, FarIs DEF MutexesHeld, Taken, TypeOK

\* Nothing is taken when nobody has the stream's mutex.
LEMMA NobodyTakes ==
    ASSUME pipeMx' = Nobody
    PROVE  Taken' = 0
BY ReadersOK DEF Taken

\* PopEnds keeps StreamInv: a pipe is destroyed where the position is the end of the
\* file, or the stream is broken.
LEMMA PopEndsInv ==
    ASSUME TypeOK, StartsOnce, MutexesHeld, StreamInv, NEW r \in Readers, PopEnds(r)
    PROVE  StreamInv'
<1> DEFINE p == pipe[pipeIndex]
<1>1. /\ push \in [Pipes -> ThreadSet] /\ pipe \in [Pipes -> PipeSet] /\ pipeIndex \in Pipes
      /\ ~ streamStop /\ pc[r] = "popping"
      /\ p.size <= 0 \/ (p.index = p.size /\ p.stop)
      /\ pipe' = [pipe EXCEPT ![pipeIndex] = Destroyed]
      /\ serial' = IF (IF p.size < 0 THEN Error ELSE got[r]) > 0
                     THEN serial + (IF p.size < 0 THEN Error ELSE got[r]) ELSE serial
      /\ broken' = (broken \/ p.size < 0)
      /\ pipeMx' = Nobody
      /\ UNCHANGED <<push, streamStop, stopOffset, pipeIndex, pipeNum>>
  BY Typed DEF PopEnds, AtPipe, PopReturns
<1>2. /\ pipeMx = r /\ Taken = got[r] /\ got[r] \in Nat /\ serial \in Nat
  BY <1>1, PopperHolds
<1>3. p \in PipeSet /\ p.size \in Int /\ p.index \in Nat BY <1>1, Fields
<1>a. pipeMx' = Nobody BY <1>1
<1>4. Taken' = 0 BY <1>a, NobodyTakes
<1>5. /\ serial' \in Nat /\ serial' <= serial + Taken
      /\ ~ (p.size < 0) => serial' = serial + Taken
  BY <1>1, <1>2, <1>3 DEF Error
<1>6. pipe'[pipeIndex] = Destroyed /\ \A j \in Pipes : j # pipeIndex => pipe'[j] = pipe[j]
  BY <1>1
<1>7. Destroyed.size = 0 /\ Destroyed.stop = TRUE BY DEF Destroyed
<1>8. ~ HasData(p) /\ ~ HasData(Destroyed) BY <1>1, <1>3, <1>7 DEF HasData
<1>9. serial' + Taken' <= FileSize
  <2>1. serial + Taken <= FileSize BY DEF StreamInv
  <2>2. Taken \in Nat /\ serial \in Nat /\ FileSize \in Nat BY <1>2, FarIs
  <2>3. PICK s \in Nat : s = serial' BY <1>5
  <2>5. s <= serial + Taken BY <2>3, <1>5
  <2>6. PICK t \in Nat : t = Taken BY <2>2
  <2>4. s + 0 <= FileSize BY <2>1, <2>2, <2>5, <2>6
  <2> QED BY <2>3, <2>4, <1>4
<1>10. (pipeNum > 0 => pipeIndex < pipeNum)'
  <2>1. pipeNum' = pipeNum /\ pipeIndex' = pipeIndex BY <1>1
  <2> QED BY <2>1 DEF StreamInv
<1>11. (\A j \in Pipes : pipe[j].size > 0 => pipe[j].index <= pipe[j].size)'
  BY <1>6, <1>7 DEF StreamInv
<1>12. (~ streamStop /\ broken => pipe[pipeIndex] = Destroyed)' BY <1>1, <1>6
<1> HIDE DEF p
<1>13. ASSUME ~ broken' PROVE \E k \in 0 .. FileSize : Synced(k)'
  <2>a. broken' = (broken \/ p.size < 0) BY <1>1
  <2>b. ~ (p.size < 0) /\ ~ broken BY <2>a, <1>13
  <2>1. ~ (p.size < 0) /\ ~ broken /\ p.size \in Nat BY <2>b, <1>3
  <2>2. PICK k \in 0 .. FileSize : Synced(k) BY <1>1, <2>1 DEF StreamInv
  <2>3. /\ pipeNum # 0 /\ pipeNum \in Nat \ {0} /\ pipeIndex \in 0 .. pipeNum - 1
        /\ Filled = 0 .. pipeNum - 1 /\ Filled \subseteq Pipes /\ pipeIndex \in Filled
    <3>1. pipeNum # 0 BY <1>1 DEF StartsOnce
    <3> QED BY <3>1, Running, Typed DEF Filled
  <2> DEFINE bs == Blocks(k)
  <2>4. k \in Nat BY FarIs
  <2>5. /\ bs \in [0 .. pipeNum - 1 -> Nat] /\ DOMAIN bs = Filled /\ bs[pipeIndex] = k
        /\ bs' = bs /\ Filled' = Filled
    <3>1. bs' = bs /\ Filled' = Filled BY <1>1 DEF Blocks, Filled, Turns
    <3> QED BY <3>1, <2>3, <2>4, BlocksOK, BlocksFilled
  <2>6. /\ serial + Taken = Position(p, k)
        /\ \A i \in Filled : PipeAt(pipe[i], push[i], i, bs[i], pipeNum)
        /\ \A i \in Filled : i # pipeIndex /\ HasData(pipe[i]) => pipe[i].index = 0
        /\ Prefetching => Ending(pipe, push, stopOffset, bs, k, pipeNum)
    BY <2>2 DEF Synced, p
  <2> HIDE DEF bs
  <2>7. serial' + Taken' = Position(Destroyed, k)
    <3>1. Position(Destroyed, k) = Position(p, k) BY <1>8 DEF Position
    <3> QED BY <3>1, <2>1, <2>6, <1>4, <1>5
  <2>8. ASSUME NEW i \in Filled PROVE PipeAt(pipe'[i], push[i], i, bs[i], pipeNum)
    <3>1. CASE i = pipeIndex BY <3>1, <1>6, <1>7, <1>8 DEF PipeAt
    <3>2. CASE i # pipeIndex BY <3>2, <1>6, <2>3, <2>6
    <3> QED BY <3>1, <3>2
  <2>9. \A i \in Filled : i # pipeIndex /\ HasData(pipe'[i]) => pipe'[i].index = 0
    BY <1>6, <2>3, <2>6
  <2>10. ASSUME Prefetching PROVE Ending(pipe', push, stopOffset, bs, k, pipeNum)
    <3>1. Ending(pipe, push, stopOffset, bs, k, pipeNum) BY <2>6, <2>10
    <3>2. /\ NextBlock(p, k, pipeNum) = k /\ NextBlock(Destroyed, k, pipeNum) = k
      BY <1>8 DEF NextBlock
    <3>3. ASSUME ~ p.stop
          PROVE  push[pipeIndex].at \in Quit
                   \/ (push[pipeIndex].off >= FileSize /\ Over(pipe, bs, k))
      <4> DEFINE t == push[pipeIndex]
      <4>1. p.size = 0 BY <3>3, <1>1, <2>1
      <4>2. PipeAt(p, t, pipeIndex, k, pipeNum) BY <2>3, <2>5, <2>6 DEF p
      <4>3. t \in ThreadSet /\ t.at # "none" BY <1>1, <2>3, <2>10 DEF Prefetching, Filled
      <4>4. t.at \notin {"loop", "push", "block", "wait"} BY <4>1, <4>2, <3>3 DEF PipeAt
      <4>5. CASE t.at = "pushed"
        <5>1. Fetched(p, t, k, pipeNum) BY <4>2, <4>5, <3>3 DEF PipeAt
        <5>2. t.off >= FileSize /\ SamePlace(t.off, Start(k)) BY <4>1, <5>1 DEF Fetched
        <5>3. Over(pipe, bs, k) BY <5>2 DEF Over, SamePlace
        <5> QED BY <5>2, <5>3
      <4>6. CASE t.at # "pushed"
        <5>1. t.at \in Quit BY <4>3, <4>4, <4>6 DEF ThreadSet, Quit
        <5> QED BY <5>1
      <4> QED BY <4>5, <4>6
    <3>4. ASSUME NEW j \in Filled
          PROVE  /\ push[j].off \in Nat /\ push[j].off <= push[j].off
                 /\ pipe[j].size < 0 => pipe'[j].size < 0
                 /\ NextBlock(pipe'[j], bs[j], pipeNum) = NextBlock(pipe[j], bs[j], pipeNum)
                 /\ pipe'[j].stop => \/ pipe[j].stop \/ push[j].at \in Quit
                                     \/ /\ push[j].off >= FileSize
                                        /\ Over(pipe, bs, NextBlock(pipe[j], bs[j], pipeNum))
      <4>1. push[j].off \in Nat /\ push[j].off <= push[j].off BY <1>1, <2>3, Fields
      <4>2. CASE j = pipeIndex
        <5>1. pipe[j] = p /\ bs[j] = k /\ pipe'[j] = Destroyed BY <4>2, <1>6, <2>5 DEF p
        <5> QED BY <4>1, <4>2, <5>1, <3>2, <3>3, <2>1
      <4>3. CASE j # pipeIndex BY <4>1, <4>3, <1>6, <2>3
      <4> QED BY <4>2, <4>3
    <3>5. k <= k BY <2>4
    <3> QED BY <3>1, <3>4, <3>5, <2>3, <2>4, <2>5, EndKeep
  <2>11. Prefetching' => Prefetching BY <1>1 DEF Prefetching
  <2>12. Synced(k)'
    BY <1>1, <1>6, <2>5, <2>7, <2>8, <2>9, <2>10, <2>11 DEF Synced, bs
  <2> QED BY <2>12
<1> QED BY <1>9, <1>10, <1>11, <1>12, <1>13 DEF StreamInv

\* What a reader that takes data finds.
\* What PopData can rely on: reader r is at block k and takes n.
PopFacts(r, k, n) ==
    LET p == pipe[pipeIndex] IN
    /\ ~ streamStop /\ ~ broken /\ pipeNum \in Nat \ {0} /\ pipeIndex \in 0 .. pipeNum - 1
    /\ pipe \in [Pipes -> PipeSet] /\ push \in [Pipes -> ThreadSet] /\ Filled \subseteq Pipes
    /\ HasData(p) /\ p.size \in Nat /\ p.index \in Nat
    /\ n \in Nat /\ n > 0 /\ p.index + n <= p.size
    /\ got[r] + n <= ReadSize /\ got[r] \in Nat
    /\ k \in Nat /\ Synced(k) /\ Start(k) \in Nat /\ Start(k) < FileSize
    /\ p.base = Start(k) /\ p.size = Available(Start(k), Cap) /\ Start(k) + p.size <= FileSize
    /\ serial + got[r] = Start(k) + p.index /\ serial \in Nat /\ Taken = got[r]

\* Where the reader is, and how much it takes, when PopData takes data.
LEMMA PopDataFacts ==
    ASSUME TypeOK, StartsOnce, MutexesHeld, StreamInv, NEW r \in Readers, PopData(r)
    PROVE  \E k \in 0 .. FileSize :
             PopFacts(r, k, Min({ReadSize - got[r], pipe[pipeIndex].size - pipe[pipeIndex].index}))
<1> DEFINE p == pipe[pipeIndex]
           n == Min({ReadSize - got[r], p.size - p.index})
<1>1. /\ push \in [Pipes -> ThreadSet] /\ pipe \in [Pipes -> PipeSet] /\ pipeIndex \in Pipes
      /\ ~ streamStop /\ pc[r] = "popping" /\ got[r] # ReadSize
      /\ p.size > 0 /\ p.index # p.size
  BY Typed DEF PopData, AtPipe
<1>2. Taken = got[r] /\ got[r] \in Nat /\ serial \in Nat /\ ReadSize \in Nat /\ got[r] <= ReadSize
  BY <1>1, PopperHolds
<1>3. p \in PipeSet /\ p.size \in Nat /\ p.index \in Nat BY <1>1, Fields
<1>4. p.index <= p.size BY <1>1 DEF StreamInv
<1>5. HasData(p) BY <1>1 DEF HasData
<1> HIDE DEF p
<1>6. n \in Nat /\ n > 0 /\ p.index + n <= p.size /\ got[r] + n <= ReadSize
  <2>1. PICK x \in Nat : x = ReadSize - got[r] /\ x > 0 BY <1>1, <1>2
  <2>2. PICK y \in Nat : y = p.size - p.index /\ y > 0 BY <1>1, <1>3, <1>4
  <2>3. Min({x, y}) = IF x <= y THEN x ELSE y BY MinTwo
  <2>4. n = IF x <= y THEN x ELSE y BY <2>1, <2>2, <2>3
  <2> QED BY <2>1, <2>2, <2>4, <1>2, <1>3
<1>7. ~ broken
  <2>1. Destroyed.size = 0 BY DEF Destroyed
  <2> QED BY <2>1, <1>1, <1>3 DEF StreamInv, p
<1>8. PICK k \in 0 .. FileSize : Synced(k) BY <1>1, <1>7 DEF StreamInv
<1>9. /\ pipeNum # 0 /\ pipeNum \in Nat \ {0} /\ pipeIndex \in 0 .. pipeNum - 1
      /\ Filled \subseteq Pipes /\ pipeIndex \in Filled
  <2>1. pipeNum # 0 BY <1>1 DEF StartsOnce
  <2> QED BY <2>1, Running, Typed
<1>10. k \in Nat /\ Start(k) \in Nat /\ FileSize \in Nat /\ Cap \in Nat BY FarIs, StartNat, StartOne
<1>11. Blocks(k)[pipeIndex] = k BY <1>9, <1>10, BlocksOK
<1>12. PipeAt(p, push[pipeIndex], pipeIndex, k, pipeNum) BY <1>8, <1>9, <1>11 DEF Synced, p
<1>13. p.base = Start(k) /\ Start(k) < FileSize /\ p.size = Available(Start(k), Cap)
  BY <1>5, <1>12 DEF PipeAt
<1>14. Start(k) + p.size <= FileSize
  <2>1. Available(Start(k), Cap) = IF Start(k) >= FileSize THEN 0
          ELSE IF Cap <= FileSize - Start(k) THEN Cap ELSE FileSize - Start(k)
    BY <1>10, AvailableIs
  <2> QED BY <2>1, <1>10, <1>13
<1>15. serial + Taken = Start(k) + p.index
  <2>1. serial + Taken = Position(p, k) BY <1>8 DEF Synced, p
  <2> QED BY <2>1, <1>5 DEF Position
<1>16. serial + got[r] = Start(k) + p.index BY <1>2, <1>15
<1>17. PopFacts(r, k, n)
  BY <1>1, <1>2, <1>3, <1>5, <1>6, <1>7, <1>8, <1>9, <1>10, <1>13, <1>14, <1>16 DEF PopFacts, p
<1> QED BY <1>17 DEF p

\* PopData keeps StreamInv when data is left in the pipe.
LEMMA PopSomeInv ==
    ASSUME TypeOK, StartsOnce, MutexesHeld, StreamInv, NEW r \in Readers, PopData(r),
           NEW k \in 0 .. FileSize, NEW n,
           n = Min({ReadSize - got[r], pipe[pipeIndex].size - pipe[pipeIndex].index}),
           PopFacts(r, k, n), pipe[pipeIndex].index + n # pipe[pipeIndex].size
    PROVE  StreamInv'
<1> DEFINE p == pipe[pipeIndex]
<1>1. /\ got' = [got EXCEPT ![r] = got[r] + n]
      /\ pipe' = [pipe EXCEPT ![pipeIndex] = [p EXCEPT !.index = p.index + n]]
      /\ UNCHANGED <<pipeIndex, push, pipeNum, serial, pipeMx, streamStop, stopOffset, broken>>
      /\ pc[r] = "popping"
  BY DEF PopData, AtPipe, storeVars
<1>2. /\ ~ streamStop /\ ~ broken /\ pipeNum \in Nat \ {0} /\ pipeIndex \in 0 .. pipeNum - 1
      /\ pipe \in [Pipes -> PipeSet] /\ push \in [Pipes -> ThreadSet] /\ Filled \subseteq Pipes
      /\ HasData(p) /\ p.size \in Nat /\ p.index \in Nat
      /\ n \in Nat /\ n > 0 /\ p.index + n <= p.size
      /\ got[r] \in Nat /\ k \in Nat /\ Synced(k) /\ Start(k) \in Nat /\ Start(k) + p.size <= FileSize
      /\ serial + got[r] = Start(k) + p.index /\ serial \in Nat
  BY DEF PopFacts
<1>3. pipeIndex \in Filled /\ pipeIndex \in Pipes /\ p \in PipeSet BY <1>2 DEF Filled
<1>4. pipeMx = r /\ got \in [Readers -> 0 .. ReadSize] BY <1>1, PopperHolds DEF TypeOK
<1>5. Taken' = got[r] + n BY <1>1, <1>4 DEF Taken
<1>6. PICK q : q = [p EXCEPT !.index = p.index + n] OBVIOUS
<1>7. /\ q.size = p.size /\ q.base = p.base /\ q.stop = p.stop /\ q.capacity = p.capacity
      /\ q.index = p.index + n
  BY <1>3, <1>6 DEF PipeSet
<1>8. pipe'[pipeIndex] = q /\ \A j \in Pipes : j # pipeIndex => pipe'[j] = pipe[j]
  BY <1>1, <1>2, <1>3, <1>6
<1>9. p.index + n # p.size OBVIOUS
<1> HIDE DEF p
<1>10. HasData(q) BY <1>2, <1>7, <1>9 DEF HasData
<1>11. serial' + Taken' = Start(k) + q.index /\ serial' + Taken' <= FileSize
  <2>1. serial' = serial BY <1>1
  <2>2. serial + (got[r] + n) = Start(k) + (p.index + n) BY <1>2
  <2>3. Start(k) + (p.index + n) <= FileSize BY <1>2, FarIs
  <2> QED BY <2>1, <2>2, <2>3, <1>5, <1>7
<1> DEFINE bs == Blocks(k)
<1>12. /\ bs \in [0 .. pipeNum - 1 -> Nat] /\ DOMAIN bs = Filled /\ bs[pipeIndex] = k
       /\ bs' = bs /\ Filled' = Filled
  <2>1. bs' = bs /\ Filled' = Filled BY <1>1 DEF Blocks, Filled, Turns
  <2> QED BY <2>1, <1>2, BlocksOK, BlocksFilled
<1>13. /\ \A i \in Filled : PipeAt(pipe[i], push[i], i, bs[i], pipeNum)
       /\ \A i \in Filled : i # pipeIndex /\ HasData(pipe[i]) => pipe[i].index = 0
       /\ Prefetching => Ending(pipe, push, stopOffset, bs, k, pipeNum)
  BY <1>2 DEF Synced
<1> HIDE DEF bs
<1>14. ASSUME NEW i \in Filled PROVE PipeAt(pipe'[i], push[i], i, bs[i], pipeNum)
  <2>1. CASE i = pipeIndex
    <3>1. PipeAt(p, push[i], i, bs[i], pipeNum) BY <2>1, <1>13 DEF p
    <3>2. PipeAt(q, push[i], i, bs[i], pipeNum) BY <3>1, <1>2, <1>7, <1>10, PipeAtPop
    <3> QED BY <3>2, <2>1, <1>8
  <2>2. CASE i # pipeIndex BY <2>2, <1>2, <1>8, <1>13
  <2> QED BY <2>1, <2>2
<1>15. \A i \in Filled : i # pipeIndex /\ HasData(pipe'[i]) => pipe'[i].index = 0
  BY <1>2, <1>8, <1>13
<1>16. ASSUME Prefetching PROVE Ending(pipe', push, stopOffset, bs, k, pipeNum)
  <2>1. Ending(pipe, push, stopOffset, bs, k, pipeNum) BY <1>13, <1>16
  <2>2. ASSUME NEW j \in Filled
        PROVE  /\ push[j].off \in Nat /\ push[j].off <= push[j].off
               /\ pipe[j].size < 0 => pipe'[j].size < 0
               /\ NextBlock(pipe'[j], bs[j], pipeNum) = NextBlock(pipe[j], bs[j], pipeNum)
               /\ pipe'[j].stop => pipe[j].stop
    <3>1. push[j].off \in Nat /\ push[j].off <= push[j].off BY <1>2, Fields
    <3>2. CASE j = pipeIndex
      <4>1. pipe[j] = p /\ pipe'[j] = q BY <3>2, <1>8 DEF p
      <4>2. NextBlock(p, bs[j], pipeNum) = NextBlock(q, bs[j], pipeNum) BY <1>2, <1>10 DEF NextBlock
      <4> QED BY <3>1, <4>1, <4>2, <1>7
    <3>3. CASE j # pipeIndex BY <3>1, <3>3, <1>8, <1>2
    <3> QED BY <3>2, <3>3
  <2>3. k <= k BY <1>2
  <2> QED BY <2>1, <2>2, <2>3, <1>2, <1>12, EndKeep
<1>17. Prefetching' => Prefetching BY <1>1 DEF Prefetching
<1>18. Position(q, k) = Start(k) + q.index BY <1>10 DEF Position
<1>19. Synced(k)'
  BY <1>1, <1>8, <1>11, <1>12, <1>14, <1>15, <1>16, <1>17, <1>18 DEF Synced, bs
<1>20. (\A j \in Pipes : pipe[j].size > 0 => pipe[j].index <= pipe[j].size)'
  <2>1. q.index <= q.size BY <1>2, <1>7
  <2> QED BY <2>1, <1>8 DEF StreamInv
<1>21. (pipeNum > 0 => pipeIndex < pipeNum)'
  <2>1. pipeNum' = pipeNum /\ pipeIndex' = pipeIndex BY <1>1
  <2> QED BY <2>1 DEF StreamInv
<1>22. ~ broken' BY <1>1, <1>2
<1> QED BY <1>11, <1>19, <1>20, <1>21, <1>22 DEF StreamInv

\* The blocks of the pipes when the reader moves on to the next pipe.
LEMMA BlocksMove ==
    ASSUME pipeNum \in Nat \ {0}, pipeIndex \in 0 .. pipeNum - 1, NEW k \in Nat,
           pipeNum' = pipeNum, pipeIndex' = (pipeIndex + 1) % pipeNum
    PROVE  /\ pipeIndex' \in 0 .. pipeNum - 1
           /\ DOMAIN Blocks(k + 1)' = Filled /\ Filled' = Filled
           /\ Blocks(k + 1)'[pipeIndex] = Blocks(k)[pipeIndex] + pipeNum
           /\ \A i \in Filled : i # pipeIndex => Blocks(k + 1)'[i] = Blocks(k)[i]
           /\ Blocks(k + 1)'[pipeIndex'] = k + 1
<1>1. PICK n \in Nat \ {0} : n = pipeNum OBVIOUS
<1>2. PICK x \in 0 .. n - 1 : x = pipeIndex BY <1>1
<1>3. PICK y : y = (x + 1) % n OBVIOUS
<1>a. y = pipeIndex' BY <1>1, <1>2, <1>3
<1>4. /\ y \in 0 .. n - 1
      /\ \A i \in 0 .. n - 1 :
           1 + TurnOf(i, y, n) = IF i = x THEN n + TurnOf(i, x, n) ELSE TurnOf(i, x, n)
  BY <1>3, NextTurn
<1>7. Filled = 0 .. n - 1 /\ Filled' = 0 .. n - 1 BY <1>1 DEF Filled
<1>5. Blocks(k + 1)' = [i \in 0 .. n - 1 |-> (k + 1) + TurnOf(i, y, n)]
  <2>1. Blocks(k + 1)' = [i \in Filled' |-> (k + 1) + TurnOf(i, pipeIndex', pipeNum')]
    BY DEF Blocks, Turns, TurnOf
  <2> QED BY <2>1, <1>1, <1>a, <1>7
<1>6. Blocks(k) = [i \in 0 .. n - 1 |-> k + TurnOf(i, x, n)]
  <2>1. Blocks(k) = [i \in Filled |-> k + TurnOf(i, pipeIndex, pipeNum)]
    BY DEF Blocks, Turns, TurnOf
  <2> QED BY <2>1, <1>1, <1>2, <1>7
<1>8. ASSUME NEW i \in 0 .. n - 1, NEW z \in 0 .. n - 1 PROVE TurnOf(i, z, n) \in Int
  BY TurnIs DEF TurnOf
<1>9. ASSUME NEW i \in 0 .. n - 1
      PROVE  Blocks(k + 1)'[i] = IF i = x THEN Blocks(k)[i] + n ELSE Blocks(k)[i]
  <2>1. PICK a \in Int : a = TurnOf(i, y, n) BY <1>4, <1>8
  <2>2. PICK b \in Int : b = TurnOf(i, x, n) BY <1>8
  <2>3. 1 + a = IF i = x THEN n + b ELSE b BY <1>4, <2>1, <2>2
  <2>4. Blocks(k + 1)'[i] = (k + 1) + a BY <1>5, <2>1
  <2>5. Blocks(k)[i] = k + b BY <1>6, <2>2
  <2>6. (k + 1) + a = IF i = x THEN k + b + n ELSE k + b BY <2>3
  <2> QED BY <2>4, <2>5, <2>6
<1>10. Blocks(k + 1)'[y] = k + 1
  <2>1. TurnOf(y, y, n) = 0 BY <1>4, TurnIs DEF TurnOf
  <2>2. Blocks(k + 1)'[y] = (k + 1) + TurnOf(y, y, n) BY <1>4, <1>5
  <2>3. (k + 1) + 0 = k + 1 OBVIOUS
  <2> QED BY <2>1, <2>2, <2>3
<1>11. DOMAIN Blocks(k + 1)' = 0 .. n - 1 BY <1>5
<1> QED BY <1>1, <1>2, <1>a, <1>4, <1>7, <1>9, <1>10, <1>11

\* PopData keeps StreamInv when it empties the pipe: the reader is at the next block,
\* which is the next pipe's.
LEMMA PopAllInv ==
    ASSUME TypeOK, StartsOnce, MutexesHeld, StreamInv, NEW r \in Readers, PopData(r),
           NEW k \in 0 .. FileSize, NEW n,
           n = Min({ReadSize - got[r], pipe[pipeIndex].size - pipe[pipeIndex].index}),
           PopFacts(r, k, n), pipe[pipeIndex].index + n = pipe[pipeIndex].size
    PROVE  StreamInv'
<1> DEFINE x == pipeIndex
           y == pipeIndex'
           p == pipe[x]
           t == push[x]
           q == IF p.stop THEN Destroyed ELSE [p EXCEPT !.index = p.index + n]
           u == WokenThread(x)
<1>1. /\ got' = [got EXCEPT ![r] = got[r] + n]
      /\ pipe' = [pipe EXCEPT ![x] = q]
      /\ push' = [push EXCEPT ![x] = u]
      /\ pipeIndex' = (x + 1) % pipeNum
      /\ UNCHANGED <<pipeNum, serial, pipeMx, streamStop, stopOffset, broken>>
      /\ pc[r] = "popping"
  BY DEF PopData, AtPipe, storeVars
<1>2. /\ ~ streamStop /\ ~ broken /\ pipeNum \in Nat \ {0} /\ x \in 0 .. pipeNum - 1
      /\ pipe \in [Pipes -> PipeSet] /\ push \in [Pipes -> ThreadSet] /\ Filled \subseteq Pipes
      /\ HasData(p) /\ p.size \in Nat /\ p.index \in Nat
      /\ n \in Nat /\ n > 0 /\ p.index + n <= p.size
      /\ got[r] \in Nat /\ k \in Nat /\ Synced(k) /\ Start(k) \in Nat /\ Start(k) < FileSize
      /\ Start(k) + p.size <= FileSize
      /\ p.size = Available(Start(k), Cap)
      /\ serial + got[r] = Start(k) + p.index /\ serial \in Nat
  BY DEF PopFacts
<1>3. x \in Filled /\ x \in Pipes /\ p \in PipeSet /\ t \in ThreadSet BY <1>2 DEF Filled
<1>4. pipeMx = r /\ got \in [Readers -> 0 .. ReadSize] BY <1>1, PopperHolds DEF TypeOK
<1>5. Taken' = got[r] + n BY <1>1, <1>4 DEF Taken
<1>7. /\ q.stop => p.stop /\ q = Destroyed
      /\ ~ q.stop => q.size = p.size /\ q.index = p.size /\ ~ p.stop /\ q.capacity = p.capacity
  <2>1. CASE p.stop BY <2>1 DEF Destroyed
  <2>2. CASE ~ p.stop BY <2>2, <1>3 DEF PipeSet
  <2> QED BY <2>1, <2>2
<1>8. /\ u.at = t.at \/ (t.at = "wait" /\ u.at = "push")
      /\ u.off = t.off /\ u.ret = t.ret
  BY <1>3 DEF WokenThread, ThreadSet
<1>9. /\ pipe'[x] = q /\ push'[x] = u
      /\ \A j \in Pipes : j # x => pipe'[j] = pipe[j] /\ push'[j] = push[j]
  BY <1>1, <1>2, <1>3
<1>10. p.index + n = p.size OBVIOUS
<1>11. pipeIndex' = (pipeIndex + 1) % pipeNum /\ pipeNum' = pipeNum BY <1>1
<1> DEFINE bs == Blocks(k)
           cs == Blocks(k + 1)'
<1>12. /\ bs \in [0 .. pipeNum - 1 -> Nat] /\ DOMAIN bs = Filled /\ bs[x] = k
       /\ \A i \in Filled : bs[i] \in Nat
  <2>1. Filled = 0 .. pipeNum - 1 BY DEF Filled
  <2>2. pipeIndex \in 0 .. pipeNum - 1 /\ pipeNum \in Nat \ {0} /\ k \in Nat BY <1>2
  <2> QED BY <2>1, <2>2, BlocksOK, BlocksFilled
<1>13. /\ y \in 0 .. pipeNum - 1 /\ DOMAIN cs = Filled /\ Filled' = Filled
       /\ cs[x] = bs[x] + pipeNum /\ \A i \in Filled : i # x => cs[i] = bs[i]
       /\ cs[y] = k + 1 /\ y \in Filled
  <2>1. Filled = 0 .. pipeNum - 1 BY DEF Filled
  <2>2. pipeIndex \in 0 .. pipeNum - 1 /\ pipeNum \in Nat \ {0} /\ k \in Nat BY <1>2
  <2> QED BY <2>1, <2>2, <1>11, BlocksMove
<1>14. /\ \A i \in Filled : PipeAt(pipe[i], push[i], i, bs[i], pipeNum)
       /\ \A i \in Filled : i # x /\ HasData(pipe[i]) => pipe[i].index = 0
       /\ Prefetching => Ending(pipe, push, stopOffset, bs, k, pipeNum)
  BY <1>2 DEF Synced
<1> HIDE DEF x, y, p, t, q, u, bs, cs
<1>15. ~ HasData(q) /\ ~ (q.size < 0) /\ (q.size > 0 => q.index <= q.size) /\ q.size \in Int
  <2>1. Destroyed.size = 0 BY DEF Destroyed
  <2> QED BY <2>1, <1>2, <1>7 DEF HasData
<1>16. ASSUME NEW i \in Filled PROVE PipeAt(pipe'[i], push'[i], i, cs[i], pipeNum)
  <2>1. CASE i = x
    <3>1. PipeAt(p, t, x, k, pipeNum) BY <1>3, <1>12, <1>14 DEF p, t
    <3>2. PipeAt(q, u, x, k + pipeNum, pipeNum)
      BY <3>1, <1>2, <1>3, <1>7, <1>8, <1>15, PipeAtPopAll
    <3> QED BY <3>2, <2>1, <1>9, <1>12, <1>13
  <2>2. CASE i # x BY <2>2, <1>2, <1>9, <1>13, <1>14
  <2> QED BY <2>1, <2>2
<1>17. \A i \in Filled : i # y /\ HasData(pipe'[i]) => pipe'[i].index = 0
  BY <1>2, <1>9, <1>14, <1>15
<1>18. ASSUME Prefetching PROVE Ending(pipe', push', stopOffset, cs, k + 1, pipeNum)
  <2>1. Ending(pipe, push, stopOffset, bs, k, pipeNum) BY <1>14, <1>18
  <2>2. ASSUME NEW j \in Filled
        PROVE  /\ push[j].off \in Nat /\ push'[j].off \in Nat /\ push[j].off <= push'[j].off
               /\ pipe[j].size < 0 => pipe'[j].size < 0 /\ cs[j] = bs[j]
               /\ NextBlock(pipe'[j], cs[j], pipeNum) = NextBlock(pipe[j], bs[j], pipeNum)
               /\ push[j].at \in Quit <=> push'[j].at \in Quit
               /\ pipe'[j].stop => pipe[j].stop
    <3>1. push[j].off \in Nat /\ push[j].off <= push[j].off BY <1>2, Fields
    <3>2. CASE j = x
      <4>1. pipe[j] = p /\ pipe'[j] = q /\ push[j] = t /\ push'[j] = u BY <3>2, <1>9 DEF p, t
      <4>2. NextBlock(q, cs[x], pipeNum) = NextBlock(p, bs[x], pipeNum)
        BY <1>2, <1>13, <1>15 DEF NextBlock
      <4>3. u.at \in Quit <=> t.at \in Quit BY <1>8 DEF Quit
      <4>4. ~ (p.size < 0) BY <1>2
      <4> QED BY <3>1, <3>2, <4>1, <4>2, <4>3, <4>4, <1>7, <1>8
    <3>3. CASE j # x BY <3>1, <3>3, <1>2, <1>9, <1>13
    <3> QED BY <3>2, <3>3
  <2>3. k <= k + 1 /\ k + 1 \in Nat BY <1>2
  <2>4. pipeNum \in Nat \ {0} /\ k \in Nat /\ DOMAIN bs = Filled /\ DOMAIN cs = DOMAIN bs
    BY <1>2, <1>12, <1>13
  <2>5. PICK l \in Nat : l = k + 1 BY <2>3
  <2>6. Ending(pipe', push', stopOffset, cs, l, pipeNum)
    BY <2>1, <2>2, <2>3, <2>4, <2>5, EndKeep
  <2> QED BY <2>5, <2>6
<1>19. Prefetching' => Prefetching
  <2>1. \A i \in 0 .. pipeNum - 1 : push'[i].at # "none" => push[i].at # "none"
    <3> SUFFICES ASSUME NEW i \in 0 .. pipeNum - 1, push'[i].at # "none" PROVE push[i].at # "none"
      OBVIOUS
    <3>0. i \in Pipes BY <1>2 DEF Filled
    <3>1. CASE i = x BY <3>1, <1>8, <1>9 DEF t
    <3>2. CASE i # x BY <3>0, <3>2, <1>9
    <3> QED BY <3>1, <3>2
  <2> QED BY <2>1, <1>1 DEF Prefetching
<1>20. /\ k + 1 \in 0 .. FileSize /\ Start(k + 1) \in Nat
       /\ Start(k + 1) = Start(k) + Cap /\ Cap \in Nat /\ FileSize \in Nat
  <2>1. k <= Start(k) BY <1>2, StartMono
  <2>2. k + 1 \in Nat /\ FileSize \in Nat /\ Cap \in Nat BY <1>2, FarIs, StartOne
  <2>3. Start(k + 1) = Start(k) + Start(1) BY <1>2, StartAdd
  <2> QED BY <2>1, <2>2, <2>3, <1>2, StartOne
<1>21. serial' + Taken' = Min({Start(k + 1), FileSize}) /\ serial' + Taken' <= FileSize
  <2>1. serial' = serial BY <1>1
  <2>2. serial + (got[r] + n) = Start(k) + p.size BY <1>2, <1>10
  <2>3. Available(Start(k), Cap) = IF Start(k) >= FileSize THEN 0
          ELSE IF Cap <= FileSize - Start(k) THEN Cap ELSE FileSize - Start(k)
    BY <1>2, <1>20, AvailableIs
  <2>4. Min({Start(k + 1), FileSize}) = IF Start(k + 1) <= FileSize THEN Start(k + 1) ELSE FileSize
    BY <1>20, MinTwo
  <2>5. Start(k) + p.size = Min({Start(k + 1), FileSize}) BY <2>3, <2>4, <1>2, <1>20
  <2> QED BY <2>1, <2>2, <2>5, <1>2, <1>5
<1>22. Position(pipe'[y], k + 1) = Min({Start(k + 1), FileSize})
  <2>1. CASE ~ HasData(pipe'[y]) BY <2>1 DEF Position
  <2>2. CASE HasData(pipe'[y])
    <3>1. y # x /\ y \in Pipes BY <2>2, <1>2, <1>9, <1>13, <1>15
    <3>2. pipe'[y].index = 0 BY <2>2, <3>1, <1>9, <1>13, <1>14
    <3>3. PipeAt(pipe'[y], push'[y], y, k + 1, pipeNum) BY <1>13, <1>16
    <3>4. Start(k + 1) < FileSize BY <2>2, <3>3 DEF PipeAt
    <3>5. Min({Start(k + 1), FileSize}) = IF Start(k + 1) <= FileSize THEN Start(k + 1) ELSE FileSize
      BY <1>20, MinTwo
    <3> QED BY <2>2, <3>2, <3>4, <3>5, <1>20 DEF Position
  <2> QED BY <2>1, <2>2
<1>23. Synced(k + 1)'
  <2>1. (serial + Taken)' = Position(pipe[pipeIndex], k + 1)' BY <1>21, <1>22 DEF y
  <2>2. \A i \in Filled' : PipeAt(pipe'[i], push'[i], i, Blocks(k + 1)'[i], pipeNum')
    BY <1>13, <1>16, <1>11 DEF cs
  <2>3. \A i \in Filled' : i # pipeIndex' /\ HasData(pipe'[i]) => pipe'[i].index = 0
    BY <1>13, <1>17 DEF y
  <2>4. Prefetching' => Ending(pipe', push', stopOffset', Blocks(k + 1)', k + 1, pipeNum')
    BY <1>1, <1>18, <1>19 DEF cs
  <2> QED BY <2>1, <2>2, <2>3, <2>4 DEF Synced
<1>24. (\A j \in Pipes : pipe[j].size > 0 => pipe[j].index <= pipe[j].size)'
  BY <1>9, <1>15 DEF StreamInv
<1>25. (pipeNum > 0 => pipeIndex < pipeNum)'
  BY <1>2, <1>11, <1>13 DEF y
<1>26. ~ broken' BY <1>1, <1>2
<1> QED BY <1>20, <1>21, <1>23, <1>24, <1>25, <1>26 DEF StreamInv

-----------------------------------------------------------------------------
\* ReadStream::Init makes at least one pipe and at most QUEUE_SIZE of them.
LEMMA NeededPipesOK == NeededPipes \in 1 .. QueueSize
<1>1. /\ FileSize \in Nat \ {0} /\ Cap \in Nat \ {0} /\ QueueSize \in Nat \ {0}
  BY ConstantsOK
<1>2. PICK a \in Nat : a = FileSize + Cap - 1 /\ a >= Cap BY <1>1
<1>3. PICK d \in Nat \ {0} : d = (FileSize + Cap - 1) \div Cap BY <1>1, <1>2, Quo
<1>4. NeededPipes = IF d <= QueueSize THEN d ELSE QueueSize BY <1>1, <1>3, MinTwo DEF NeededPipes
<1> QED BY <1>1, <1>3, <1>4

\* From pipe 0 it is i turns to pipe i.
LEMMA FirstIndex ==
    ASSUME NEW n \in Nat \ {0}
    PROVE  /\ 0 \in 0 .. n - 1
           /\ \A i \in 0 .. n - 1 : TurnOf(i, 0, n) = i /\ 0 + TurnOf(i, 0, n) = i
<1>1. 0 \in 0 .. n - 1 OBVIOUS
<1>2. ASSUME NEW i \in 0 .. n - 1 PROVE TurnOf(i, 0, n) = i /\ 0 + TurnOf(i, 0, n) = i
  <2>1. PICK x \in 0 .. n - 1 : x = 0 BY <1>1
  <2>2. TurnOf(i, x, n) = IF i >= x THEN i - x ELSE i - x + n BY TurnIs DEF TurnOf
  <2>3. TurnOf(i, x, n) = i /\ i \in Nat BY <2>1, <2>2
  <2>4. TurnOf(i, 0, n) = i BY <2>1, <2>3
  <2>5. 0 + i = i BY <2>3
  <2> QED BY <2>4, <2>5
<1> QED BY <1>1, <1>2

\* A stream that has just been initialised, or whose Init failed, is at block 0.
LEMMA FreshSync ==
    ASSUME pipeNum' \in Nat \ {0}, pipeIndex' = 0, serial' = 0, Taken' = 0,
           \A i \in 0 .. pipeNum' - 1 :
             /\ push'[i].at = "none" /\ ~ HasData(pipe'[i])
             /\ ~ pipe'[i].stop => pipe'[i].capacity = Cap /\ pipe'[i].size > 0
    PROVE  Synced(0)'
<1>1. Filled' = 0 .. pipeNum' - 1 /\ 0 \in 0 .. pipeNum' - 1
  <2>1. 0 \in 0 .. pipeNum' - 1 BY FirstIndex
  <2> QED BY <2>1 DEF Filled
<1>2. Blocks(0)' = [i \in 0 .. pipeNum' - 1 |-> 0 + TurnOf(i, 0, pipeNum')]
  BY DEF Blocks, Turns, TurnOf, Filled
<1>3. ASSUME NEW i \in 0 .. pipeNum' - 1 PROVE Blocks(0)'[i] = i
  <2>1. 0 + TurnOf(i, 0, pipeNum') = i BY FirstIndex
  <2>2. Blocks(0)'[i] = 0 + TurnOf(i, 0, pipeNum') BY <1>2
  <2> QED BY <2>1, <2>2
<1>4. ASSUME NEW i \in 0 .. pipeNum' - 1
      PROVE  PipeAt(pipe'[i], push'[i], i, Blocks(0)'[i], pipeNum')
  BY <1>3 DEF PipeAt
<1>5. (serial + Taken)' = Position(pipe[pipeIndex], 0)'
  <2>1. ~ HasData(pipe'[0]) BY <1>1
  <2>2. Start(0) = 0 /\ FileSize \in Nat BY StartOne, FarIs
  <2>3. Min({0, FileSize}) = IF 0 <= FileSize THEN 0 ELSE FileSize BY <2>2, MinTwo
  <2>4. Position(pipe'[0], 0) = 0 BY <2>1, <2>2, <2>3 DEF Position
  <2>5. 0 + 0 = 0 OBVIOUS
  <2> QED BY <2>4, <2>5
<1>6. ~ Prefetching' BY <1>1 DEF Prefetching
<1> QED BY <1>1, <1>4, <1>5, <1>6 DEF Synced

\* ReadStream::Init keeps StreamInv, also when it fails.
LEMMA StreamInitInv ==
    ASSUME TypeOK, StartsOnce, StreamInv, NEW r \in Readers, StreamInit(r) \/ StreamInitFails(r)
    PROVE  StreamInv'
<1>1. /\ pc[r] = "begin" /\ pipeMx = Nobody /\ pipeNum' = NeededPipes /\ streamStop' = FALSE
      /\ UNCHANGED <<got, serial, pipeMx, pipeIndex, push, broken>>
  BY DEF StreamInit, StreamInitFails, callVars, storeVars
<1>2. pipeNum = 0 BY <1>1 DEF StartsOnce
<1>3. /\ ~ broken /\ serial = 0 /\ pipeIndex = 0
      /\ \A i \in Pipes : pipe[i] = Destroyed /\ push[i].at = "none"
  BY <1>2 DEF StartsOnce
<1>4. Taken' = 0 BY <1>1, ReadersOK DEF Taken
<1>5. NeededPipes \in Nat \ {0} /\ \A i \in 0 .. NeededPipes - 1 : i \in Pipes /\ i < NeededPipes
  BY NeededPipesOK, ConstantsOK DEF Pipes
<1>6. /\ Destroyed.size = 0 /\ Destroyed.stop = TRUE /\ ~ HasData(Destroyed)
  BY DEF Destroyed, HasData
<1>7. ASSUME NEW i \in Pipes
      PROVE  /\ ~ HasData(pipe'[i])
             /\ pipe'[i].size > 0 => pipe'[i].index <= pipe'[i].size
             /\ i < NeededPipes /\ ~ pipe'[i].stop => pipe'[i].capacity = Cap /\ pipe'[i].size > 0
  <2>1. CASE pipe'[i] = pipe[i] BY <2>1, <1>3, <1>6
  <2>2. CASE pipe'[i] = [capacity |-> Cap, size |-> Cap, index |-> Cap, stop |-> FALSE, base |-> 0]
    <3>1. Cap \in Nat \ {0} BY StartOne
    <3>2. pipe'[i].size = Cap /\ pipe'[i].index = Cap /\ pipe'[i].capacity = Cap BY <2>2
    <3> QED BY <3>1, <3>2 DEF HasData
  <2>3. pipe' = pipe \/ pipe' = [j \in Pipes |->
          IF j < NeededPipes
            THEN [capacity |-> Cap, size |-> Cap, index |-> Cap, stop |-> FALSE, base |-> 0]
            ELSE pipe[j]]
    BY DEF StreamInit, StreamInitFails
  <2> QED BY <2>1, <2>2, <2>3
<1>8. Synced(0)'
  <2>1. \A i \in 0 .. pipeNum' - 1 :
             /\ push'[i].at = "none" /\ ~ HasData(pipe'[i])
             /\ ~ pipe'[i].stop => pipe'[i].capacity = Cap /\ pipe'[i].size > 0
    BY <1>1, <1>3, <1>5, <1>7
  <2>2. pipeNum' \in Nat \ {0} /\ pipeIndex' = 0 /\ serial' = 0 BY <1>1, <1>3, <1>5
  <2> QED BY <2>1, <2>2, <1>4, FreshSync
<1>9. serial' + Taken' <= FileSize
  <2>1. serial' = 0 BY <1>1, <1>3
  <2>2. 0 + 0 <= FileSize BY FarIs
  <2> QED BY <2>1, <2>2, <1>4
<1>10. 0 \in 0 .. FileSize BY FarIs
<1>11. ~ broken' /\ pipeIndex' = 0 /\ pipeNum' > 0 BY <1>1, <1>3, <1>5
<1>12. (\A j \in Pipes : pipe[j].size > 0 => pipe[j].index <= pipe[j].size)' BY <1>7
<1>13. (pipeNum > 0 => pipeIndex < pipeNum)'
  BY <1>1, <1>5, <1>11
<1> QED BY <1>8, <1>9, <1>10, <1>11, <1>12, <1>13 DEF StreamInv

\* StartPushThreaded keeps StreamInv: thread i starts at block i.
LEMMA StartPushInv ==
    ASSUME TypeOK, StartsOnce, StreamInv, NEW r \in Readers, StartPushThreaded(r)
    PROVE  StreamInv'
<1>1. /\ pc[r] = "start"
      /\ push' = [i \in Pipes |-> IF i < pipeNum
                                  THEN [at |-> "loop", off |-> i * Cap, ret |-> 0]
                                  ELSE push[i]]
      /\ UNCHANGED <<got, serial, pipeMx, streamStop, stopOffset, pipeIndex, pipeNum, pipe, broken>>
  BY DEF StartPushThreaded, callVars, storeVars, streamVars
<1>2. (\A i \in Pipes : push[i].at = "none") /\ stopOffset = Infinity BY <1>1 DEF StartsOnce
<1>3. ASSUME ~ streamStop, NEW k \in 0 .. FileSize, Synced(k) PROVE Synced(k)'
  <2>1. \A i \in Filled : ~ pipe[i].stop /\ ~ HasData(pipe[i]) BY <1>1, <1>3 DEF StartsOnce
  <2>2. /\ pipeNum # 0 /\ pipeNum \in Nat \ {0} /\ pipeIndex \in 0 .. pipeNum - 1
        /\ Filled \subseteq Pipes /\ pipeIndex \in Filled
    <3>1. pipeNum # 0 BY <1>3 DEF StartsOnce
    <3> QED BY <3>1, Running, Typed
  <2>3. \A i \in Filled : push'[i].at = "loop" /\ push'[i].off = Start(i)
    <3>1. \A i \in Filled : i < pipeNum BY <2>2 DEF Filled
    <3>2. ASSUME NEW i \in Filled PROVE push'[i].at = "loop" /\ push'[i].off = Start(i)
      <4>1. push'[i] = [at |-> "loop", off |-> i * Cap, ret |-> 0] BY <1>1, <2>2, <3>1
      <4> QED BY <4>1 DEF Start
    <3> QED BY <3>2
  <2>4. Blocks(k)' = Blocks(k) /\ Filled' = Filled /\ Taken' = Taken /\ DOMAIN Blocks(k) = Filled
    BY <1>1 DEF Blocks, Filled, Turns, Taken
  <2>5. ASSUME NEW i \in Filled PROVE PipeAt(pipe[i], push'[i], i, Blocks(k)[i], pipeNum)
    <3>1. PipeAt(pipe[i], push[i], i, Blocks(k)[i], pipeNum) BY <1>3 DEF Synced
    <3>2. Blocks(k)[i] = i /\ pipe[i].size > 0 /\ pipe[i].capacity = Cap
      BY <3>1, <1>2, <2>1, <2>2 DEF PipeAt
    <3>3. NextBlock(pipe[i], Blocks(k)[i], pipeNum) = i BY <3>2, <2>1 DEF NextBlock
    <3> QED BY <3>2, <3>3, <2>1, <2>3 DEF PipeAt, SamePlace
  <2>6. Ending(pipe, push', stopOffset, Blocks(k), k, pipeNum)
    <3>1. ASSUME NEW c \in Nat, Start(c) >= stopOffset PROVE Start(c) >= FileSize
      <4>1. /\ Start(c) \in Nat /\ FileSize \in Nat BY StartNat, FarIs
      <4>2. stopOffset \in Nat /\ stopOffset >= FileSize BY <1>2, FarIs
      <4> QED BY <4>1, <4>2, <3>1
    <3>2. ASSUME NEW c \in Nat, Start(c) >= stopOffset PROVE Over(pipe, Blocks(k), c)
      BY <3>1, <3>2 DEF Over
    <3>3. ASSUME NEW i \in Filled PROVE EndAt(pipe, push'[i], stopOffset, Blocks(k), i, pipeNum)
      <4>1. NextBlock(pipe[i], Blocks(k)[i], pipeNum) \in Nat
        <5>1. k \in Nat BY FarIs
        <5>2. Blocks(k)[i] \in Nat BY <5>1, <2>2, BlocksOK DEF Filled
        <5> QED BY <5>2, <2>1 DEF NextBlock
      <4> QED BY <4>1, <3>2, <2>1, <2>3 DEF EndAt
    <3>4. \A c \in 0 .. FileSize : c \in Nat BY FarIs
    <3> QED BY <3>2, <3>3, <3>4, <2>4 DEF Ending
  <2> QED BY <1>1, <1>3, <2>4, <2>5, <2>6 DEF Synced
<1>4. Taken' = Taken BY <1>1 DEF Taken
<1> QED BY <1>1, <1>3, <1>4 DEF StreamInv

-----------------------------------------------------------------------------
\* The steps that leave the stream and its pipes alone keep StreamInv.
LEMMA QuietInv ==
    ASSUME TypeOK, StartsOnce, MutexesHeld, StreamInv,
           \/ \E r \in Readers :
                \/ \E o \in Offsets : Read(r, o)
                \/ NotStarted(r) \/ Check(r) \/ Lock(r) \/ RandomRead(r) \/ WaitPop(r)
                \/ PopEnough(r) \/ PopMustWait(r) \/ PopBlock(r)
           \/ \E a \in Actors : StopReturns(a)
           \/ Write \/ Close \/ WaitPushEnded
    PROVE  StreamInv'
<1> USE DEF callVars, storeVars, streamVars
<1>0. UNCHANGED <<pipe, push, streamStop, stopOffset, pipeIndex, pipeNum, broken>>
  BY DEF Read, NotStarted, Check, Lock, RandomRead, WaitPop, PopEnough, PopMustWait, PopBlock,
         StopReturns, Write, Close, WaitPushEnded
<1>1. ASSUME UNCHANGED <<serial, got, pipeMx>> PROVE (serial + Taken)' = serial + Taken
  BY <1>1 DEF Taken
<1>2. ASSUME NEW r \in Readers, RandomRead(r) PROVE (serial + Taken)' = serial + Taken
  <2>1. got[r] = 0 BY <1>2 DEF MutexesHeld, RandomRead
  <2>2. got' = got BY <1>2, <2>1 DEF RandomRead, Finish, TypeOK
  <2> QED BY <2>2, <1>1, <1>2 DEF RandomRead
<1>3. ASSUME NEW r \in Readers, WaitPop(r) PROVE (serial + Taken)' = serial + Taken
  <2>1. got[r] = 0 /\ got' = got /\ serial' = serial BY <1>3 DEF MutexesHeld, WaitPop
  <2>2. Taken = 0 BY <1>3, ReadersOK DEF Taken, WaitPop
  <2>3. Taken' = 0 BY <1>3, <2>1 DEF Taken, WaitPop
  <2> QED BY <2>1, <2>2, <2>3
<1>4. ASSUME NEW r \in Readers, PopEnough(r) PROVE (serial + Taken)' = serial + Taken
  <2>1. /\ pc[r] = "popping" /\ pipeMx' = Nobody
        /\ serial' = IF got[r] > 0 THEN serial + got[r] ELSE serial
    BY <1>4 DEF PopEnough, PopReturns
  <2>2. Taken = got[r] /\ got[r] \in Nat /\ serial \in Nat BY <2>1, PopperHolds
  <2>3. Taken' = 0 BY <2>1, NobodyTakes
  <2>4. PICK g \in Nat, s \in Nat : g = got[r] /\ s = serial BY <2>2
  <2>5. serial' = s + g BY <2>1, <2>4
  <2>6. (s + g) + 0 = s + g BY <2>4
  <2> QED BY <2>2, <2>3, <2>4, <2>5, <2>6
<1>5. ASSUME NEW a \in Actors, StopReturns(a) PROVE (serial + Taken)' = serial + Taken
  <2>1. pc[a] = "stopping" /\ pipeMx' = Nobody /\ serial' = serial BY <1>5 DEF StopReturns
  <2>2. pipeMx = a BY <2>1 DEF MutexesHeld
  <2>3. a \in Readers => got[a] = 0 BY <2>1 DEF MutexesHeld
  <2>4. Taken = 0 BY <2>2, <2>3 DEF Taken
  <2>5. Taken' = 0 BY <2>1, NobodyTakes
  <2> QED BY <2>1, <2>4, <2>5
<1>6. (serial + Taken)' = serial + Taken
  <2>1. CASE \E r \in Readers : \/ \E o \in Offsets : Read(r, o)
                                \/ NotStarted(r) \/ Check(r) \/ Lock(r) \/ PopMustWait(r) \/ PopBlock(r)
    BY <2>1, <1>1 DEF Read, NotStarted, Check, Lock, PopMustWait, PopBlock
  <2>2. CASE Write \/ Close \/ WaitPushEnded BY <2>2, <1>1 DEF Write, Close, WaitPushEnded
  <2> QED BY <2>1, <2>2, <1>2, <1>3, <1>4, <1>5
<1> QED BY <1>0, <1>6, QuietStep

\* StopPushThreaded keeps StreamInv.
LEMMA StopInv ==
    ASSUME TypeOK, MutexesHeld, StreamInv, NEW a \in Actors,
           StopPushThreaded(a) \/ \E i \in Pipes : StopPipe(a, i)
    PROVE  StreamInv'
<1> USE DEF callVars, storeVars
<1>1. CASE StopPushThreaded(a)
  <2>1. /\ pc[a] = "stop" /\ pipeMx = Nobody /\ pipeMx' = a /\ streamStop'
        /\ UNCHANGED <<got, serial, pipe, pipeNum, pipeIndex>>
    BY <1>1 DEF StopPushThreaded
  <2>2. Taken = 0 BY <2>1, ReadersOK DEF Taken
  <2>3. a \in Readers => got[a] = 0 BY <2>1 DEF MutexesHeld
  <2>4. Taken' = 0 BY <2>1, <2>3 DEF Taken
  <2>5. (serial + Taken)' = serial + Taken BY <2>1, <2>2, <2>4
  <2> QED BY <2>1, <2>5 DEF StreamInv
<1>2. ASSUME NEW i \in Pipes, StopPipe(a, i) PROVE StreamInv'
  <2>1. /\ streamStop' /\ pipe' = [pipe EXCEPT ![i] = Destroyed]
        /\ UNCHANGED <<got, serial, pipeMx, pipeNum, pipeIndex>>
    BY <1>2 DEF StopPipe, MutexesHeld
  <2>2. (serial + Taken)' = serial + Taken BY <2>1 DEF Taken
  <2>3. Destroyed.size = 0 BY DEF Destroyed
  <2>4. \A j \in Pipes : pipe'[j] = pipe[j] \/ pipe'[j] = Destroyed BY <2>1, Typed
  <2>5. (\A j \in Pipes : pipe[j].size > 0 => pipe[j].index <= pipe[j].size)'
    BY <2>3, <2>4 DEF StreamInv
  <2> QED BY <2>1, <2>2, <2>5 DEF StreamInv
<1> QED BY <1>1, <1>2

\* Every step keeps StreamInv.
LEMMA StreamStep ==
    ASSUME TypeOK, StartsOnce, MutexesHeld, StreamInv, [Next]_vars
    PROVE  StreamInv'
<1>1. CASE UNCHANGED vars
  <2>1. UNCHANGED <<pipe, push, streamStop, stopOffset, pipeIndex, pipeNum, broken, serial, got, pipeMx>>
    BY <1>1 DEF vars, callVars, storeVars, streamVars
  <2>2. (serial + Taken)' = serial + Taken BY <2>1 DEF Taken
  <2> QED BY <2>1, <2>2, QuietStep
<1>2. ASSUME NEW r \in Readers, PopData(r) PROVE StreamInv'
  <2>1. PICK n : n = Min({ReadSize - got[r], pipe[pipeIndex].size - pipe[pipeIndex].index}) OBVIOUS
  <2>2. PICK k \in 0 .. FileSize : PopFacts(r, k, n) BY <1>2, <2>1, PopDataFacts
  <2> QED BY <1>2, <2>1, <2>2, PopSomeInv, PopAllInv
<1>3. ASSUME NEW r \in Readers, ReadStep(r) PROVE StreamInv'
  <2>1. CASE StreamInit(r) \/ StreamInitFails(r) BY <2>1, StreamInitInv
  <2>2. CASE StartPushThreaded(r) BY <2>2, StartPushInv
  <2>3. CASE PopEnds(r) BY <2>3, PopEndsInv
  <2>4. CASE NotStarted(r) \/ Check(r) \/ Lock(r) \/ RandomRead(r) \/ WaitPop(r)
                \/ PopEnough(r) \/ PopMustWait(r) \/ PopBlock(r)
    BY <2>4, QuietInv
  <2> QED BY <1>2, <1>3, <2>1, <2>2, <2>3, <2>4 DEF ReadStep
<1>4. ASSUME NEW i \in Pipes, PushStep(i) PROVE StreamInv'
  BY <1>4, PushLoopInv, PushMovesInv, PushDataInv, PushedInv, PushExitInv DEF PushStep
<1>5. ASSUME NEW a \in Actors, StopStep(a) PROVE StreamInv'
  BY <1>5, StopInv, QuietInv DEF StopStep
<1>6. CASE \E r \in Readers, o \in Offsets : Read(r, o) BY <1>6, QuietInv
<1>7. CASE Write \/ Close \/ WaitPushEnded BY <1>7, QuietInv
<1> QED BY <1>1, <1>3, <1>4, <1>5, <1>6, <1>7 DEF Next

-----------------------------------------------------------------------------
\* The values of pc.
PcSet == {"idle", "begin", "failed", "start", "check", "lock", "pop", "popping", "block",
          "wait", "random", "stop", "stopping", "join", "closed"}

\* What Goto does to pc.
LEMMA GotoOK ==
    ASSUME TypeOK, NEW a \in Actors, NEW s \in PcSet, Goto(a, s)
    PROVE  /\ pc' \in [Actors -> PcSet] /\ pc'[a] = s
           /\ \A b \in Actors : b # a => pc'[b] = pc[b]
BY DEF TypeOK, Goto, PcSet

\* Waking readers moves only those that wait.
LEMMA WokenOK ==
    ASSUME TypeOK, NEW i, pc' = WokenReaders(i)
    PROVE  /\ pc' \in [Actors -> PcSet]
           /\ \A b \in Actors : pc'[b] = pc[b] \/ (pc[b] = "wait" /\ pc'[b] = "popping")
BY DEF TypeOK, WokenReaders, PcSet

\* Readers, the writer and the closer are the actors.
LEMMA ActorsOK == Readers \subseteq Actors /\ Writer \in Actors /\ Closer \in Actors
BY DEF Actors

\* The steps that change where somebody is, and the store's part of the state, keep
\* TypeOK.
LEMMA StoreTypes ==
    ASSUME TypeOK, MutexesHeld, StreamInv,
           \/ \E r \in Readers :
                \/ \E o \in Offsets : Read(r, o)
                \/ NotStarted(r) \/ Check(r) \/ Lock(r) \/ RandomRead(r) \/ WaitPop(r)
                \/ PopEnough(r) \/ PopMustWait(r) \/ PopBlock(r)
           \/ \E a \in Actors : StopReturns(a) \/ StopPushThreaded(a)
           \/ Write \/ Close \/ WaitPushEnded
    PROVE  TypeOK'
<1> USE ActorsOK DEF callVars, storeVars, streamVars
<1>1. ASSUME NEW r \in Readers, NEW o \in Offsets, Read(r, o) PROVE TypeOK'
  <2>1. pc' \in [Actors -> PcSet] BY <1>1, GotoOK DEF Read, PcSet
  <2>2. off' \in [Readers -> 0 .. FileSize] BY <1>1 DEF Read, TypeOK, Offsets
  <2>3. reads' \in [Readers -> 0 .. MaxReads]
    <3>1. reads[r] + 1 \in 0 .. MaxReads BY <1>1, ConstantsOK DEF Read, TypeOK
    <3> QED BY <3>1, <1>1 DEF Read, TypeOK
  <2> QED BY <1>1, <2>1, <2>2, <2>3 DEF Read, TypeOK, PcSet
<1>2. ASSUME NEW r \in Readers,
             NotStarted(r) \/ Check(r) \/ Lock(r) \/ WaitPop(r) \/ PopMustWait(r) \/ PopBlock(r)
      PROVE  TypeOK'
  <2>1. pc' \in [Actors -> PcSet]
    BY <1>2, GotoOK DEF NotStarted, Check, Lock, WaitPop, PopMustWait, PopBlock, PcSet
  <2> QED BY <1>2, <2>1 DEF NotStarted, Check, Lock, WaitPop, PopMustWait, PopBlock, TypeOK, PcSet
<1>3. ASSUME NEW r \in Readers, Finish(r)
      PROVE  /\ pc' \in [Actors -> PcSet]
             /\ off' \in [Readers -> 0 .. FileSize] /\ got' \in [Readers -> 0 .. ReadSize]
  <2>1. pc' \in [Actors -> PcSet] BY <1>3, GotoOK DEF Finish, PcSet
  <2>2. 0 \in 0 .. FileSize /\ 0 \in 0 .. ReadSize BY ConstantsOK
  <2> QED BY <1>3, <2>1, <2>2 DEF Finish, TypeOK
<1>4. ASSUME NEW r \in Readers, RandomRead(r) PROVE TypeOK'
  BY <1>3, <1>4 DEF RandomRead, TypeOK, PcSet
<1>5. ASSUME NEW r \in Readers, PopEnough(r) PROVE TypeOK'
  <2>1. pc[r] = "popping" /\ Finish(r) BY <1>5 DEF PopEnough, PopReturns
  <2>2. Taken = got[r] /\ got[r] \in Nat /\ serial \in Nat BY <2>1, PopperHolds
  <2>3. serial + got[r] <= FileSize BY <2>2 DEF StreamInv
  <2>4. serial' \in 0 .. FileSize
    <3>1. serial' = IF got[r] > 0 THEN serial + got[r] ELSE serial
      BY <1>5 DEF PopEnough, PopReturns
    <3> QED BY <3>1, <2>2, <2>3, FarIs DEF TypeOK
  <2> QED BY <1>3, <1>5, <2>1, <2>4 DEF PopEnough, PopReturns, TypeOK, PcSet
<1>6. ASSUME NEW a \in Actors, StopReturns(a) PROVE TypeOK'
  <2>1. pc' \in [Actors -> PcSet] BY <1>6, GotoOK DEF StopReturns, PcSet
  <2> QED BY <1>6, <2>1 DEF StopReturns, TypeOK, PcSet
<1>7. ASSUME NEW a \in Actors, StopPushThreaded(a) PROVE TypeOK'
  <2>1. pc' \in [Actors -> PcSet] BY <1>7, GotoOK DEF StopPushThreaded, PcSet
  <2> QED BY <1>7, <2>1 DEF StopPushThreaded, TypeOK, PcSet
<1>8. CASE Write \/ Close \/ WaitPushEnded
  <2>1. pc' \in [Actors -> PcSet] BY <1>8, GotoOK DEF Write, Close, WaitPushEnded, PcSet
  <2> QED BY <1>8, <2>1 DEF Write, Close, WaitPushEnded, TypeOK, PcSet
<1> QED BY <1>1, <1>2, <1>4, <1>5, <1>6, <1>7, <1>8

\* What is left to show of a step that changes pipes and threads.
LEMMA PipeTypes ==
    ASSUME TypeOK, UNCHANGED <<off, reads, storeVars, pipeMx, streamStop, toStop>>,
           pc' \in [Actors -> PcSet], got' \in [Readers -> 0 .. ReadSize],
           stopOffset' \in 0 .. Infinity, pipeIndex' \in Pipes, pipeNum' \in 0 .. QueueSize,
           pipe' \in [Pipes -> PipeSet], push' \in [Pipes -> ThreadSet], broken' \in BOOLEAN
    PROVE  TypeOK'
BY DEF TypeOK, PcSet, PipeSet, ThreadSet, storeVars

\* Waking a thread starts or ends none.
LEMMA WokenThreadOK ==
    ASSUME TypeOK, NEW i \in Pipes
    PROVE  /\ WokenThread(i) \in ThreadSet
           /\ WokenThread(i).at = "none" <=> push[i].at = "none"
<1>1. push[i] \in ThreadSet BY Typed
<1>2. [push[i] EXCEPT !.at = "push"] \in ThreadSet /\ [push[i] EXCEPT !.at = "push"].at = "push"
  BY <1>1 DEF ThreadSet
<1> QED BY <1>1, <1>2 DEF WokenThread

\* The threads' steps keep TypeOK.
LEMMA PushTypes ==
    ASSUME TypeOK, StartsOnce, StreamInv, NEW i \in Pipes, PushStep(i)
    PROVE  TypeOK'
<1> USE DEF callVars, storeVars, streamVars
<1>0. /\ UNCHANGED <<off, got, reads, storeVars, pipeMx, streamStop, pipeIndex, pipeNum, toStop, broken>>
      /\ pc \in [Actors -> PcSet] /\ got \in [Readers -> 0 .. ReadSize]
      /\ stopOffset \in 0 .. Infinity /\ pipeIndex \in Pipes /\ pipeNum \in 0 .. QueueSize
      /\ broken \in BOOLEAN /\ pipe \in [Pipes -> PipeSet] /\ push \in [Pipes -> ThreadSet]
  BY Typed DEF PushStep, PushLoop, PushMustWait, PushBlock, PushStopped, PushData, Pushed, PushExit,
         PushNotify, TypeOK, PcSet
<1>1. push[i] \in ThreadSet /\ pipe[i] \in PipeSet BY <1>0
<1>2. pc' \in [Actors -> PcSet]
  BY <1>0, WokenOK DEF PushStep, PushLoop, PushMustWait, PushBlock, PushStopped, PushData, Pushed,
         PushExit, PushNotify
<1>3. 0 \in Error .. Cap /\ 0 \in 0 .. Cap BY StartOne DEF Error
<1>4. ASSUME NEW a \in {"loop", "push", "block", "wait", "pushed", "exit", "notify", "ended"}
      PROVE  /\ [push EXCEPT ![i].at = a] \in [Pipes -> ThreadSet]
             /\ \A m \in Error .. Cap : [push EXCEPT ![i].at = a, ![i].ret = m] \in [Pipes -> ThreadSet]
             /\ \A o \in 0 .. Far : [push EXCEPT ![i].at = a, ![i].off = o] \in [Pipes -> ThreadSet]
  <2>1. /\ [push[i] EXCEPT !.at = a] \in ThreadSet
        /\ \A m \in Error .. Cap : [[push[i] EXCEPT !.at = a] EXCEPT !.ret = m] \in ThreadSet
        /\ \A o \in 0 .. Far : [[push[i] EXCEPT !.at = a] EXCEPT !.off = o] \in ThreadSet
    BY <1>1 DEF ThreadSet
  <2> QED BY <2>1, <1>0
<1>5. ASSUME UNCHANGED <<pipe, stopOffset>>, push' \in [Pipes -> ThreadSet] PROVE TypeOK'
  BY <1>0, <1>2, <1>5, PipeTypes
<1>6. CASE PushLoop(i) BY <1>4, <1>5, <1>6 DEF PushLoop
<1>7. CASE PushMustWait(i) BY <1>4, <1>5, <1>7 DEF PushMustWait
<1>8. CASE PushBlock(i) BY <1>4, <1>5, <1>8 DEF PushBlock
<1>9. CASE PushNotify(i) BY <1>4, <1>5, <1>9 DEF PushNotify
<1>10. CASE PushStopped(i) BY <1>3, <1>4, <1>5, <1>10 DEF PushStopped
<1>11. CASE PushExit(i)
  <2>1. [pipe[i] EXCEPT !.stop = TRUE] \in PipeSet BY <1>1 DEF PipeSet
  <2>2. pipe' \in [Pipes -> PipeSet] BY <2>1, <1>0, <1>11 DEF PushExit
  <2>3. push' \in [Pipes -> ThreadSet] BY <1>4, <1>11 DEF PushExit
  <2>4. stopOffset' = stopOffset BY <1>11 DEF PushExit
  <2> QED BY <1>0, <1>2, <2>2, <2>3, <2>4, PipeTypes
<1>12. CASE PushData(i)
  <2>1. PICK m \in {Available(push[i].off, pipe[i].capacity)}
                  \cup (IF "read" \in Faults THEN {Error} ELSE {}) :
          /\ pipe' = [pipe EXCEPT ![i].index = 0, ![i].size = m, ![i].base = push[i].off]
          /\ push' = [push EXCEPT ![i].at = "pushed", ![i].ret = m]
    BY <1>12 DEF PushData
  <2>2. m \in Error .. Cap
    <3>1. /\ push[i].off \in Nat /\ pipe[i].capacity \in Nat /\ pipe[i].capacity <= Cap
          /\ Cap \in Nat
      BY <1>1, Fields, StartOne DEF PipeSet
    <3>2. Available(push[i].off, pipe[i].capacity) \in 0 .. pipe[i].capacity BY <3>1, AvailableIs
    <3> QED BY <3>1, <3>2 DEF Error
  <2>3. push' \in [Pipes -> ThreadSet] BY <1>4, <2>1, <2>2
  <2>4. pipe' \in [Pipes -> PipeSet]
    <3>1. push[i].off \in 0 .. Far BY <1>1 DEF ThreadSet
    <3>2. [[[pipe[i] EXCEPT !.index = 0] EXCEPT !.size = m] EXCEPT !.base = push[i].off] \in PipeSet
      BY <1>1, <1>3, <2>2, <3>1 DEF PipeSet
    <3> QED BY <3>2, <2>1, <1>0
  <2>5. stopOffset' = stopOffset BY <1>12 DEF PushData
  <2> QED BY <1>0, <1>2, <2>3, <2>4, <2>5, PipeTypes
<1>13. CASE Pushed(i)
  <2>1. pipe' = pipe /\ push[i].at = "pushed" BY <1>13 DEF Pushed
  <2>2. stopOffset' \in 0 .. Infinity
    <3>1. stopOffset' = stopOffset \/ stopOffset' = push[i].off BY <1>13 DEF Pushed
    <3>2. push[i].off \in 0 .. Infinity BY <1>1, Fields, FarIs
    <3> QED BY <1>0, <3>1, <3>2
  <2>3. push' \in [Pipes -> ThreadSet]
    <3>1. CASE push[i].ret # pipe[i].capacity BY <1>4, <3>1, <1>13 DEF Pushed
    <3>2. CASE push[i].ret = pipe[i].capacity
      <4>1. PICK o : o = Min({push[i].off + pipeNum * Cap, Far}) OBVIOUS
      <4>2. push' = [push EXCEPT ![i].at = "loop", ![i].off = Min({@ + pipeNum * Cap, Far})]
        BY <1>13, <3>2 DEF Pushed
      <4>3. push' = [push EXCEPT ![i].at = "loop", ![i].off = o] BY <1>0, <1>1, <4>1, <4>2
      <4>4. o \in 0 .. Far
        <5>1. pipeNum \in Nat BY <1>0, ConstantsOK
        <5>2. Start(pipeNum) \in Nat /\ pipeNum * Cap = Start(pipeNum) BY <5>1, StartNat DEF Start
        <5>3. push[i].off \in Nat BY <1>1, Fields
        <5>4. PICK x \in Nat : x = push[i].off + pipeNum * Cap BY <5>2, <5>3
        <5>5. Far \in Nat BY FarIs
        <5>6. Min({x, Far}) = IF x <= Far THEN x ELSE Far BY <5>5, MinTwo
        <5> QED BY <5>4, <5>5, <5>6, <4>1
      <4> QED BY <1>4, <4>3, <4>4
    <3> QED BY <3>1, <3>2
  <2> QED BY <1>0, <1>2, <2>1, <2>2, <2>3, PipeTypes
<1> QED BY <1>6, <1>7, <1>8, <1>9, <1>10, <1>11, <1>12, <1>13 DEF PushStep

\* The readers' steps that change pipes and threads keep TypeOK.
LEMMA StreamTypes ==
    ASSUME TypeOK, StartsOnce, MutexesHeld, StreamInv, NEW r \in Readers,
           StreamInit(r) \/ StreamInitFails(r) \/ StartPushThreaded(r) \/ PopEnds(r) \/ PopData(r)
    PROVE  TypeOK'
<1> USE ActorsOK DEF callVars, storeVars, streamVars
<1>0. /\ pc \in [Actors -> PcSet] /\ got \in [Readers -> 0 .. ReadSize]
      /\ stopOffset \in 0 .. Infinity /\ pipeIndex \in Pipes /\ pipeNum \in 0 .. QueueSize
      /\ broken \in BOOLEAN /\ pipe \in [Pipes -> PipeSet] /\ push \in [Pipes -> ThreadSet]
      /\ r \in Actors
  BY Typed DEF TypeOK, PcSet
<1>1. CASE StreamInit(r) \/ StreamInitFails(r)
  <2>1. pc' \in [Actors -> PcSet] BY <1>1, GotoOK DEF StreamInit, StreamInitFails, PcSet
  <2>2. pipeNum' \in 0 .. QueueSize BY <1>1, NeededPipesOK, ConstantsOK DEF StreamInit, StreamInitFails
  <2>3. pipe' \in [Pipes -> PipeSet]
    <3>1. [capacity |-> Cap, size |-> Cap, index |-> Cap, stop |-> FALSE, base |-> 0] \in PipeSet
      <4>1. 0 \in 0 .. Far /\ Cap \in Error .. Cap /\ Cap \in 0 .. Cap BY StartOne, FarIs DEF Error
      <4> QED BY <4>1 DEF PipeSet
    <3> QED BY <3>1, <1>0, <1>1 DEF StreamInit, StreamInitFails
  <2> QED BY <1>0, <1>1, <2>1, <2>2, <2>3 DEF StreamInit, StreamInitFails, TypeOK, PcSet, PipeSet, ThreadSet
<1>2. CASE StartPushThreaded(r)
  <2>1. pc' \in [Actors -> PcSet] BY <1>2, GotoOK DEF StartPushThreaded, PcSet
  <2>2. push' \in [Pipes -> ThreadSet]
    <3>1. ASSUME NEW i \in Pipes PROVE [at |-> "loop", off |-> i * Cap, ret |-> 0] \in ThreadSet
      <4>1. i * Cap \in 0 .. Far BY FarIs DEF Start
      <4>2. 0 \in Error .. Cap BY StartOne DEF Error
      <4> QED BY <4>1, <4>2 DEF ThreadSet
    <3> QED BY <3>1, <1>0, <1>2 DEF StartPushThreaded
  <2> QED BY <1>0, <1>2, <2>1, <2>2, PipeTypes DEF StartPushThreaded
<1>3. CASE PopEnds(r)
  <2>1. pc[r] = "popping" BY <1>3 DEF PopEnds, AtPipe
  <2>2. pc' \in [Actors -> PcSet] BY <1>3, GotoOK DEF PopEnds, PopReturns, Finish, PcSet
  <2>3. pipe' \in [Pipes -> PipeSet] BY <1>0, <1>3, DestroyedOK DEF PopEnds
  <2>4. off' \in [Readers -> 0 .. FileSize] /\ got' \in [Readers -> 0 .. ReadSize]
    <3>1. 0 \in 0 .. FileSize /\ 0 \in 0 .. ReadSize BY ConstantsOK
    <3> QED BY <3>1, <1>3 DEF PopEnds, PopReturns, Finish, TypeOK
  <2>5. serial' \in 0 .. FileSize
    <3>1. Taken = got[r] /\ got[r] \in Nat /\ serial \in Nat BY <2>1, PopperHolds
    <3>2. serial + got[r] <= FileSize BY <3>1 DEF StreamInv
    <3>3. PICK e : e = (IF pipe[pipeIndex].size < 0 THEN Error ELSE got[r]) OBVIOUS
    <3>4. serial' = IF e > 0 THEN serial + e ELSE serial BY <3>3, <1>3 DEF PopEnds, PopReturns
    <3>5. e = Error \/ e = got[r] BY <3>3
    <3> QED BY <3>1, <3>2, <3>4, <3>5, FarIs DEF Error, TypeOK
  <2>6. broken' \in BOOLEAN BY <1>3 DEF PopEnds
  <2> QED BY <1>0, <1>3, <2>2, <2>3, <2>4, <2>5, <2>6
          DEF PopEnds, PopReturns, TypeOK, PcSet, PipeSet, ThreadSet
<1>4. CASE PopData(r)
  <2>1. PICK n : n = Min({ReadSize - got[r], pipe[pipeIndex].size - pipe[pipeIndex].index}) OBVIOUS
  <2>2. PICK k \in 0 .. FileSize : PopFacts(r, k, n) BY <1>4, <2>1, PopDataFacts
  <2> DEFINE x == pipeIndex
             p == pipe[x]
  <2>3. /\ pipeNum \in Nat \ {0} /\ x \in 0 .. pipeNum - 1 /\ n \in Nat
        /\ p.size \in Nat /\ p.index \in Nat /\ p.index + n <= p.size
        /\ got[r] + n <= ReadSize /\ got[r] \in Nat /\ p \in PipeSet
    BY <2>2, <1>0 DEF PopFacts
  <2>4. /\ got' = [got EXCEPT ![r] = got[r] + n]
        /\ pipe' = [pipe EXCEPT ![x] = IF p.index + n = p.size /\ p.stop THEN Destroyed
                                       ELSE [p EXCEPT !.index = p.index + n]]
        /\ pipeIndex' = IF p.index + n = p.size THEN (x + 1) % pipeNum ELSE x
        /\ push' = IF p.index + n = p.size THEN [push EXCEPT ![x] = WokenThread(x)] ELSE push
        /\ UNCHANGED <<pc, off, reads, storeVars, pipeMx, streamStop, stopOffset,
                   pipeNum, toStop, broken>>
    BY <1>4, <2>1 DEF PopData
  <2>5. got' \in [Readers -> 0 .. ReadSize]
    <3>1. got[r] + n \in 0 .. ReadSize BY <2>3, ConstantsOK
    <3> QED BY <3>1, <2>4, <1>0
  <2>6. pipe' \in [Pipes -> PipeSet]
    <3>1. p.index + n \in 0 .. Cap
      <4>1. p.size <= Cap /\ Cap \in Nat BY <2>3, Fields, StartOne
      <4> QED BY <4>1, <2>3
    <3>2. [p EXCEPT !.index = p.index + n] \in PipeSet BY <3>1, <2>3 DEF PipeSet
    <3> QED BY <3>2, <2>4, <1>0, DestroyedOK
  <2>7. pipeIndex' \in Pipes
    <3>1. PICK y : y = (x + 1) % pipeNum OBVIOUS
    <3>2. y \in 0 .. pipeNum - 1 BY <3>1, <2>3, NextTurn
    <3>3. y \in Pipes BY <3>2, <2>3, <1>0, ConstantsOK DEF Pipes
    <3> QED BY <3>1, <3>3, <2>4, <1>0
  <2>8. push' \in [Pipes -> ThreadSet] BY <2>4, <1>0, WokenThreadOK
  <2> QED BY <1>0, <2>4, <2>5, <2>6, <2>7, <2>8, PipeTypes
<1> QED BY <1>1, <1>2, <1>3, <1>4

\* Every step keeps TypeOK.
LEMMA TypeStep ==
    ASSUME TypeOK, StartsOnce, MutexesHeld, StreamInv, [Next]_vars
    PROVE  TypeOK'
<1>1. CASE UNCHANGED vars BY <1>1 DEF vars, callVars, storeVars, streamVars, TypeOK
<1>2. ASSUME NEW r \in Readers, ReadStep(r) PROVE TypeOK'
  BY <1>2, StoreTypes, StreamTypes DEF ReadStep
<1>3. ASSUME NEW i \in Pipes, PushStep(i) PROVE TypeOK' BY <1>3, PushTypes
<1>4. ASSUME NEW a \in Actors, NEW i \in Pipes, StopPipe(a, i) PROVE TypeOK'
  <2>1. pipe' \in [Pipes -> PipeSet] BY <1>4, DestroyedOK, Typed DEF StopPipe
  <2>2. push' \in [Pipes -> ThreadSet] BY <1>4, WokenThreadOK, Typed DEF StopPipe
  <2>3. toStop' \subseteq Pipes BY <1>4 DEF StopPipe, TypeOK
  <2> QED BY <1>4, <2>1, <2>2, <2>3
          DEF StopPipe, TypeOK, PipeSet, ThreadSet, callVars, storeVars
<1>5. ASSUME NEW a \in Actors, StopStep(a) PROVE TypeOK'
  BY <1>4, <1>5, StoreTypes DEF StopStep
<1>6. CASE \E r \in Readers, o \in Offsets : Read(r, o) BY <1>6, StoreTypes
<1>7. CASE Write \/ Close \/ WaitPushEnded BY <1>7, StoreTypes
<1> QED BY <1>1, <1>2, <1>3, <1>5, <1>6, <1>7 DEF Next

-----------------------------------------------------------------------------
\* The readers' steps keep MutexesHeld.
LEMMA MutexRead ==
    ASSUME TypeOK, MutexesHeld, NEW r \in Readers, ReadStep(r) \/ \E o \in Offsets : Read(r, o)
    PROVE  MutexesHeld'
<1> USE ActorsOK DEF callVars, storeVars, streamVars
<1>0. r \in Actors /\ r # Nobody /\ Nobody \notin Readers BY ReadersOK
<1>1. ASSUME NEW s \in PcSet \ {"stopping", "pop", "popping", "block", "wait"}, Goto(r, s),
             UNCHANGED <<got, serial, pipeMx, fileMx>>, streamStop' = streamStop \/ pipeMx = Nobody,
             pc[r] \notin {"popping", "block", "wait"},
             \A q \in Readers : q # r => off'[q] = off[q],
             Nobody \notin Actors
      PROVE  MutexesHeld'
  BY <1>1, GotoOK DEF MutexesHeld
<1>2. Nobody \notin Actors BY ReadersOK DEF Actors, Nobody, Writer, Closer
<1>3. ASSUME NEW o \in Offsets, Read(r, o) PROVE MutexesHeld'
  BY <1>1, <1>2, <1>3 DEF Read, PcSet, TypeOK
<1>4. CASE StreamInit(r) BY <1>1, <1>2, <1>4 DEF StreamInit, PcSet
<1>5. CASE StreamInitFails(r) BY <1>1, <1>2, <1>5 DEF StreamInitFails, PcSet
<1>6. CASE NotStarted(r) BY <1>1, <1>2, <1>6 DEF NotStarted, PcSet
<1>7. CASE StartPushThreaded(r) BY <1>1, <1>2, <1>7 DEF StartPushThreaded, PcSet
<1>8. CASE Check(r) BY <1>1, <1>2, <1>8 DEF Check, PcSet
<1>9. CASE Lock(r)
  <2>1. PICK s \in {"stop", "pop"} : Goto(r, s) /\ (s = "pop" => serial = off[r]) BY <1>9 DEF Lock
  <2>2. pc'[r] = s /\ \A b \in Actors : b # r => pc'[b] = pc[b] BY <2>1, GotoOK DEF PcSet
  <2> QED BY <1>0, <1>9, <2>1, <2>2 DEF Lock, MutexesHeld
<1>10. ASSUME Finish(r) 
       PROVE  /\ pc'[r] = "idle" /\ got'[r] = 0
              /\ \A b \in Actors : b # r => pc'[b] = pc[b]
              /\ \A b \in Readers : b # r => got'[b] = got[b] /\ off'[b] = off[b]
  BY <1>10, GotoOK DEF Finish, PcSet, TypeOK
<1>11. CASE RandomRead(r) BY <1>10, <1>11 DEF RandomRead, MutexesHeld
<1>12. CASE WaitPop(r)
  <2>1. pc'[r] = "popping" /\ \A b \in Actors : b # r => pc'[b] = pc[b]
    BY <1>12, GotoOK DEF WaitPop, PcSet
  <2> QED BY <1>0, <1>2, <1>12, <2>1 DEF WaitPop, MutexesHeld
<1>13. ASSUME pc[r] = "popping", Finish(r), fileMx' = Nobody, pipeMx' = Nobody,
              streamStop' = streamStop
       PROVE  MutexesHeld'
  <2>1. pipeMx = r /\ fileMx = r BY <1>13, PopperHolds
  <2>2. \A q \in Readers : q # r => pc[q] \notin {"pop", "popping", "block", "wait"}
    BY <2>1 DEF MutexesHeld
  <2>3. \A a \in Actors : pc[a] # "stopping" BY <2>1, <1>13 DEF MutexesHeld
  <2> QED BY <1>10, <1>13, <2>2, <2>3 DEF MutexesHeld
<1>14. CASE PopEnough(r) BY <1>13, <1>14 DEF PopEnough, PopReturns
<1>15. CASE PopEnds(r) BY <1>13, <1>15 DEF PopEnds, AtPipe, PopReturns
<1>16. CASE PopMustWait(r)
  <2>1. pc'[r] = "block" /\ \A b \in Actors : b # r => pc'[b] = pc[b]
    BY <1>16, GotoOK DEF PopMustWait, PcSet
  <2> QED BY <1>16, <2>1 DEF PopMustWait, AtPipe, MutexesHeld
<1>17. CASE PopBlock(r)
  <2>1. pc'[r] = "wait" /\ \A b \in Actors : b # r => pc'[b] = pc[b]
    BY <1>17, GotoOK DEF PopBlock, PcSet
  <2> QED BY <1>17, <2>1 DEF PopBlock, MutexesHeld
<1>18. CASE PopData(r)
  <2>1. /\ pc[r] = "popping" /\ UNCHANGED <<pc, off, serial, fileMx, pipeMx, streamStop>>
        /\ \A q \in Readers : q # r => got'[q] = got[q]
    BY <1>18 DEF PopData, AtPipe, TypeOK
  <2> QED BY <2>1 DEF MutexesHeld
<1> QED BY <1>3, <1>4, <1>5, <1>6, <1>7, <1>8, <1>9, <1>11, <1>12, <1>14, <1>15, <1>16,
           <1>17, <1>18 DEF ReadStep

\* Every step keeps MutexesHeld.
LEMMA MutexStep ==
    ASSUME TypeOK, MutexesHeld, [Next]_vars
    PROVE  MutexesHeld'
<1> USE ActorsOK DEF callVars, storeVars, streamVars
<1>0. Nobody \notin Actors BY ReadersOK DEF Actors, Nobody, Writer, Closer
<1>1. CASE UNCHANGED vars BY <1>1 DEF vars, MutexesHeld
<1>2. ASSUME NEW i \in Pipes, PushStep(i) PROVE MutexesHeld'
  <2>1. UNCHANGED <<off, got, serial, fileMx, pipeMx, streamStop>>
    BY <1>2 DEF PushStep, PushLoop, PushMustWait, PushBlock, PushStopped, PushData, Pushed,
         PushExit, PushNotify
  <2>2. \A b \in Actors : pc'[b] = pc[b] \/ (pc[b] = "wait" /\ pc'[b] = "popping")
    BY <1>2, WokenOK DEF PushStep, PushLoop, PushMustWait, PushBlock, PushStopped, PushData, Pushed,
         PushExit, PushNotify
  <2> QED BY <2>1, <2>2 DEF MutexesHeld
<1>3. ASSUME NEW a \in Actors, StopStep(a) PROVE MutexesHeld'
  <2>1. CASE StopPushThreaded(a)
    <3>1. pc'[a] = "stopping" /\ \A b \in Actors : b # a => pc'[b] = pc[b]
      BY <2>1, GotoOK DEF StopPushThreaded, PcSet
    <3> QED BY <2>1, <3>1, <1>0 DEF StopPushThreaded, MutexesHeld
  <2>2. ASSUME NEW i \in Pipes, StopPipe(a, i) PROVE MutexesHeld'
    BY <2>2 DEF StopPipe, MutexesHeld
  <2>3. CASE StopReturns(a)
    <3>1. PICK s \in {"join", "idle", "random", "check"} : Goto(a, s) BY <2>3 DEF StopReturns
    <3>2. pc'[a] = s /\ \A b \in Actors : b # a => pc'[b] = pc[b] BY <3>1, GotoOK DEF PcSet
    <3>3. pc[a] = "stopping" /\ pipeMx = a /\ UNCHANGED <<off, got, serial, streamStop>>
          /\ (fileMx # a => fileMx' = fileMx)
      BY <2>3 DEF StopReturns, MutexesHeld
    <3>4. \A b \in Actors : b # a => pc[b] \notin {"stopping"} BY <3>3 DEF MutexesHeld
    <3>5. \A b \in Readers : b # a => pc[b] \notin {"popping", "block", "wait"} BY <3>3 DEF MutexesHeld
    <3>6. \A b \in Readers : pc'[b] \in {"pop", "popping", "block", "wait"} =>
              b # a /\ pc[b] = pc'[b] /\ fileMx = b /\ off[b] = serial
      BY <3>2 DEF MutexesHeld
    <3>7. \A b \in Readers : got[b] # 0 => b # a /\ pc'[b] = pc[b] BY <3>2, <3>3 DEF MutexesHeld
    <3> QED BY <3>2, <3>3, <3>4, <3>5, <3>6, <3>7 DEF MutexesHeld
  <2> QED BY <1>3, <2>1, <2>2, <2>3 DEF StopStep
<1>4. CASE Write \/ Close \/ WaitPushEnded
  <2>1. PICK a \in {Writer, Closer}, s \in {"stop", "closed"} :
          Goto(a, s) /\ UNCHANGED <<off, got, serial, fileMx, pipeMx, streamStop>>
    BY <1>4 DEF Write, Close, WaitPushEnded
  <2>2. a \in Actors /\ a \notin Readers BY ReadersOK
  <2>3. pc'[a] = s /\ \A b \in Actors : b # a => pc'[b] = pc[b] BY <2>1, <2>2, GotoOK DEF PcSet
  <2> QED BY <2>1, <2>2, <2>3 DEF MutexesHeld
<1>5. CASE \E r \in Readers : ReadStep(r) \/ \E o \in Offsets : Read(r, o) BY <1>5, MutexRead
<1> QED BY <1>1, <1>2, <1>3, <1>4, <1>5 DEF Next

-----------------------------------------------------------------------------
\* Where the caller is that starts the stream.
Beginning == {"begin", "failed", "start"}

\* Steps that leave the stream and its threads alone and start nothing keep StartsOnce.
LEMMA StartsKept ==
    ASSUME StartsOnce,
           UNCHANGED <<started, stopOffset, pipeIndex, pipeNum, pipe, push, broken>>,
           streamStop' = streamStop \/ streamStop',
           \A r \in Readers : pc'[r] = pc[r] \/ pc'[r] \notin Beginning,
           pipeNum = 0 => UNCHANGED serial /\ \A r \in Readers : got'[r] = 0
    PROVE  StartsOnce'
<1>1. Filled' = Filled BY DEF Filled
<1>2. \A r \in Readers : pc'[r] \in {"begin", "failed", "start"} => pc'[r] = pc[r] BY DEF Beginning
<1>3. (\A r \in Readers : pc[r] \in {"begin", "failed", "start"} =>
          started /\ \A i \in Pipes : push[i].at = "none")'
  BY <1>2 DEF StartsOnce
<1>4. (\A r, s \in Readers : {pc[r], pc[s]} \subseteq {"begin", "failed", "start"} => r = s)'
  BY <1>2 DEF StartsOnce
<1>5. (\A r \in Readers : pc[r] = "begin" => pipeNum = 0)' BY <1>2 DEF StartsOnce
<1>6. (\A r \in Readers : pc[r] = "start" /\ ~ streamStop =>
          \A i \in Filled : ~ pipe[i].stop /\ ~ HasData(pipe[i]))'
  BY <1>1, <1>2 DEF StartsOnce
<1> QED BY <1>1, <1>3, <1>4, <1>5, <1>6 DEF StartsOnce

\* Steps by which threads move, or pipes change, keep StartsOnce once the stream has
\* pipes.
LEMMA StartsThreads ==
    ASSUME StartsOnce, pipeNum # 0,
           UNCHANGED <<started, pipeNum>>,
           \A r \in Readers : pc'[r] = pc[r] \/ pc'[r] \notin Beginning,
           \A i \in Pipes : push'[i].at = "none" <=> push[i].at = "none",
           stopOffset' = stopOffset \/ \E i \in Pipes : push[i].at # "none",
           Filled \subseteq Pipes,
           streamStop' \/ \A r \in Readers : pc[r] # "start"
    PROVE  StartsOnce'
<1>1. Filled' = Filled BY DEF Filled
<1>2. \A r \in Readers : pc'[r] \in {"begin", "failed", "start"} => pc'[r] = pc[r] BY DEF Beginning
<1>3. (\A r \in Readers : pc[r] \in {"begin", "failed", "start"} =>
          started /\ \A i \in Pipes : push[i].at = "none")'
  BY <1>2 DEF StartsOnce
<1>4. (\A r, s \in Readers : {pc[r], pc[s]} \subseteq {"begin", "failed", "start"} => r = s)'
  BY <1>2 DEF StartsOnce
<1>5. (\A r \in Readers : pc[r] = "begin" => pipeNum = 0)' BY <1>2 DEF StartsOnce
<1>6. (\A r \in Readers : pc[r] = "start" /\ ~ streamStop =>
          \A i \in Filled : ~ pipe[i].stop /\ ~ HasData(pipe[i]))'
  BY <1>1, <1>2
<1>7. pipeNum' # 0 /\ started' BY DEF StartsOnce
<1>8. (\A i, j \in Filled : push[i].at = "none" => push[j].at = "none")' BY <1>1 DEF StartsOnce
<1>9. (\A i \in Pipes \ Filled : push[i].at = "none")' BY <1>1 DEF StartsOnce
<1>10. ((\A i \in Pipes : push[i].at = "none") => stopOffset = Infinity)' BY DEF StartsOnce
<1> QED BY <1>3, <1>4, <1>5, <1>6, <1>7, <1>8, <1>9, <1>10 DEF StartsOnce

\* The readers' steps keep StartsOnce: only the first caller of ReadFile starts the
\* stream.
LEMMA StartsRead ==
    ASSUME TypeOK, StartsOnce, MutexesHeld, StreamInv, NEW r \in Readers,
           ReadStep(r) \/ \E o \in Offsets : Read(r, o)
    PROVE  StartsOnce'
<1> USE ActorsOK DEF callVars, storeVars, streamVars
<1>0. r \in Actors /\ Readers \subseteq Actors BY ActorsOK
<1>1. ASSUME NEW s \in PcSet, Goto(r, s)
      PROVE  pc'[r] = s /\ \A q \in Readers : q # r => pc'[q] = pc[q]
  BY <1>0, <1>1, GotoOK
<1>2. ASSUME NEW s \in PcSet \ Beginning, Goto(r, s),
             UNCHANGED <<started, streamStop, stopOffset, pipeIndex, pipeNum, pipe, push, broken,
                         serial, got>>
      PROVE  StartsOnce'
  <2>1. \A q \in Readers : pc'[q] = pc[q] \/ pc'[q] \notin Beginning BY <1>1, <1>2
  <2>2. pipeNum = 0 => \A q \in Readers : got'[q] = 0 BY <1>2 DEF StartsOnce
  <2> QED BY <2>1, <2>2, <1>2, StartsKept
<1>3. ASSUME NEW o \in Offsets, Read(r, o) PROVE StartsOnce'
  <2>1. CASE started
    BY <2>1, <1>2, <1>3 DEF Read, PcSet, Beginning
  <2>2. CASE ~ started
    <3>1. /\ pc'[r] = "begin" /\ \A q \in Readers : q # r => pc'[q] = pc[q]
      BY <1>1, <1>3, <2>2 DEF Read, PcSet
    <3>2. \A q \in Readers : pc[q] \notin {"begin", "failed", "start"} BY <2>2 DEF StartsOnce
    <3>3. pipeNum = 0 /\ \A i \in Pipes : push[i].at = "none" BY <2>2 DEF StartsOnce
    <3>4. /\ started' /\ UNCHANGED <<streamStop, stopOffset, pipeIndex, pipeNum, pipe, push,
                                     broken, serial, got>>
      BY <1>3 DEF Read
    <3>5. \A q \in Readers : pc'[q] \in {"begin", "failed", "start"} => q = r /\ pc'[q] = "begin"
      BY <3>1, <3>2
    <3>6. Filled' = Filled BY <3>4 DEF Filled
    <3>7. (\A q, s \in Readers : {pc[q], pc[s]} \subseteq {"begin", "failed", "start"} => q = s)'
      BY <3>5
    <3> QED BY <3>3, <3>4, <3>5, <3>6, <3>7 DEF StartsOnce
  <2> QED BY <2>1, <2>2
<1>4. CASE StreamInit(r) \/ StreamInitFails(r)
  <2>1. PICK s \in {"start", "failed"} : Goto(r, s) /\ (s = "start" => StreamInit(r))
    BY <1>4 DEF StreamInit, StreamInitFails
  <2>2. pc'[r] = s /\ \A q \in Readers : q # r => pc'[q] = pc[q] BY <1>1, <2>1 DEF PcSet
  <2>3. /\ pc[r] = "begin" /\ pipeNum' = NeededPipes
        /\ UNCHANGED <<started, push, stopOffset>>
    BY <1>4 DEF StreamInit, StreamInitFails
  <2>4. started /\ (\A i \in Pipes : push[i].at = "none") /\ stopOffset = Infinity
    BY <2>3 DEF StartsOnce
  <2>5. \A q \in Readers : pc[q] \in {"begin", "failed", "start"} => q = r BY <2>3 DEF StartsOnce
  <2>6. \A q \in Readers : pc'[q] \in {"begin", "failed", "start"} => q = r /\ pc'[q] = s
    BY <2>2, <2>5
  <2>7. pipeNum' # 0 /\ Filled' \subseteq Pipes
    BY <2>3, NeededPipesOK, ConstantsOK DEF Filled, Pipes
  <2>8. ASSUME s = "start", NEW i \in Filled' PROVE ~ pipe'[i].stop /\ ~ HasData(pipe'[i])
    <3>1. i \in Pipes /\ i < NeededPipes BY <2>3, <2>7, NeededPipesOK, ConstantsOK DEF Filled
    <3>2. pipe'[i] = [capacity |-> Cap, size |-> Cap, index |-> Cap, stop |-> FALSE, base |-> 0]
      BY <2>1, <2>8, <3>1 DEF StreamInit
    <3>3. pipe'[i].stop = FALSE /\ pipe'[i].size = Cap /\ pipe'[i].index = Cap BY <3>2
    <3> QED BY <3>3 DEF HasData
  <2>9. (\A q, z \in Readers : {pc[q], pc[z]} \subseteq {"begin", "failed", "start"} => q = z)'
    BY <2>6
  <2>10. (\A q \in Readers : pc[q] = "begin" => pipeNum = 0)' BY <2>6, <2>1
  <2>11. (\A q \in Readers : pc[q] = "start" /\ ~ streamStop =>
          \A i \in Filled : ~ pipe[i].stop /\ ~ HasData(pipe[i]))'
    BY <2>6, <2>8
  <2> QED BY <2>3, <2>4, <2>7, <2>9, <2>10, <2>11 DEF StartsOnce
<1>5. CASE NotStarted(r) BY <1>2, <1>5 DEF NotStarted, PcSet, Beginning
<1>6. CASE StartPushThreaded(r)
  <2>1. pc'[r] = "check" /\ \A q \in Readers : q # r => pc'[q] = pc[q]
    BY <1>1, <1>6 DEF StartPushThreaded, PcSet
  <2>2. /\ pc[r] = "start"
        /\ push' = [i \in Pipes |-> IF i < pipeNum
                                  THEN [at |-> "loop", off |-> i * Cap, ret |-> 0] ELSE push[i]]
        /\ UNCHANGED <<started, streamStop, stopOffset, pipeIndex, pipeNum, pipe, broken, serial, got>>
    BY <1>6 DEF StartPushThreaded
  <2>3. (\A i \in Pipes : push[i].at = "none") /\ stopOffset = Infinity BY <2>2 DEF StartsOnce
  <2>4. \A q \in Readers : pc'[q] \notin {"begin", "failed", "start"}
    BY <2>1, <2>2 DEF StartsOnce
  <2>5. Filled' = Filled /\ Filled \subseteq Pipes /\ pipeNum \in Nat BY <2>2, Typed, ConstantsOK DEF Filled, TypeOK
  <2>6. \A i \in Filled : push'[i].at # "none"
    <3>1. \A i \in Filled : i < pipeNum /\ i \in Pipes BY <2>5 DEF Filled
    <3> QED BY <3>1, <2>2
  <2>7. \A i \in Pipes \ Filled : push'[i].at = "none"
    <3>1. \A i \in Pipes \ Filled : ~ (i < pipeNum) BY <2>5, ConstantsOK DEF Filled, Pipes
    <3> QED BY <3>1, <2>2, <2>3
  <2>8. pipeNum = 0 => \A i \in Pipes : push'[i].at = "none"
    <3>1. pipeNum = 0 => \A i \in Pipes : ~ (i < pipeNum) BY ConstantsOK DEF Pipes
    <3> QED BY <3>1, <2>2, <2>3
  <2>9. (pipeNum = 0 => /\ streamStop /\ ~ broken /\ serial = 0 /\ pipeIndex = 0
                      /\ \A q \in Readers : got[q] = 0
                      /\ \A i \in Pipes : pipe[i] = Destroyed /\ push[i].at = "none")'
    BY <2>2, <2>8 DEF StartsOnce
  <2>10. (~ started => pipeNum = 0)' BY <2>2 DEF StartsOnce
  <2>11. (\A q, z \in Readers : {pc[q], pc[z]} \subseteq {"begin", "failed", "start"} => q = z)'
    BY <2>4
  <2> QED BY <2>2, <2>3, <2>4, <2>5, <2>6, <2>7, <2>9, <2>10, <2>11 DEF StartsOnce
<1>7. CASE Check(r) BY <1>2, <1>7 DEF Check, PcSet, Beginning
<1>8. CASE Lock(r)
  <2>1. PICK s \in {"stop", "pop"} : Goto(r, s) BY <1>8 DEF Lock
  <2> QED BY <1>2, <1>8, <2>1 DEF Lock, PcSet, Beginning
<1>9. CASE WaitPop(r) BY <1>2, <1>9 DEF WaitPop, PcSet, Beginning
<1>10. CASE PopMustWait(r) BY <1>2, <1>10 DEF PopMustWait, PcSet, Beginning
<1>11. CASE PopBlock(r) BY <1>2, <1>11 DEF PopBlock, PcSet, Beginning
<1>12. ASSUME Finish(r)
       PROVE  /\ \A q \in Readers : pc'[q] = pc[q] \/ pc'[q] \notin Beginning
              /\ pipeNum = 0 => \A q \in Readers : got'[q] = 0
  <2>1. pc'[r] = "idle" /\ \A q \in Readers : q # r => pc'[q] = pc[q]
    BY <1>1, <1>12 DEF Finish, PcSet
  <2>2. \A q \in Readers : got'[q] = 0 \/ got'[q] = got[q] BY <1>12 DEF Finish, TypeOK
  <2> QED BY <2>1, <2>2 DEF StartsOnce, Beginning
<1>13. CASE RandomRead(r) BY <1>12, <1>13, StartsKept DEF RandomRead
<1>14. CASE PopEnough(r)
  <2>1. pipeNum = 0 => serial' = serial BY <1>14 DEF StartsOnce, PopEnough, PopReturns
  <2> QED BY <1>12, <1>14, <2>1, StartsKept DEF PopEnough, PopReturns
<1>15. CASE PopEnds(r)
  <2>1. ~ streamStop /\ pipeNum # 0 BY <1>15 DEF PopEnds, AtPipe, StartsOnce
  <2>2. pipeIndex \in Filled /\ Filled \subseteq Pipes BY <2>1, Running, Typed
  <2>3. ASSUME NEW q \in Readers, pc[q] = "start" PROVE FALSE
    <3>1. ~ pipe[pipeIndex].stop /\ push[pipeIndex].at = "none"
      BY <2>1, <2>2, <2>3 DEF StartsOnce
    <3>2. pipe[pipeIndex].size <= 0 BY <1>15, <3>1 DEF PopEnds
    <3>3. Destroyed.stop BY DEF Destroyed
    <3>4. ~ broken BY <2>1, <3>1, <3>3 DEF StreamInv
    <3>5. PICK k \in 0 .. FileSize : Synced(k) BY <2>1, <3>4 DEF StreamInv
    <3>6. pipe[pipeIndex].size > 0 BY <3>1, <3>5, <2>2 DEF Synced, PipeAt
    <3>7. pipe[pipeIndex].size \in Int BY <2>2, Typed, Fields
    <3> QED BY <3>2, <3>6, <3>7
  <2>4. /\ Finish(r) /\ UNCHANGED <<started, pipeNum, push, stopOffset>>
    BY <1>15 DEF PopEnds, PopReturns
  <2> QED BY <1>12, <2>1, <2>2, <2>3, <2>4, StartsThreads
<1>16. CASE PopData(r)
  <2>1. /\ ~ streamStop /\ pipeNum # 0 /\ pipe[pipeIndex].size > 0
        /\ pipe[pipeIndex].index # pipe[pipeIndex].size
    BY <1>16 DEF PopData, AtPipe, StartsOnce
  <2>2. pipeIndex \in Filled /\ Filled \subseteq Pipes BY <2>1, Running, Typed
  <2>3. \A q \in Readers : pc[q] # "start" BY <2>1, <2>2 DEF StartsOnce, HasData
  <2>4. /\ UNCHANGED <<started, pipeNum, stopOffset, pc>>
        /\ push' = push \/ push' = [push EXCEPT ![pipeIndex] = WokenThread(pipeIndex)]
    BY <1>16 DEF PopData
  <2>5. \A i \in Pipes : push'[i].at = "none" <=> push[i].at = "none"
    BY <2>2, <2>4, WokenThreadOK, Typed
  <2> QED BY <2>1, <2>2, <2>3, <2>4, <2>5, StartsThreads
<1> QED BY <1>3, <1>4, <1>5, <1>6, <1>7, <1>8, <1>9, <1>10, <1>11, <1>13, <1>14, <1>15,
           <1>16 DEF ReadStep

\* The threads' steps keep StartsOnce.
LEMMA StartsPush ==
    ASSUME TypeOK, StartsOnce, StreamInv, NEW i \in Pipes, PushStep(i)
    PROVE  StartsOnce'
<1> USE ActorsOK DEF callVars, storeVars, streamVars
<1>1. push[i].at # "none" /\ UNCHANGED <<started, pipeNum>>
  BY DEF PushStep, PushLoop, PushMustWait, PushBlock, PushStopped, PushData, Pushed,
         PushExit, PushNotify, AtPush
<1>2. pipeNum # 0 /\ Filled \subseteq Pipes BY <1>1, ThreadRuns, Typed
<1>3. \A b \in Actors : pc'[b] = pc[b] \/ (pc[b] = "wait" /\ pc'[b] = "popping")
  BY WokenOK DEF PushStep, PushLoop, PushMustWait, PushBlock, PushStopped, PushData, Pushed,
         PushExit, PushNotify
<1>4. \A r \in Readers : pc'[r] = pc[r] \/ pc'[r] \notin Beginning
  BY <1>3 DEF Beginning
<1>5. push \in [Pipes -> ThreadSet] /\ push[i] \in ThreadSet BY Typed
<1>6. (\A j \in Pipes : j # i => push'[j] = push[j]) /\ push'[i].at # "none"
  <2>1. CASE PushLoop(i) BY <2>1, <1>5 DEF PushLoop, ThreadSet
  <2>2. CASE PushMustWait(i) BY <2>2, <1>5 DEF PushMustWait, ThreadSet
  <2>3. CASE PushBlock(i) BY <2>3, <1>5 DEF PushBlock, ThreadSet
  <2>4. CASE PushStopped(i) BY <2>4, <1>5 DEF PushStopped, ThreadSet
  <2>5. CASE PushData(i)
    <3>1. PICK n : push' = [push EXCEPT ![i].at = "pushed", ![i].ret = n] BY <2>5 DEF PushData
    <3> QED BY <3>1, <1>5 DEF ThreadSet
  <2>6. CASE Pushed(i)
    <3>1. \/ push' = [push EXCEPT ![i].at = "exit"]
          \/ push' = [push EXCEPT ![i].at = "loop", ![i].off = Min({@ + pipeNum * Cap, Far})]
      BY <2>6 DEF Pushed
    <3> QED BY <3>1, <1>5 DEF ThreadSet
  <2>7. CASE PushExit(i) BY <2>7, <1>5 DEF PushExit, ThreadSet
  <2>8. CASE PushNotify(i) BY <2>8, <1>5 DEF PushNotify, ThreadSet
  <2> QED BY <2>1, <2>2, <2>3, <2>4, <2>5, <2>6, <2>7, <2>8 DEF PushStep
<1>7. \A j \in Pipes : push'[j].at = "none" <=> push[j].at = "none" BY <1>1, <1>6
<1>8. \A r \in Readers : pc[r] # "start" BY <1>1 DEF StartsOnce
<1> QED BY <1>1, <1>2, <1>4, <1>7, <1>8, StartsThreads

\* Stopping the stream keeps StartsOnce.
LEMMA StartsStop ==
    ASSUME TypeOK, StartsOnce, MutexesHeld, NEW a \in Actors, StopStep(a)
    PROVE  StartsOnce'
<1> USE ActorsOK DEF callVars, storeVars, streamVars
<1>1. ASSUME NEW s \in PcSet \ Beginning, Goto(a, s),
             UNCHANGED <<started, stopOffset, pipeIndex, pipeNum, pipe, push, broken, serial, got>>,
             streamStop' = streamStop \/ streamStop'
      PROVE  StartsOnce'
  <2>1. \A q \in Readers : pc'[q] = pc[q] \/ pc'[q] \notin Beginning BY <1>1, GotoOK
  <2>2. pipeNum = 0 => \A q \in Readers : got'[q] = 0 BY <1>1 DEF StartsOnce
  <2> QED BY <2>1, <2>2, <1>1, StartsKept
<1>2. CASE StopPushThreaded(a) BY <1>1, <1>2 DEF StopPushThreaded, PcSet, Beginning
<1>3. CASE StopReturns(a)
  <2>1. PICK s \in {"join", "idle", "random", "check"} : Goto(a, s) BY <1>3 DEF StopReturns
  <2> QED BY <2>1, <1>1, <1>3 DEF StopReturns, PcSet, Beginning
<1>4. ASSUME NEW i \in Pipes, StopPipe(a, i) PROVE StartsOnce'
  <2>1. /\ streamStop /\ streamStop'
        /\ UNCHANGED <<pc, started, stopOffset, pipeIndex, pipeNum, broken, serial, got>>
        /\ pipe' = [pipe EXCEPT ![i] = Destroyed]
        /\ push' = [push EXCEPT ![i] = WokenThread(i)]
    BY <1>4 DEF StopPipe, MutexesHeld
  <2>2. \A j \in Pipes : push'[j].at = "none" <=> push[j].at = "none"
    BY <2>1, WokenThreadOK, Typed
  <2>3. CASE pipeNum # 0 BY <2>1, <2>2, <2>3, StartsThreads, Typed
  <2>4. CASE pipeNum = 0
    <3>1. \A j \in Pipes : pipe[j] = Destroyed /\ push[j].at = "none" BY <2>4 DEF StartsOnce
    <3>2. pipe' = pipe /\ push' = push
      BY <2>1, <3>1, Typed DEF WokenThread
    <3>3. pipeNum = 0 => \A q \in Readers : got'[q] = 0 BY <2>1 DEF StartsOnce
    <3> QED BY <2>1, <3>2, <3>3, StartsKept
  <2> QED BY <2>3, <2>4
<1> QED BY <1>2, <1>3, <1>4 DEF StopStep

\* Every step keeps StartsOnce.
LEMMA StartsStep ==
    ASSUME TypeOK, StartsOnce, MutexesHeld, StreamInv, [Next]_vars
    PROVE  StartsOnce'
<1> USE ActorsOK DEF callVars, storeVars, streamVars
<1>0. pipeNum = 0 => \A q \in Readers : got[q] = 0 BY DEF StartsOnce
<1>1. CASE UNCHANGED vars
  <2>1. UNCHANGED <<started, stopOffset, pipeIndex, pipeNum, pipe, push, broken, streamStop,
                    pc, serial, got>>
    BY <1>1 DEF vars
  <2> QED BY <1>0, <2>1, StartsKept
<1>2. CASE Write \/ Close \/ WaitPushEnded
  <2>1. PICK a \in {Writer, Closer}, s \in {"stop", "closed"} :
          /\ Goto(a, s)
          /\ UNCHANGED <<started, stopOffset, pipeIndex, pipeNum, pipe, push, broken, streamStop,
                         serial, got>>
    BY <1>2 DEF Write, Close, WaitPushEnded
  <2>2. a \in Actors /\ a \notin Readers BY ReadersOK
  <2>3. \A r \in Readers : pc'[r] = pc[r] BY <2>1, <2>2, GotoOK DEF PcSet
  <2> QED BY <1>0, <2>1, <2>3, StartsKept
<1>3. CASE \E r \in Readers : ReadStep(r) \/ \E o \in Offsets : Read(r, o) BY <1>3, StartsRead
<1> QED BY <1>1, <1>2, <1>3, StartsPush, StartsStop DEF Next

\* The inductive invariant holds initially.
LEMMA InitInv == Init => StreamIInv
<1> SUFFICES ASSUME Init PROVE StreamIInv
  OBVIOUS
<1>1. /\ FileSize \in Nat \ {0} /\ Cap \in Nat \ {0} /\ QueueSize \in Nat \ {0} /\ ReadSize \in Nat
      /\ MaxReads \in Nat /\ Infinity \in Nat /\ Far \in Nat
  BY ConstantsOK, FarIs
<1>2. Nobody \notin Actors BY ReadersOK DEF Actors, Nobody, Writer, Closer
<1>3. TypeOK
  <2>1. pipe \in [Pipes -> PipeSet] BY DestroyedOK DEF Init
  <2>2. push \in [Pipes -> ThreadSet]
    <3>1. 0 \in Error .. Cap /\ 0 \in 0 .. Far BY <1>1 DEF Error
    <3> QED BY <3>1 DEF Init, ThreadSet
  <2>3. 0 \in Pipes /\ 0 \in 0 .. QueueSize /\ Infinity \in 0 .. Infinity BY <1>1 DEF Pipes
  <2>4. 0 \in 0 .. FileSize /\ 0 \in 0 .. ReadSize /\ 0 \in 0 .. MaxReads BY <1>1
  <2>5. \A S, T : \A x \in T : [s \in S |-> x] \in [S -> T] OBVIOUS
  <2>6. /\ off \in [Readers -> 0 .. FileSize] /\ got \in [Readers -> 0 .. ReadSize]
        /\ reads \in [Readers -> 0 .. MaxReads]
    BY <2>4 DEF Init
  <2>7. pc \in [Actors -> PcSet] BY DEF Init, PcSet
  <2> QED BY <2>1, <2>2, <2>3, <2>4, <2>6, <2>7 DEF Init, TypeOK, PipeSet, ThreadSet, PcSet
<1>4. \A i \in Pipes : push[i].at = "none" /\ pipe[i] = Destroyed BY DEF Init
<1>5. pc = [a \in Actors |-> "idle"] /\ pipeNum = 0 /\ streamStop /\ got = [r \in Readers |-> 0]
  BY DEF Init
<1>6. Filled = {} /\ Filled \subseteq Pipes
  <2>1. 0 .. 0 - 1 = {} OBVIOUS
  <2> QED BY <1>5, <2>1 DEF Filled
<1>7. StartsOnce
  BY <1>4, <1>5, <1>6, ActorsOK DEF Init, StartsOnce
<1>8. MutexesHeld BY <1>5, ActorsOK DEF MutexesHeld
<1>9. StreamInv
  <2>1. Taken = 0 BY ReadersOK DEF Init, Taken
  <2>2. serial + Taken <= FileSize BY <2>1, <1>1 DEF Init
  <2>3. \A i \in Pipes : pipe[i].size = 0 BY <1>4 DEF Destroyed
  <2> QED BY <2>2, <2>3, <1>5 DEF StreamInv
<1> QED BY <1>3, <1>7, <1>8, <1>9 DEF StreamIInv

(* The inductive invariant holds always: one caller starts the stream, the  *)
(* mutexes are whose the model's steps take them to be, and the reader is   *)
(* at a block k such that each pipe holds, or its thread will fetch, the    *)
(* block that many turns on, and a thread ends only where nothing is left.  *)
THEOREM StreamIInvariance == Spec => []StreamIInv
<1>1. ASSUME StreamIInv, [Next]_vars PROVE StreamIInv'
  BY <1>1, TypeStep, StartsStep, MutexStep, StreamStep DEF StreamIInv
<1> QED BY <1>1, InitInv, PTL DEF Spec

\* The data that comes next is the data at the reader's position, since the reader is
\* at some block k and the pipes stand for k and the blocks that follow it.
LEMMA OrderFollows == StreamIInv => InOrder
<1> SUFFICES ASSUME StreamIInv, ~ streamStop, ~ broken, NEW i \in 0 .. pipeNum - 1,
                    pipe[i].size > 0, pipe[i].index # pipe[i].size
             PROVE  LET pos == serial + Taken
                        d == (i - pipeIndex + pipeNum) % pipeNum
                    IN  pipe[i].base + (IF d = 0 THEN pipe[i].index ELSE 0)
                          = IF d = 0 THEN pos ELSE (pos \div Cap + d) * Cap
  BY DEF InOrder
<1>1. TypeOK /\ StartsOnce /\ MutexesHeld /\ StreamInv /\ pipeNum # 0 /\ HasData(pipe[i])
  BY DEF StreamIInv, StartsOnce, HasData
<1>2. pipeNum \in Nat \ {0} /\ pipeIndex \in 0 .. pipeNum - 1 /\ pipeIndex \in Filled
  BY <1>1, Running
<1>3. i \in Filled /\ i \in Pipes /\ pipeIndex \in Pipes BY <1>1, <1>2, Typed DEF Filled
<1>4. pipe[i] \in PipeSet /\ pipe[pipeIndex] \in PipeSet BY <1>1, <1>3, Typed
<1>5. PICK k \in 0 .. FileSize : Synced(k) BY <1>1 DEF StreamInv
<1>6. PICK d \in 0 .. pipeNum - 1 :
        (i - pipeIndex + pipeNum) % pipeNum = d /\ (d = 0 <=> i = pipeIndex)
  BY <1>2, TurnIs
<1>7. k \in Nat /\ d \in Nat /\ Cap \in Nat \ {0} /\ FileSize \in Nat BY <1>2, <1>5, FarIs, StartOne
<1>8. Blocks(k)[i] = k + d BY <1>3, <1>6 DEF Blocks, Turns
<1>9. PipeAt(pipe[i], push[i], i, k + d, pipeNum) BY <1>3, <1>5, <1>8 DEF Synced
<1>10. pipe[i].base = Start(k + d) /\ Start(k + d) < FileSize BY <1>1, <1>9 DEF PipeAt
<1>11. PICK pos : pos = serial + Taken /\ pos = Position(pipe[pipeIndex], k)
  BY <1>5 DEF Synced
<1>12. CASE d = 0
  <2>1. i = pipeIndex /\ k + d = k BY <1>6, <1>7, <1>12
  <2>2. pos = Start(k) + pipe[i].index BY <1>1, <1>11, <2>1 DEF Position
  <2> QED BY <2>1, <2>2, <1>6, <1>10, <1>11, <1>12
<1>13. CASE d # 0
  <2>1. Start(k) \in Nat /\ Start(k + d) \in Nat /\ Start(k) <= Start(k + d)
    <3>1. k + d \in Nat /\ k <= k + d BY <1>7
    <3> QED BY <1>7, <3>1, StartNat, StartMono
  <2>2. PICK x \in 0 .. Cap - 1 : pos = Start(k) + x
    <3>1. CASE HasData(pipe[pipeIndex])
      <4>1. pos = Start(k) + pipe[pipeIndex].index BY <3>1, <1>11 DEF Position
      <4>2. /\ pipe[pipeIndex].index <= pipe[pipeIndex].size
            /\ pipe[pipeIndex].index # pipe[pipeIndex].size
        BY <3>1, <1>1, <1>3 DEF HasData, StreamInv
      <4>3. pipe[pipeIndex].index \in 0 .. Cap - 1 BY <4>2, <1>4, <1>7, Fields
      <4> QED BY <4>1, <4>3
    <3>2. CASE ~ HasData(pipe[pipeIndex])
      <4>1. Start(k) <= FileSize BY <2>1, <1>7, <1>10
      <4>2. pos = Start(k) + 0 BY <3>2, <4>1, <1>7, <1>11, <2>1, MinTwo DEF Position
      <4>3. 0 \in 0 .. Cap - 1 BY <1>7
      <4> QED BY <4>2, <4>3
    <3> QED BY <3>1, <3>2
  <2>3. pos \in Nat /\ pos = k * Cap + x BY <2>1, <2>2, <1>7 DEF Start
  <2>4. pos \div Cap = k BY <2>3, <1>7, DivBlock
  <2>5. pipe[i].base = (k + d) * Cap BY <1>10 DEF Start
  <2>6. pipe[i].base + 0 = pipe[i].base BY <1>4, Fields
  <2>7. pipe[i].base + 0 = (pos \div Cap + d) * Cap BY <2>4, <2>5, <2>6
  <2> QED BY <1>6, <1>11, <1>13, <2>7
<1> QED BY <1>12, <1>13

(* For any number of readers, pipes and blocks, any size of blocks, file    *)
(* and reads: what addPipeIndex makes WaitPop copy next is the data at the  *)
(* reader's position, whatever the order in which the threads fill their    *)
(* pipes, stop and are stopped.                                             *)
THEOREM DataInOrder == Spec => []Inv
<1>1. StreamIInv => Inv BY OrderFollows DEF StreamIInv, Inv
<1> QED BY <1>1, StreamIInvariance, PTL

\* A read that the stream serves returns from PopEnough or from PopEnds.
LEMMA OnlyPopEnds ==
    ASSUME TypeOK, MutexesHeld, [Next]_vars, NEW r \in Readers, pc[r] = "popping", pc'[r] = "idle"
    PROVE  PopEnough(r) \/ PopEnds(r)
<1> USE ActorsOK
<1>0. r \in Actors BY ActorsOK
<1>1. ASSUME NEW a \in Actors, NEW s \in PcSet, Goto(a, s) PROVE a = r
  <2>1. a # r => pc'[r] = pc[r] BY <1>0, <1>1, GotoOK
  <2> QED BY <2>1
<1>2. pc' # pc BY <1>0
<1>3. CASE UNCHANGED vars BY <1>2, <1>3 DEF vars
<1>4. ASSUME NEW i \in Pipes, PushStep(i) PROVE FALSE
  <2>1. \A b \in Actors : pc'[b] = pc[b] \/ (pc[b] = "wait" /\ pc'[b] = "popping")
    BY <1>4, WokenOK DEF PushStep, PushLoop, PushMustWait, PushBlock, PushStopped, PushData,
         Pushed, PushExit, PushNotify
  <2> QED BY <1>0, <2>1
<1>5. ASSUME NEW a \in Actors, StopStep(a) PROVE FALSE
  <2>1. pc[a] \in {"stop", "stopping"} BY <1>5 DEF StopStep, StopPushThreaded, StopPipe, StopReturns
  <2>2. pc' = pc \/ \E s \in {"stopping", "join", "idle", "random", "check"} : Goto(a, s)
    BY <1>5 DEF StopStep, StopPushThreaded, StopPipe, StopReturns
  <2>3. \E s \in PcSet : Goto(a, s) BY <1>2, <2>2 DEF PcSet
  <2> QED BY <1>1, <2>1, <2>3
<1>6. CASE Write \/ Close \/ WaitPushEnded
  <2>1. PICK a \in {Writer, Closer}, s \in {"stop", "closed"} : Goto(a, s)
    BY <1>6 DEF Write, Close, WaitPushEnded
  <2>2. a \in Actors /\ a \notin Readers /\ s \in PcSet BY <2>1, ReadersOK DEF PcSet
  <2> QED BY <1>1, <2>1, <2>2
<1>7. ASSUME NEW q \in Readers, NEW o \in Offsets, Read(q, o) PROVE FALSE
  <2>1. pc[q] = "idle" /\ \E s \in PcSet : Goto(q, s) BY <1>7 DEF Read, PcSet
  <2> QED BY <1>1, <2>1
<1>8. ASSUME NEW q \in Readers, ReadStep(q) PROVE PopEnough(r) \/ PopEnds(r)
  <2>1. CASE PopEnough(q)
    <3>1. Goto(q, "idle") BY <2>1 DEF PopEnough, PopReturns, Finish
    <3> QED BY <2>1, <3>1, <1>1 DEF PcSet
  <2>2. CASE PopEnds(q)
    <3>1. Goto(q, "idle") BY <2>2 DEF PopEnds, PopReturns, Finish
    <3> QED BY <2>2, <3>1, <1>1 DEF PcSet
  <2>3. CASE PopData(q) BY <2>3, <1>2 DEF PopData
  <2>4. CASE PopMustWait(q)
    <3>1. Goto(q, "block") BY <2>4 DEF PopMustWait
    <3>2. pc'[q] = "block" /\ q = r BY <3>1, <1>1, GotoOK DEF PcSet
    <3> QED BY <3>2
  <2>5. ASSUME pc[q] # "popping", \E s \in PcSet : Goto(q, s) PROVE FALSE
    BY <1>1, <2>5
  <2>6. CASE Lock(q)
    <3>1. pc[q] = "lock" /\ \E s \in {"stop", "pop"} : Goto(q, s) BY <2>6 DEF Lock
    <3> QED BY <2>5, <3>1 DEF PcSet
  <2>7. CASE StreamInit(q) \/ StreamInitFails(q) \/ NotStarted(q) \/ StartPushThreaded(q) \/ Check(q)
    <3>1. pc[q] # "popping" /\ \E s \in {"start", "failed", "stop", "check", "random", "lock"} : Goto(q, s)
      BY <2>7 DEF StreamInit, StreamInitFails, NotStarted, StartPushThreaded, Check
    <3> QED BY <2>5, <3>1 DEF PcSet
  <2>8. CASE RandomRead(q) \/ WaitPop(q) \/ PopBlock(q)
    <3>1. pc[q] # "popping" /\ \E s \in {"idle", "popping", "wait"} : Goto(q, s)
      BY <2>8 DEF RandomRead, WaitPop, PopBlock, Finish
    <3> QED BY <2>5, <3>1 DEF PcSet
  <2> QED BY <1>8, <2>1, <2>2, <2>3, <2>4, <2>6, <2>7, <2>8 DEF ReadStep
<1> QED BY <1>3, <1>4, <1>5, <1>6, <1>7, <1>8 DEF Next

\* A read that returns while the threads prefetch, and not because of an error, has got
\* all that it asked for, or the position is the end of the file.
LEMMA EndStep ==
    ASSUME StreamIInv, [Next]_vars, NEW r \in Readers, pc[r] = "popping", pc'[r] = "idle",
           Prefetching, ~ broken'
    PROVE  got[r] = Available(off[r], ReadSize)
<1>1. TypeOK /\ StartsOnce /\ MutexesHeld /\ StreamInv /\ ~ streamStop
  BY DEF StreamIInv, Prefetching
<1>2. pipeNum # 0 BY <1>1 DEF StartsOnce
<1>3. /\ off[r] = serial /\ Taken = got[r] /\ got[r] \in Nat /\ serial \in Nat
      /\ ReadSize \in Nat /\ got[r] <= ReadSize /\ FileSize \in Nat
  BY <1>1, PopperHolds, FarIs
<1>4. Available(off[r], ReadSize)
        = IF serial >= FileSize THEN 0
          ELSE IF ReadSize <= FileSize - serial THEN ReadSize ELSE FileSize - serial
  BY <1>3, AvailableIs
<1>5. serial + got[r] <= FileSize BY <1>1, <1>3 DEF StreamInv
<1>6. CASE PopEnough(r)
  <2>1. got[r] = ReadSize BY <1>1, <1>6 DEF PopEnough
  <2> QED BY <2>1, <1>3, <1>4, <1>5
<1>7. CASE PopEnds(r)
  <2> DEFINE x == pipeIndex
             p == pipe[x]
             bs(k) == Blocks(k)
  <2>1. /\ ~ broken /\ ~ (p.size < 0) /\ (p.size <= 0 \/ (p.index = p.size /\ p.stop))
    BY <1>7 DEF PopEnds
  <2>2. pipeNum \in Nat \ {0} /\ x \in 0 .. pipeNum - 1 /\ x \in Filled BY <1>1, <1>2, Running
  <2>3. p \in PipeSet /\ push[x] \in ThreadSet BY <1>1, <2>2, Typed
  <2>4. PICK k \in 0 .. FileSize : Synced(k) BY <1>1, <2>1 DEF StreamInv
  <2>5. k \in Nat /\ p.size \in Int /\ p.stop \in BOOLEAN /\ push[x].off \in Nat /\ push[x].ret \in Int
    BY <1>3, <2>3, <2>4, Fields
  <2>6. /\ Blocks(k) \in [0 .. pipeNum - 1 -> Nat]
        /\ Blocks(k)[x] = k
        /\ \A i \in 0 .. pipeNum - 1 : Blocks(k)[i] >= k /\ Blocks(k)[i] < k + pipeNum
        /\ \A i, j \in 0 .. pipeNum - 1 : i # j => Blocks(k)[i] # Blocks(k)[j]
    BY <2>2, <2>5, BlocksOK
  <2>7. DOMAIN Blocks(k) = 0 .. pipeNum - 1 /\ x \in DOMAIN Blocks(k) BY <2>2, <2>6
  <2>8. ~ HasData(p) /\ NextBlock(p, k, pipeNum) = k BY <2>1, <2>5 DEF HasData, NextBlock
  <2>9. EndAt(pipe, push[x], stopOffset, Blocks(k), x, pipeNum)
    BY <2>4, <2>7 DEF Synced, Ending
  <2>10. PipeAt(p, push[x], x, k, pipeNum) BY <2>2, <2>4, <2>6 DEF Synced
  <2>11. push[x].at # "none" BY <2>2 DEF Prefetching
  <2>12. Over(pipe, Blocks(k), k) \/ Start(k) >= FileSize
    <3>1. CASE p.stop \/ push[x].at \in {"exit", "notify", "ended"}
      BY <3>1, <2>6, <2>8, <2>9 DEF EndAt
    <3>2. CASE ~ p.stop /\ push[x].at \notin {"exit", "notify", "ended"}
      <4>1. p.size = 0 BY <2>1, <2>5, <3>2
      <4>2. push[x].at = "pushed" BY <2>3, <2>10, <2>11, <3>2, <4>1 DEF PipeAt, ThreadSet
      <4>3. Fetched(p, push[x], k, pipeNum) BY <2>10, <3>2, <4>2 DEF PipeAt
      <4>4. push[x].ret = 0 BY <4>1, <4>3 DEF Fetched
      <4>5. push[x].off >= FileSize /\ SamePlace(push[x].off, Start(k)) BY <4>3, <4>4, <2>5 DEF Fetched
      <4> QED BY <4>5, <1>3, <2>5 DEF SamePlace
    <3> QED BY <3>1, <3>2
  <2>13. Start(k) >= FileSize
    <3>1. ASSUME NEW j \in DOMAIN Blocks(k), pipe[j].size < 0, Blocks(k)[j] <= k PROVE FALSE
      <4>1. Blocks(k)[j] = k BY <2>5, <2>6, <2>7, <3>1
      <4>2. j = x BY <4>1, <2>2, <2>6, <2>7
      <4> QED BY <4>2, <3>1, <2>1
    <3> QED BY <2>12, <3>1 DEF Over
  <2>14. serial + got[r] = FileSize
    <3>1. serial + got[r] = Min({Start(k), FileSize})
      BY <1>3, <2>4, <2>8 DEF Synced, Position
    <3>2. Start(k) \in Nat BY <2>5, StartNat
    <3> QED BY <3>1, <3>2, <2>13, <1>3, MinTwo
  <2> QED BY <2>14, <1>3, <1>4
<1> QED BY <1>1, <1>6, <1>7, OnlyPopEnds

(* A short read is the end of the file: the stopOffset that the first       *)
(* thread to meet the end sets, and that later ones set again, never keeps  *)
(* data before the end from a reader, unless a read failed or the stream    *)
(* was stopped.                                                             *)
THEOREM ReadsEndAtTheEnd == Spec => EndIsReal
<1>1. ASSUME StreamIInv, [Next]_vars
      PROVE  [\A r \in Readers :
                pc[r] = "popping" /\ pc'[r] = "idle" /\ Prefetching /\ ~ broken'
                  => got[r] = Available(off[r], ReadSize)]_vars
  BY <1>1, EndStep
<1> QED BY <1>1, StreamIInvariance, PTL DEF Spec, EndIsReal
=============================================================================
