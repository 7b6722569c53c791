-------------------------- MODULE NamespaceProofs --------------------------
(***************************************************************************)
(* Proofs about Namespace: the copies of the directory table on the        *)
(* workers agree with the CN's, for every number of workers, sessions,     *)
(* failed statements and lost commits, and for every request.              *)
(***************************************************************************)
EXTENDS Namespace, WellFoundedInduction, TLAPS

\* Sequences, of whatever elements.
LEMMA SeqIsSeq ==
    ASSUME NEW S, NEW x \in Seq(S)
    PROVE  IsSeq(x) /\ DOMAIN x = 1..Len(x)
<1>1. PICK n \in Nat : x \in [1..n -> S]
  OBVIOUS
<1>2. Len(x) = n
  BY <1>1
<1> QED BY <1>1, <1>2 DEF IsSeq

\* The pieces of a sequence, and of one with an element more or less.
LEMMA SeqTail ==
    ASSUME NEW q, IsSeq(q), q # <<>>
    PROVE  /\ IsSeq(Tail(q)) /\ 1 \in DOMAIN q
           /\ \A i \in DOMAIN Tail(q) : i + 1 \in DOMAIN q /\ Tail(q)[i] = q[i + 1]
           /\ \A i \in DOMAIN q : i = 1 \/ (i - 1 \in DOMAIN Tail(q) /\ Tail(q)[i - 1] = q[i])
<1> DEFINE S == {q[i] : i \in 1..Len(q)}
<1>1. q \in Seq(S)
  <2>1. q \in [1..Len(q) -> S]
    BY DEF IsSeq
  <2> QED BY <2>1 DEF IsSeq
<1> HIDE DEF S
<1>2. Len(q) \in Nat /\ Len(q) > 0 /\ DOMAIN q = 1..Len(q)
  BY <1>1
<1>3. Tail(q) \in Seq(S) /\ Len(Tail(q)) = Len(q) - 1
  BY <1>1
<1>4. DOMAIN Tail(q) = 1..(Len(q) - 1) /\ IsSeq(Tail(q))
  BY <1>3, SeqIsSeq
<1>5. \A i \in 1..(Len(q) - 1) : Tail(q)[i] = q[i + 1]
  BY <1>1, <1>2
<1> QED BY <1>2, <1>3, <1>4, <1>5

\* Append keeps what is there and adds one element.
LEMMA SeqAppend ==
    ASSUME NEW q, IsSeq(q), NEW e
    PROVE  /\ IsSeq(Append(q, e)) /\ Len(Append(q, e)) = Len(q) + 1
           /\ DOMAIN Append(q, e) = DOMAIN q \cup {Len(q) + 1}
           /\ \A i \in DOMAIN q : Append(q, e)[i] = q[i]
           /\ Append(q, e)[Len(q) + 1] = e
           /\ DOMAIN q = 1..Len(q)
<1> DEFINE S == {q[i] : i \in 1..Len(q)} \cup {e}
<1>1. q \in Seq(S) /\ e \in S
  <2>1. q \in [1..Len(q) -> S]
    BY DEF IsSeq
  <2> QED BY <2>1 DEF IsSeq
<1> HIDE DEF S
<1>2. Len(q) \in Nat /\ DOMAIN q = 1..Len(q)
  BY <1>1
<1>3. Append(q, e) \in Seq(S) /\ Len(Append(q, e)) = Len(q) + 1
  BY <1>1
<1>4. DOMAIN Append(q, e) = 1..(Len(q) + 1) /\ IsSeq(Append(q, e))
  BY <1>3, SeqIsSeq
<1>5. /\ \A i \in 1..Len(q) : Append(q, e)[i] = q[i]
      /\ Append(q, e)[Len(q) + 1] = e
  BY <1>1, <1>2
<1> QED BY <1>2, <1>3, <1>4, <1>5

\* c is q followed by r.
Joined(q, r, c) ==
    /\ IsSeq(c)
    /\ \A i \in DOMAIN c : \/ i \in DOMAIN q /\ c[i] = q[i]
                           \/ i - Len(q) \in DOMAIN r /\ c[i] = r[i - Len(q)]
    /\ \A i \in DOMAIN q : i \in DOMAIN c /\ c[i] = q[i]
    /\ \A i \in DOMAIN r : i + Len(q) \in DOMAIN c /\ c[i + Len(q)] = r[i]

\* Concatenation is such a sequence.
LEMMA SeqConcat ==
    ASSUME NEW q, IsSeq(q), NEW r, IsSeq(r)
    PROVE  Joined(q, r, q \o r)
<1> DEFINE S == {q[i] : i \in 1..Len(q)} \cup {r[i] : i \in 1..Len(r)}
<1>1. q \in Seq(S) /\ r \in Seq(S)
  <2>1. q \in [1..Len(q) -> S] /\ r \in [1..Len(r) -> S]
    BY DEF IsSeq
  <2> QED BY <2>1 DEF IsSeq
<1> HIDE DEF S
<1>2. /\ Len(q) \in Nat /\ DOMAIN q = 1..Len(q)
      /\ Len(r) \in Nat /\ DOMAIN r = 1..Len(r)
  BY <1>1
<1>3. q \o r \in Seq(S) /\ Len(q \o r) = Len(q) + Len(r)
  BY <1>1
<1>4. DOMAIN (q \o r) = 1..(Len(q) + Len(r)) /\ IsSeq(q \o r)
  BY <1>3, SeqIsSeq
<1>5. \A i \in 1..(Len(q) + Len(r)) : (q \o r)[i] = IF i <= Len(q) THEN q[i] ELSE r[i - Len(q)]
  BY <1>1, <1>2
<1>7. ASSUME NEW i \in DOMAIN (q \o r)
      PROVE  \/ i \in DOMAIN q /\ (q \o r)[i] = q[i]
             \/ i - Len(q) \in DOMAIN r /\ (q \o r)[i] = r[i - Len(q)]
  <2>0. i \in 1..(Len(q) + Len(r))
    BY <1>4, <1>7
  <2>1. i <= Len(q) => i \in DOMAIN q
    BY <1>2, <2>0
  <2>2. ~(i <= Len(q)) => i - Len(q) \in DOMAIN r
    BY <1>2, <2>0
  <2> QED BY <1>5, <2>0, <2>1, <2>2
<1>8. \A i \in DOMAIN q : i \in DOMAIN (q \o r) /\ (q \o r)[i] = q[i]
  BY <1>2, <1>4, <1>5
<1>9. \A i \in DOMAIN r : i + Len(q) \in DOMAIN (q \o r) /\ (q \o r)[i + Len(q)] = r[i]
  <2> SUFFICES ASSUME NEW i \in 1..Len(r)
      PROVE  i + Len(q) \in DOMAIN (q \o r) /\ (q \o r)[i + Len(q)] = r[i]
    BY <1>2
  <2>1. i + Len(q) \in 1..(Len(q) + Len(r)) /\ ~(i + Len(q) <= Len(q)) /\ i + Len(q) - Len(q) = i
    BY <1>2
  <2> QED BY <1>4, <1>5, <2>1
<1> QED BY <1>4, <1>7, <1>8, <1>9 DEF Joined

\* The empty sequence, and the head of any other.
LEMMA SeqEmpty == IsSeq(<<>>) /\ DOMAIN <<>> = {} /\ \A q : IsSeq(q) /\ q # <<>> => 1 \in DOMAIN q
<1>1. ASSUME NEW q, IsSeq(q), q # <<>> PROVE 1 \in DOMAIN q
  BY <1>1, SeqTail
<1> QED BY <1>1 DEF IsSeq

\* A function of an initial segment is a sequence.
LEMMA SeqOfFunction ==
    ASSUME NEW n \in Nat, NEW q, DOMAIN q = 1..n, q = [i \in 1..n |-> q[i]]
    PROVE  IsSeq(q) /\ Len(q) = n
<1> DEFINE S == {q[i] : i \in 1..n}
<1>1. q \in [1..n -> S]
  OBVIOUS
<1>2. q \in Seq(S)
  BY <1>1
<1> QED BY <1>1, <1>2 DEF IsSeq

-----------------------------------------------------------------------------
(* Induction over a number, for what the walk of a path returns.            *)

\* A set of numbers that is not empty has a least one.
LEMMA LeastNumber ==
    ASSUME NEW T \in SUBSET Nat, T # {}
    PROVE  \E x \in T : \A y \in T : x <= y
<1>1. IsWellFoundedOn({ss \in Nat \X Nat : ss[1] < ss[2]}, Nat)
  BY NatLessThanWellFounded DEF OpToRel
<1>2. PICK x \in T : \A y \in T : ~ (<<y, x>> \in {ss \in Nat \X Nat : ss[1] < ss[2]})
  BY <1>1, WFMin
<1>3. \A y \in T : ~ (y < x)
  BY <1>2
<1> QED BY <1>3

\* A set that has 0, and with a number the next one, has all numbers.
LEMMA NumberInduction ==
    ASSUME NEW T, 0 \in T, \A n \in Nat : n \in T => n + 1 \in T
    PROVE  Nat \subseteq T
<1> SUFFICES ASSUME Nat \ T # {} PROVE FALSE
  OBVIOUS
<1>1. PICK x \in Nat \ T : \A y \in Nat \ T : x <= y
  BY LeastNumber
<1>2. x # 0
  OBVIOUS
<1>3. x - 1 \in Nat /\ x - 1 \in T
  BY <1>1, <1>2
<1> QED BY <1>3

\* f is what a recursion from a with the step G gives, up to N.
Recurses(f, N, V, a, G) ==
    f \in [0 .. N -> V] /\ f[0] = a /\ \A n \in 1 .. N : f[n] = G[<<n, f[n - 1]>>]

\* There is such a function.
LEMMA Recursion ==
    ASSUME NEW V, NEW a \in V, NEW G \in [Nat \X V -> V], NEW N \in Nat
    PROVE  \E f : Recurses(f, N, V, a, G)
<1> DEFINE P(m, f) == f[0] = a /\ \A n \in 1 .. m : f[n] = G[<<n, f[n - 1]>>]
           T == {m \in Nat : \E f \in [0 .. m -> V] : P(m, f)}
<1>1. 0 \in T
  <2>1. [n \in 0 .. 0 |-> a] \in [0 .. 0 -> V] /\ P(0, [n \in 0 .. 0 |-> a])
    OBVIOUS
  <2> QED BY <2>1
<1>2. ASSUME NEW m \in Nat, m \in T PROVE m + 1 \in T
  <2>1. PICK f \in [0 .. m -> V] : P(m, f)
    BY <1>2
  <2> DEFINE g == [n \in 0 .. m + 1 |-> IF n <= m THEN f[n] ELSE G[<<m + 1, f[m]>>]]
  <2>2. g \in [0 .. m + 1 -> V]
    OBVIOUS
  <2>3. g[0] = a
    BY <2>1
  <2>4. ASSUME NEW n \in 1 .. m + 1 PROVE g[n] = G[<<n, g[n - 1]>>]
    <3>1. CASE n <= m
      <4>1. g[n] = f[n] /\ g[n - 1] = f[n - 1] /\ n \in 1 .. m
        BY <3>1
      <4> QED BY <4>1, <2>1
    <3>2. CASE n = m + 1
      <4>1. g[n] = G[<<m + 1, f[m]>>] /\ g[n - 1] = f[m]
        BY <3>2
      <4> QED BY <4>1, <3>2
    <3> QED BY <3>1, <3>2
  <2>5. P(m + 1, g)
    BY <2>3, <2>4
  <2> HIDE DEF g, P
  <2>6. \E h \in [0 .. m + 1 -> V] : P(m + 1, h)
    BY <2>2, <2>5
  <2> QED BY <2>6
<1> HIDE DEF T
<1>3. Nat \subseteq T
  BY <1>1, <1>2, NumberInduction
<1>4. PICK f \in [0 .. N -> V] : P(N, f)
  BY <1>3 DEF T
<1> QED BY <1>4 DEF Recurses

\* W is the walk of CheckWhetherPathExistsInDirectoryTable along p in the table t.
Walks(t, p, W) ==
    W = [n \in 0 .. Len(p) |-> IF n = 0 THEN Root ELSE Row(t, <<W[n - 1], p[n]>>, Absent)]

\* There is one, so that the definition's is one.
LEMMA WalkExists ==
    ASSUME NEW t, NEW V, Root \in V, Absent \in V, \A k \in DOMAIN t : t[k] \in V,
           NEW p, Len(p) \in Nat
    PROVE  \E f : Walks(t, p, f)
<1> DEFINE G == [x \in Nat \X V |-> Row(t, <<x[2], p[x[1]]>>, Absent)]
<1>1. G \in [Nat \X V -> V]
  BY DEF Row
<1>2. ASSUME NEW n \in Nat, NEW v \in V PROVE G[<<n, v>>] = Row(t, <<v, p[n]>>, Absent)
  <2>1. <<n, v>> \in Nat \X V
    OBVIOUS
  <2>2. G[<<n, v>>] = Row(t, <<<<n, v>>[2], p[<<n, v>>[1]]>>, Absent)
    BY <2>1
  <2> QED BY <2>2
<1> HIDE DEF G
<1>3. PICK f : Recurses(f, Len(p), V, Root, G)
  BY <1>1, Recursion
<1>4. /\ f \in [0 .. Len(p) -> V] /\ f[0] = Root
      /\ \A n \in 1 .. Len(p) : f[n] = G[<<n, f[n - 1]>>]
  BY <1>3 DEF Recurses
<1> DEFINE h == [n \in 0 .. Len(p) |-> IF n = 0 THEN Root ELSE Row(t, <<f[n - 1], p[n]>>, Absent)]
<1>5. ASSUME NEW n \in 0 .. Len(p) PROVE f[n] = h[n]
  <2>1. CASE n = 0
    BY <2>1, <1>4
  <2>2. CASE n # 0
    <3>1. n \in 1 .. Len(p) /\ n \in Nat /\ n - 1 \in 0 .. Len(p)
      BY <2>2
    <3>2. f[n - 1] \in V
      BY <1>4, <3>1
    <3>3. f[n] = Row(t, <<f[n - 1], p[n]>>, Absent)
      BY <3>1, <3>2, <1>2, <1>4
    <3> QED BY <3>3, <2>2
  <2> QED BY <2>1, <2>2
<1>6. f = h
  BY <1>4, <1>5
<1> QED BY <1>6 DEF Walks

\* The id that a path has is one of the table's, or none.
LEMMA WalkTyped ==
    ASSUME NEW t, NEW V, Root \in V, Absent \in V, \A k \in DOMAIN t : t[k] \in V,
           NEW p, Len(p) \in Nat
    PROVE  CheckWhetherPathExistsInDirectoryTable(t, p) \in V
<1> DEFINE W == CHOOSE W : Walks(t, p, W)
<1>1. Walks(t, p, W)
  BY WalkExists
<1>2. CheckWhetherPathExistsInDirectoryTable(t, p) = W[Len(p)]
  BY DEF CheckWhetherPathExistsInDirectoryTable, Walks
<1> HIDE DEF W
<1>3. W = [n \in 0 .. Len(p) |-> IF n = 0 THEN Root ELSE Row(t, <<W[n - 1], p[n]>>, Absent)]
  BY <1>1 DEF Walks
<1> DEFINE T == {n \in Nat : n <= Len(p) => W[n] \in V}
<1>4. 0 \in T
  BY <1>3
<1>5. ASSUME NEW n \in Nat, n \in T PROVE n + 1 \in T
  <2>1. n + 1 <= Len(p) => n + 1 \in 0 .. Len(p) /\ n + 1 # 0 /\ n + 1 - 1 = n
    OBVIOUS
  <2>2. n + 1 <= Len(p) => W[n + 1] = Row(t, <<W[n], p[n + 1]>>, Absent)
    BY <1>3, <2>1
  <2>3. Row(t, <<W[n], p[n + 1]>>, Absent) \in V
    BY DEF Row
  <2> QED BY <2>2, <2>3
<1> HIDE DEF T
<1>6. Nat \subseteq T
  BY <1>4, <1>5, NumberInduction
<1>7. Len(p) \in T
  BY <1>6
<1> QED BY <1>2, <1>7 DEF T

\* U is what CreateStmts computes.
Collects(list, w, U) ==
    U = [n \in 0 .. Len(list) |->
            IF n = 0 THEN <<>>
            ELSE IF Home[list[n].key[2]] = w THEN Append(U[n - 1], Stmt("create", list[n].key, list[n].id))
            ELSE U[n - 1]]

\* The statements that create the rows of a list.
CreateSet(list) == {Stmt("create", list[n].key, list[n].id) : n \in 1 .. Len(list)}

\* There is such a function.
LEMMA CollectExists ==
    ASSUME NEW list, Len(list) \in Nat, NEW w
    PROVE  \E f : Collects(list, w, f)
<1> DEFINE V == Seq(CreateSet(list) \cup {<<>>})
           G == [x \in Nat \X V |-> IF x[1] \in 1 .. Len(list) /\ Home[list[x[1]].key[2]] = w
                                    THEN Append(x[2], Stmt("create", list[x[1]].key, list[x[1]].id))
                                    ELSE x[2]]
<1>1. G \in [Nat \X V -> V]
  <2> SUFFICES ASSUME NEW x \in Nat \X V PROVE G[x] \in V
    BY DEF CreateSet
  <2>1. x[1] \in Nat /\ x[2] \in V
    OBVIOUS
  <2>2. CASE x[1] \in 1 .. Len(list) /\ Home[list[x[1]].key[2]] = w
    <3>1. Stmt("create", list[x[1]].key, list[x[1]].id) \in CreateSet(list)
      BY <2>2 DEF CreateSet
    <3>2. Append(x[2], Stmt("create", list[x[1]].key, list[x[1]].id)) \in V
      BY <2>1, <3>1
    <3> QED BY <2>2, <3>2
  <2>3. CASE ~ (x[1] \in 1 .. Len(list) /\ Home[list[x[1]].key[2]] = w)
    BY <2>1, <2>3
  <2> QED BY <2>2, <2>3
<1>2. ASSUME NEW n \in 1 .. Len(list), NEW v \in V
      PROVE  G[<<n, v>>] = IF Home[list[n].key[2]] = w
                           THEN Append(v, Stmt("create", list[n].key, list[n].id)) ELSE v
  <2>1. <<n, v>> \in Nat \X V
    OBVIOUS
  <2>2. <<n, v>>[1] = n /\ <<n, v>>[2] = v
    OBVIOUS
  <2> QED BY <2>1, <2>2
<1>0. <<>> \in V
  OBVIOUS
<1> HIDE DEF G, V
<1>3. PICK f : Recurses(f, Len(list), V, <<>>, G)
  BY <1>0, <1>1, Recursion
<1>4. /\ f \in [0 .. Len(list) -> V] /\ f[0] = <<>>
      /\ \A n \in 1 .. Len(list) : f[n] = G[<<n, f[n - 1]>>]
  BY <1>3 DEF Recurses
<1> DEFINE h == [n \in 0 .. Len(list) |->
            IF n = 0 THEN <<>>
            ELSE IF Home[list[n].key[2]] = w THEN Append(f[n - 1], Stmt("create", list[n].key, list[n].id))
            ELSE f[n - 1]]
<1>5. ASSUME NEW n \in 0 .. Len(list) PROVE f[n] = h[n]
  <2>1. CASE n = 0
    BY <2>1, <1>4
  <2>2. CASE n # 0
    <3>1. n \in 1 .. Len(list) /\ n - 1 \in 0 .. Len(list)
      BY <2>2
    <3>2. f[n - 1] \in V
      BY <1>4, <3>1
    <3>3. f[n] = IF Home[list[n].key[2]] = w
                 THEN Append(f[n - 1], Stmt("create", list[n].key, list[n].id)) ELSE f[n - 1]
      BY <3>1, <3>2, <1>2, <1>4
    <3> QED BY <3>3, <2>2
  <2> QED BY <2>1, <2>2
<1>6. f = h
  BY <1>4, <1>5
<1> QED BY <1>6 DEF Collects

\* CreateStmts is a sequence of such statements.
LEMMA CreateStmtsSound ==
    ASSUME NEW list, Len(list) \in Nat, NEW w
    PROVE  CreateStmts(list, w) \in Seq(CreateSet(list))
<1> DEFINE W == CHOOSE U : Collects(list, w, U)
<1>1. Collects(list, w, W)
  BY CollectExists
<1>2. CreateStmts(list, w) = W[Len(list)]
  BY DEF CreateStmts, Collects
<1> HIDE DEF W
<1>3. W = [n \in 0 .. Len(list) |->
            IF n = 0 THEN <<>>
            ELSE IF Home[list[n].key[2]] = w THEN Append(W[n - 1], Stmt("create", list[n].key, list[n].id))
            ELSE W[n - 1]]
  BY <1>1 DEF Collects
<1>8. ASSUME NEW m \in 1 .. Len(list)
      PROVE  W[m] = IF Home[list[m].key[2]] = w
                    THEN Append(W[m - 1], Stmt("create", list[m].key, list[m].id)) ELSE W[m - 1]
  <2>1. m \in 0 .. Len(list) /\ m # 0
    OBVIOUS
  <2> QED BY <1>3, <2>1
<1> DEFINE T == {n \in Nat : n <= Len(list) => W[n] \in Seq(CreateSet(list))}
<1>4. 0 \in T
  BY <1>3
<1>5. ASSUME NEW n \in Nat, n \in T PROVE n + 1 \in T
  <2>1. ASSUME n + 1 <= Len(list) PROVE W[n + 1] \in Seq(CreateSet(list))
    <3>1. n + 1 \in 0 .. Len(list) /\ n + 1 # 0 /\ n + 1 - 1 = n /\ n + 1 \in 1 .. Len(list) /\ n <= Len(list)
      BY <2>1
    <3> DEFINE m == n + 1
    <3>6. m \in 1 .. Len(list) /\ m - 1 = n
      BY <3>1
    <3> HIDE DEF m
    <3>7. W[m] = IF Home[list[m].key[2]] = w
                 THEN Append(W[n], Stmt("create", list[m].key, list[m].id)) ELSE W[n]
      BY <1>8, <3>6
    <3>3. Stmt("create", list[m].key, list[m].id) \in CreateSet(list)
      BY <3>6 DEF CreateSet
    <3>4. W[n] \in Seq(CreateSet(list))
      BY <1>5, <3>1
    <3>5. Append(W[n], Stmt("create", list[m].key, list[m].id)) \in Seq(CreateSet(list))
      BY <3>3, <3>4
    <3>8. W[m] \in Seq(CreateSet(list))
      BY <3>4, <3>5, <3>7
    <3> QED BY <3>8 DEF m
  <2> QED BY <2>1
<1> HIDE DEF T
<1>6. Nat \subseteq T
  BY <1>4, <1>5, NumberInduction
<1>7. Len(list) \in T
  BY <1>6
<1> QED BY <1>2, <1>7 DEF T

-----------------------------------------------------------------------------
\* What Apply does to a row.
LEMMA RowOfApply ==
    ASSUME NEW f, NEW g, NEW k, NEW none
    PROVE  Row(Apply(f, g, none), k, none) = IF k \in DOMAIN g THEN g[k] ELSE Row(f, k, none)
BY DEF Row, Apply

\* Converging for every key, those that neither table has included.
LEMMA ConvergingRows ==
    ASSUME Converging, NEW w \in Workers, NEW k
    PROVE  \/ Row(dir[w], k, Absent) = Row(dir[CN], k, Absent)
           \/ \E s \in Sessions : pc[s] = "decided" /\ k \in DOMAIN ddir[s][w]
           \/ \E d \in indoubt : d.w = w /\ k \in DOMAIN d.dirs
<1>1. CASE k \in DOMAIN dir[w] \cup DOMAIN dir[CN]
  BY <1>1 DEF Converging
<1>2. CASE k \notin DOMAIN dir[w] \cup DOMAIN dir[CN]
  BY <1>2 DEF Row
<1> QED BY <1>1, <1>2

\* Two transactions do not write the same directory.
LEMMA OneWriter ==
    ASSUME ReplicaInv, NEW s \in Sessions, NEW t \in Sessions, NEW sv \in Servers, NEW k,
           k \in DOMAIN ddir[s][sv], <<CN, k, t>> \in exclusive
    PROVE  s = t
<1>1. k \in DOMAIN ddir[s][CN]
  BY DEF ReplicaInv, SessionOK, PartsSound, Servers
<1>2. <<CN, k, s>> \in exclusive
  BY <1>1 DEF ReplicaInv, SessionOK, DirtyLocked
<1>3. <<CN, k, s>>[2] = k
  OBVIOUS
<1> QED BY <1>2, <1>3 DEF ReplicaInv, LocksApart

-----------------------------------------------------------------------------
(* The theorem's parts that follow at once.                                 *)

\* Nothing is written or locked at first, and all tables are the same.
LEMMA InitReplicas == ASSUME Init PROVE ReplicaInv
<1> USE NamespaceAssumptions
<1>0. PICK t \in Trees : dir = [sv \in Servers |-> t.dir] /\ nextId = t.next
  BY DEF Init
<1>1. \A s \in Sessions : \A sv \in Servers : DOMAIN ddir[s][sv] = {}
  BY DEF Init, NoFun
<1>2. ShapeOK
  <2>1. t.next \in 1..(MaxId + 1) /\ MaxId \in Nat
    BY DEF TreeTyped
  <2>2. nextId \in Nat
    BY <1>0, <2>1
  <2> QED BY <1>0, <2>2, SeqEmpty DEF Init, ShapeOK
<1>4. CN \in Servers /\ Workers \subseteq Servers
  BY DEF Servers
<1>5. LocksApart /\ DoubtSound
  BY <1>1, <1>4 DEF Init, LocksApart, DoubtSound
<1>6. ASSUME NEW s \in Sessions PROVE SessionOK(s)
  <2>1. RequestOK(s) /\ FoundWritten(s) /\ WriteChanges(s)
    BY DEF Init, RequestOK, FoundWritten, WriteChanges, InProgress, Undecided
  <2>2. DirtyLocked(s) /\ PartsSound(s)
    BY <1>1, <1>4 DEF DirtyLocked, PartsSound
  <2>3. ScriptsSound(s)
    BY SeqEmpty DEF Init, ScriptsSound
  <2> QED BY <2>1, <2>2, <2>3 DEF SessionOK
<1>8. Converging
  BY <1>0, <1>4 DEF Converging
<1> QED BY <1>2, <1>5, <1>6, <1>8 DEF ReplicaInv

\* A part that is to be committed is locked on the CN.
LEMMA AgreeFollows == ASSUME ReplicaInv PROVE ReplicasAgree
<1> SUFFICES ASSUME NEW w \in Workers, NEW k \in DOMAIN dir[w] \cup DOMAIN dir[CN]
    PROVE  \/ Row(dir[w], k, Absent) = Row(dir[CN], k, Absent)
           \/ \E s \in Sessions : <<CN, k, s>> \in exclusive
           \/ \E d \in indoubt : d.w = w /\ k \in DOMAIN d.dirs
  BY DEF ReplicasAgree
<1>1. ASSUME NEW s \in Sessions, k \in DOMAIN ddir[s][w] PROVE <<CN, k, s>> \in exclusive
  <2>1. k \in DOMAIN ddir[s][CN]
    BY <1>1 DEF ReplicaInv, SessionOK, PartsSound
  <2> QED BY <2>1 DEF ReplicaInv, SessionOK, DirtyLocked
<1> QED BY <1>1 DEF ReplicaInv, Converging

-----------------------------------------------------------------------------
(* Steps of one session.                                                    *)

\* What the other sessions know is theirs.
SameSession(t) ==
    /\ pc'[t] = pc[t] /\ job'[t] = job[t] /\ known'[t] = known[t] /\ turn'[t] = turn[t]
    /\ found'[t] = found[t] /\ ddir'[t] = ddir[t] /\ script'[t] = script[t]

\* A session that does not step and whose directories nobody changes.
LEMMA SessionKept ==
    ASSUME NEW t \in Sessions, SessionOK(t), SameSession(t),
           \A k : <<CN, k, t>> \in exclusive =>
               /\ <<CN, k, t>> \in exclusive'
               /\ Row(dir'[CN], k, Absent) = Row(dir[CN], k, Absent)
               /\ \A w \in Workers : k \in DOMAIN ddir[t][w] => Row(dir'[w], k, Absent) = Row(dir[w], k, Absent)
    PROVE  SessionOK(t)'
<1>0. CN \in Servers /\ Workers \subseteq Servers
  BY DEF Servers
<1>1. RequestOK(t)'
  BY DEF SessionOK, SameSession, RequestOK
<1>2. DirtyLocked(t)'
  BY DEF SessionOK, SameSession, DirtyLocked
<1>3. FoundWritten(t)'
  <2> SUFFICES ASSUME pc'[t] = "parse" PROVE FoundWritten(t)'
    BY DEF FoundWritten
  <2>1. FoundWritten(t) /\ pc[t] = "parse"
    BY DEF SessionOK, SameSession
  <2>2. RenamesDir(t)' <=> RenamesDir(t)
    BY DEF SameSession, RenamesDir
  <2> QED BY <1>0, <2>1, <2>2 DEF SameSession, FoundWritten
<1>4. WriteChanges(t)'
  <2>1. \A k \in DOMAIN ddir[t][CN] : Row(dir'[CN], k, Absent) = Row(dir[CN], k, Absent)
    BY <1>0 DEF SessionOK, DirtyLocked
  <2>2. WriteChanges(t)
    BY DEF SessionOK
  <2> QED BY <2>1, <2>2 DEF SameSession, WriteChanges
<1>5. ScriptsSound(t)'
  BY DEF SessionOK, SameSession, ScriptsSound
<1>6. PartsSound(t)'
  <2> SUFFICES ASSUME NEW w \in Workers, NEW k \in DOMAIN ddir[t][w]
      PROVE  /\ pc[t] \in {"calls", "create", "decided"}
             /\ k \in DOMAIN ddir[t][CN] /\ ddir[t][w][k] = ddir[t][CN][k]
             /\ Row(dir'[w], k, Absent) = Absent <=> ddir[t][w][k] # Absent
             /\ Row(dir'[CN], k, Absent) = IF pc[t] = "decided" THEN ddir[t][w][k] ELSE Row(dir'[w], k, Absent)
    BY DEF SameSession, PartsSound
  <2>1. PartsSound(t) /\ DirtyLocked(t)
    BY DEF SessionOK
  <2>2. <<CN, k, t>> \in exclusive
    BY <2>1 DEF PartsSound, DirtyLocked
  <2>3. Row(dir'[CN], k, Absent) = Row(dir[CN], k, Absent) /\ Row(dir'[w], k, Absent) = Row(dir[w], k, Absent)
    BY <1>0, <2>2
  <2> QED BY <2>1, <2>3 DEF PartsSound
<1> QED BY <1>1, <1>2, <1>3, <1>4, <1>5, <1>6 DEF SessionOK

\* Locks are taken one at a time, or released.
LockStep(s) ==
    \/ exclusive' \subseteq exclusive
    \/ \E sv \in Servers : \E k : CanExclude(s, sv, k) /\ exclusive' = exclusive \cup {<<sv, k, s>>}

\* A lock is granted when no other session has it, so the CN's locks stay apart.
LEMMA LocksStayApart ==
    ASSUME LocksApart, NEW s \in Sessions, LockStep(s)
    PROVE  LocksApart'
<1>1. CASE exclusive' \subseteq exclusive
  BY <1>1 DEF LocksApart
<1>2. CASE ~(exclusive' \subseteq exclusive)
  <2>1. PICK sv \in Servers : \E k : CanExclude(s, sv, k) /\ exclusive' = exclusive \cup {<<sv, k, s>>}
    BY <1>2 DEF LockStep
  <2>2. PICK k : CanExclude(s, sv, k) /\ exclusive' = exclusive \cup {<<sv, k, s>>}
    BY <2>1
  <2> SUFFICES ASSUME NEW l \in exclusive', NEW t \in Sessions, NEW u \in Sessions,
                      l = <<CN, l[2], t>>, <<CN, l[2], u>> \in exclusive'
      PROVE  t = u
    BY DEF LocksApart
  <2>3. CASE l \in exclusive /\ <<CN, l[2], u>> \in exclusive
    BY <2>3 DEF LocksApart
  <2>4. CASE l = <<sv, k, s>>
    BY <2>2, <2>4 DEF CanExclude
  <2>5. CASE <<CN, l[2], u>> = <<sv, k, s>>
    <3>1. CN = sv /\ l[2] = k /\ u = s
      BY <2>5
    <3> QED BY <2>2, <3>1 DEF CanExclude
  <2> QED BY <2>2, <2>3, <2>4, <2>5
<1> QED BY <1>1, <1>2

\* A step of one session that changes no table.
LEMMA LocalStep ==
    ASSUME ReplicaInv, NEW s \in Sessions, ShapeOK', SessionOK(s)',
           \A t \in Sessions \ {s} : SameSession(t), LockStep(s),
           \A t \in Sessions \ {s} : \A k : <<CN, k, t>> \in exclusive => <<CN, k, t>> \in exclusive',
           dir' = dir, indoubt' = indoubt,
           \A w \in Workers : \A k \in DOMAIN ddir'[s][w] :
               k \in DOMAIN ddir[s][w] \/ Row(dir[w], k, Absent) = Row(dir[CN], k, Absent),
           \A w \in Workers : pc[s] = "decided" =>
               DOMAIN ddir[s][w] = {} \/ (pc'[s] = "decided" /\ DOMAIN ddir[s][w] \subseteq DOMAIN ddir'[s][w])
    PROVE  ReplicaInv'
<1>1. LocksApart'
  BY LocksStayApart DEF ReplicaInv
<1>2. ASSUME NEW t \in Sessions PROVE SessionOK(t)'
  <2>1. CASE t = s
    BY <2>1
  <2>2. CASE t # s
    BY <2>2, SessionKept DEF ReplicaInv
  <2> QED BY <2>1, <2>2
<1>3. DoubtSound'
  <2> SUFFICES ASSUME NEW d \in indoubt, NEW k \in DOMAIN d.dirs, NEW t \in Sessions,
                      k \in DOMAIN ddir'[t][d.w]
      PROVE  FALSE
    BY DEF ReplicaInv, DoubtSound
  <2>1. d.w \in Workers
    BY DEF ReplicaInv, ShapeOK
  <2> QED BY <2>1 DEF ReplicaInv, DoubtSound, SameSession
<1>4. Converging'
  <2> SUFFICES ASSUME NEW w \in Workers, NEW k \in DOMAIN dir[w] \cup DOMAIN dir[CN],
                      Row(dir[w], k, Absent) # Row(dir[CN], k, Absent),
                      ~ \E d \in indoubt : d.w = w /\ k \in DOMAIN d.dirs
      PROVE  \E t \in Sessions : pc'[t] = "decided" /\ k \in DOMAIN ddir'[t][w]
    BY DEF Converging
  <2>1. PICK t \in Sessions : pc[t] = "decided" /\ k \in DOMAIN ddir[t][w]
    BY DEF ReplicaInv, Converging
  <2> QED BY <2>1 DEF SameSession
<1> QED BY <1>1, <1>2, <1>3, <1>4 DEF ReplicaInv

\* Where things are.
LEMMA Places ==
    /\ CN \in Servers /\ Workers \subseteq Servers /\ CN \notin Workers
    /\ DOMAIN NoFun = {} /\ MaxId \in Nat /\ Absent = MaxId + 1
BY NamespaceAssumptions DEF Servers, NoFun, Absent

\* Releasing concerns the session's own locks.
LEMMA Releases ==
    ASSUME NEW s \in Sessions, NEW svs, ReleaseOn(s, svs)
    PROVE  /\ LockStep(s)
           /\ \A t \in Sessions \ {s} : \A k : <<CN, k, t>> \in exclusive => <<CN, k, t>> \in exclusive'
           /\ CN \notin svs => \A k : <<CN, k, s>> \in exclusive => <<CN, k, s>> \in exclusive'
<1>1. \A k, t : <<CN, k, t>>[3] = t /\ <<CN, k, t>>[1] = CN
  OBVIOUS
<1> QED BY <1>1 DEF ReleaseOn, LockStep

\* A transaction ends, without effect or with its effect on all workers.
LEMMA EndStep ==
    ASSUME ReplicaInv, NEW s \in Sessions, NEW svs, ReleaseOn(s, svs),
           pc[s] # "decided" \/ \A w \in Workers : DOMAIN ddir[s][w] = {},
           pc' = [pc EXCEPT ![s] = "done"],
           ddir' = [ddir EXCEPT ![s] = [sv \in Servers |-> NoFun]],
           script' = script \/ script' = [script EXCEPT ![s] = [w \in Workers |-> <<>>]],
           UNCHANGED <<dir, nextId, job, known, turn, found, indoubt>>
    PROVE  ReplicaInv'
<1>1. ShapeOK
  BY DEF ReplicaInv
<1>2. /\ pc'[s] = "done" /\ \A sv \in Servers : DOMAIN ddir'[s][sv] = {}
      /\ \A t \in Sessions \ {s} : SameSession(t)
  BY <1>1, Places DEF ShapeOK, SameSession
<1>3. ShapeOK'
  <2>1. DOMAIN ddir' = Sessions /\ \A t \in Sessions : DOMAIN ddir'[t] = Servers
    BY <1>1 DEF ShapeOK
  <2>2. DOMAIN script' = Sessions /\ \A t \in Sessions : DOMAIN script'[t] = Workers
          /\ \A w \in Workers : IsSeq(script'[t][w])
    BY <1>1, SeqEmpty DEF ShapeOK
  <2> QED BY <1>1, <2>1, <2>2 DEF ShapeOK
<1>4. SessionOK(s)'
  BY <1>2, Places DEF SessionOK, RequestOK, DirtyLocked, FoundWritten, WriteChanges, ScriptsSound,
     PartsSound, InProgress, Undecided
<1>5. \A w \in Workers : DOMAIN ddir'[s][w] = {}
  BY <1>2, Places
<1> QED BY <1>2, <1>3, <1>4, <1>5, Releases, LocalStep

\* An error before the decision: the locks and the writes go together.
LEMMA AbortStep ==
    ASSUME ReplicaInv, NEW s \in Sessions, NEW code, Abort(s, code), pc[s] # "decided"
    PROVE  ReplicaInv'
BY EndStep DEF Abort, tables, parse, faults

\* A statement that fails on a worker ends the transaction in the same way.
LEMMA FailsStep ==
    ASSUME ReplicaInv, NEW s \in Sessions, StatementFails(s)
    PROVE  ReplicaInv'
BY EndStep DEF StatementFails, tables, parse

\* The end of a transaction whose parts are all committed or in doubt.
LEMMA FinishStep ==
    ASSUME ReplicaInv, NEW s \in Sessions, Finish(s)
    PROVE  ReplicaInv'
BY EndStep DEF Finish, NoPart, tables, parse, faults

\* A step of the parsing that neither finds nor writes a directory.
LEMMA QuietStep ==
    ASSUME ReplicaInv, NEW s \in Sessions, pc[s] = "parse", exclusive' = exclusive,
           UNCHANGED <<dir, indoubt, pc, job, known, ddir, script>>, nextId' \in Nat,
           \/ turn' = turn /\ found' = found
           \/ /\ job[s].op \notin {"rmdir", "rename"} /\ turn' = [turn EXCEPT ![s] = @ + 1]
              /\ found' = found
           \/ /\ turn' = [turn EXCEPT ![s] = @ + 1] /\ ~TargetIsDirectory(s)
              /\ turn[s] <= Len(job[s].paths)
              /\ \E e : found' = [found EXCEPT ![s] = Append(@, e)]
    PROVE  ReplicaInv'
<1>1. ShapeOK /\ SessionOK(s)
  BY DEF ReplicaInv
<1>2. /\ turn' \in [Sessions -> Nat] /\ DOMAIN found' = Sessions
      /\ \A t \in Sessions \ {s} : turn'[t] = turn[t] /\ found'[t] = found[t]
  BY <1>1 DEF ShapeOK
<1>3. IsSeq(found'[s]) /\ \/ found'[s] = found[s]
                          \/ ~TargetIsDirectory(s) /\ Len(found'[s]) = Len(found[s]) + 1
  <2>1. CASE found' = found
    BY <1>1, <2>1 DEF ShapeOK
  <2>2. CASE ~TargetIsDirectory(s) /\ \E e : found' = [found EXCEPT ![s] = Append(@, e)]
    <3>1. PICK e : found' = [found EXCEPT ![s] = Append(@, e)]
      BY <2>2
    <3>2. found'[s] = Append(found[s], e) /\ IsSeq(found[s])
      BY <1>1, <3>1 DEF ShapeOK
    <3> QED BY <2>2, <3>2, SeqAppend
  <2> QED BY <2>1, <2>2
<1>4. ShapeOK'
  BY <1>1, <1>2, <1>3 DEF ShapeOK
<1>5. RequestOK(s)'
  <2>1. /\ job[s].op \in Ops /\ Len(job[s].paths) \in Nat /\ turn[s] \in Nat /\ Len(found[s]) \in Nat
    BY <1>1 DEF SessionOK, RequestOK, InProgress, Undecided, ShapeOK, IsSeq
  <2>2. ASSUME job[s].op \in {"rmdir", "rename"}
        PROVE  turn'[s] \in 1 .. Len(job[s].paths) + 1 /\ Len(found'[s]) = turn'[s] - 1
    <3>1. turn[s] \in 1 .. Len(job[s].paths) + 1 /\ Len(found[s]) = turn[s] - 1
      BY <1>1, <2>2 DEF SessionOK, RequestOK, InProgress, Undecided
    <3>2. CASE turn' = turn /\ found' = found
      BY <3>1, <3>2
    <3>3. CASE /\ turn' = [turn EXCEPT ![s] = @ + 1] /\ turn[s] <= Len(job[s].paths)
               /\ \E e : found' = [found EXCEPT ![s] = Append(@, e)]
      <4>1. turn'[s] = turn[s] + 1 /\ Len(found'[s]) = Len(found[s]) + 1
        BY <1>1, <3>3, SeqAppend DEF ShapeOK
      <4> QED BY <2>1, <3>1, <3>3, <4>1
    <3> QED BY <2>2, <3>2, <3>3
  <2> QED BY <1>1, <2>1, <2>2 DEF SessionOK, RequestOK
<1>6. FoundWritten(s)'
  <2>1. CASE found'[s] = found[s]
    BY <1>1, <2>1 DEF SessionOK, FoundWritten, RenamesDir
  <2>2. CASE ~TargetIsDirectory(s)
    <3>1. job[s].op \notin {"mkdir", "rmdir"} /\ ~RenamesDir(s) /\ ~RenamesDir(s)'
      BY <2>2 DEF TargetIsDirectory, RenamesDir
    <3> QED BY <1>1, <3>1 DEF SessionOK, FoundWritten
  <2> QED BY <1>3, <2>1, <2>2
<1>7. SessionOK(s)'
  BY <1>1, <1>5, <1>6 DEF SessionOK, DirtyLocked, WriteChanges, ScriptsSound, PartsSound
<1>8. LockStep(s) /\ \A t \in Sessions \ {s} : SameSession(t)
  BY <1>2 DEF LockStep, SameSession
<1> QED BY <1>4, <1>7, <1>8, LocalStep

\* Nothing is written on a worker before the calls, and nothing at all outside a
\* transaction.
LEMMA NothingYet ==
    ASSUME ReplicaInv, NEW s \in Sessions
    PROVE  /\ pc[s] \in {"start", "parse", "done"} => \A w \in Workers : DOMAIN ddir[s][w] = {}
           /\ pc[s] \in {"start", "done"} => DOMAIN ddir[s][CN] = {}
<1>1. PartsSound(s) /\ DirtyLocked(s)
  BY DEF ReplicaInv, SessionOK
<1>2. pc[s] \in {"start", "parse", "done"} => \A w \in Workers : DOMAIN ddir[s][w] = {}
  BY <1>1 DEF PartsSound
<1>3. pc[s] \in {"start", "done"} => DOMAIN ddir[s][CN] = {}
  BY <1>1 DEF DirtyLocked, InProgress, Undecided
<1> QED BY <1>2, <1>3

\* The handler is called.
LEMMA BeginStep ==
    ASSUME ReplicaInv, NEW s \in Sessions, Begin(s)
    PROVE  ReplicaInv'
<1>1. ShapeOK /\ SessionOK(s) /\ pc[s] = "start" /\ turn[s] = 1 /\ found[s] = <<>>
  BY DEF ReplicaInv, SessionOK, RequestOK, Begin
<1>2. PICK r \in Requests[s] :
        LET ps == InOrder(r.paths) IN
        /\ job' = [job EXCEPT ![s] = [op |-> r.op, paths |-> ps,
                     src |-> CHOOSE i \in 1..Len(ps) : ps[i] = r.paths[1]]]
        /\ DOMAIN known' = DOMAIN known /\ \A t \in Sessions \ {s} : known'[t] = known[t]
        /\ IF r.op \in {"mkdir", "rmdir", "rename"} /\ Site[s] # CN
           THEN pc' = [pc EXCEPT ![s] = "done"]
           ELSE pc' = [pc EXCEPT ![s] = "parse"]
  BY <1>1 DEF Begin, ShapeOK
<1>3. /\ r.op \in Ops /\ r.paths \in UNION {[1..n -> Paths] : n \in 1..2}
      /\ r.op = "rename" => Len(r.paths) = 2
      /\ r.op = "rmdir" => Len(r.paths) = 1
  BY NamespaceAssumptions DEF Request
<1> DEFINE ps == InOrder(r.paths)
           src == CHOOSE i \in 1..Len(ps) : ps[i] = r.paths[1]
<1>4. Len(ps) = Len(r.paths) /\ Len(ps) \in 1..2 /\ \E i \in 1..Len(ps) : ps[i] = r.paths[1]
  <2>1. PICK n \in 1..2 : r.paths \in [1..n -> Paths]
    BY <1>3
  <2>2. Len(r.paths) = n
    BY <2>1
  <2>3. CASE InOrder(r.paths) = r.paths
    <3>1. Len(ps) = n /\ 1 \in 1..Len(ps) /\ ps[1] = r.paths[1]
      BY <2>2, <2>3
    <3> QED BY <2>2, <3>1
  <2>4. CASE n = 2 /\ InOrder(r.paths) = <<r.paths[2], r.paths[1]>>
    <3>1. Len(ps) = 2 /\ ps[2] = r.paths[1]
      BY <2>4
    <3> QED BY <2>2, <2>4, <3>1
  <2> QED BY <2>1, <2>2, <2>3, <2>4 DEF InOrder
<1>5. src \in 1..Len(ps)
  BY <1>4
<1>6. job'[s].op = r.op /\ job'[s].paths = ps /\ job'[s].src = src /\ DOMAIN job' = Sessions
      /\ \A t \in Sessions \ {s} : job'[t] = job[t] /\ pc'[t] = pc[t]
  BY <1>1, <1>2 DEF ShapeOK
<1>7. pc'[s] = "done" \/ (pc'[s] = "parse" /\ (r.op \in {"mkdir", "rmdir", "rename"} => Site[s] = CN))
  BY <1>1, <1>2 DEF ShapeOK
<1> HIDE DEF ps, src
<1>u. UNCHANGED <<dir, nextId, indoubt, exclusive, turn, found, ddir, script>>
  BY DEF Begin, tables, locks, parse, txn, faults
<1>8. ShapeOK'
  <2>1. pc' \in [Sessions -> {"start", "parse", "calls", "create", "decided", "done"}]
    BY <1>1, <1>2 DEF ShapeOK
  <2> QED BY <1>1, <1>2, <1>6, <1>u, <2>1 DEF ShapeOK
<1>9. \A sv \in Servers : DOMAIN ddir'[s][sv] = {}
  BY <1>1, <1>u, NothingYet DEF Servers
<1>10. RequestOK(s)'
  <2>1. Len(found'[s]) = 0 /\ turn'[s] = 1
    BY <1>1, <1>u
  <2>2. Len(ps) \in Nat /\ (r.op = "rename" => Len(ps) = 2) /\ (r.op = "rmdir" => Len(ps) = 1)
    BY <1>3, <1>4
  <2>3. r.op = "rename" => src \in 1..2
    BY <1>5, <2>2
  <2>4. pc'[s] = "parse" => turn'[s] \in 1 .. Len(ps) + 1 /\ Len(found'[s]) = turn'[s] - 1
    BY <2>1, <2>2
  <2> QED BY <1>3, <1>6, <1>7, <2>2, <2>3, <2>4 DEF RequestOK, InProgress, Undecided
<1>11. FoundWritten(s)'
  <2>1. DOMAIN found'[s] = {}
    BY <1>1, <1>u, SeqEmpty
  <2> QED BY <1>9, <2>1, Places DEF FoundWritten
<1>12. SessionOK(s)'
  BY <1>7, <1>9, <1>10, <1>11, Places DEF SessionOK, DirtyLocked, WriteChanges, ScriptsSound, PartsSound
<1>13. LockStep(s) /\ \A t \in Sessions \ {s} : SameSession(t)
  BY <1>2, <1>6, <1>u DEF LockStep, SameSession
<1> QED BY <1>1, <1>8, <1>9, <1>12, <1>13, <1>u, Places, LocalStep

\* A component on the way, and a path that cannot be parsed.
LEMMA ComponentStep ==
    ASSUME ReplicaInv, NEW s \in Sessions, ParseComponent(s)
    PROVE  ReplicaInv'
<1>1. pc[s] = "parse" /\ nextId \in Nat
  BY DEF ParseComponent, ReplicaInv, ShapeOK
<1>2. ASSUME NEW code, Abort(s, code) PROVE ReplicaInv'
  BY <1>1, <1>2, AbortStep
<1>3. ASSUME NEW code, PathFails(s, code) PROVE ReplicaInv'
  <2>1. CASE job[s].op \in {"rmdir", "rename"}
    BY <1>2, <1>3, <2>1 DEF PathFails
  <2>2. CASE job[s].op \notin {"rmdir", "rename"}
    BY <1>1, <1>3, <2>2, QuietStep DEF PathFails, NextPath, tables, locks, txn, faults
  <2> QED BY <2>1, <2>2
<1>4. ASSUME NEW id, Descend(s, id), exclusive' = exclusive PROVE ReplicaInv'
  BY <1>1, <1>4, QuietStep DEF Descend, tables, txn, faults
<1>5. ASSUME NEW k, LockShared(s, Site[s], k), NextPath(s), job[s].op \notin {"rmdir", "rename"},
             UNCHANGED <<tables, pc, job, known, tree, found, txn, faults>>
      PROVE  ReplicaInv'
  BY <1>1, <1>5, QuietStep DEF LockShared, NextPath, tables, txn, faults
<1> QED BY <1>2, <1>3, <1>4, <1>5 DEF ParseComponent, LockShared, locks

\* A file, which the directory tables do not have.
LEMMA FileStep ==
    ASSUME ReplicaInv, NEW s \in Sessions, ParseFile(s)
    PROVE  ReplicaInv'
<1>1. pc[s] = "parse" /\ nextId \in Nat /\ turn[s] <= Len(job[s].paths) /\ ~TargetIsDirectory(s)
  BY DEF ParseFile, AtTarget, ReplicaInv, ShapeOK
<1>2. CASE job[s].op \in {"create", "unlink"} /\ Home[Last(Path(s))] # Site[s]
  BY <1>1, <1>2, QuietStep DEF ParseFile, PathFails, NextPath, tables, locks, txn, faults
<1>3. CASE ~(job[s].op \in {"create", "unlink"} /\ Home[Last(Path(s))] # Site[s])
  <2>1. nextId' \in Nat
    BY <1>1, <1>3 DEF ParseFile
  <2>2. \E e : found' = [found EXCEPT ![s] = Append(@, e)]
    BY <1>3 DEF ParseFile, Accept
  <2> QED BY <1>1, <1>3, <2>1, <2>2, QuietStep DEF ParseFile, NextPath, locks, txn, faults
<1> QED BY <1>2, <1>3

\* A session's own row, or the table's.
LEMMA Sees ==
    ASSUME NEW s \in Sessions, NEW sv \in Servers, NEW k
    PROVE  SeesDir(s, sv, k) = IF k \in DOMAIN ddir[s][sv] THEN ddir[s][sv][k] ELSE Row(dir[sv], k, Absent)
BY DEF SeesDir, Row

\* A directory is found and locked on the CN, and is written there at once by mkdir
\* (a new id) and rmdir (Absent).
LEMMA TargetStep ==
    ASSUME ReplicaInv, NEW s \in Sessions, NEW k, NEW e, NEW v,
           pc[s] = "parse", turn[s] <= Len(job[s].paths), TargetIsDirectory(s),
           LockExclusive(s, CN, k), turn' = [turn EXCEPT ![s] = @ + 1],
           found' = [found EXCEPT ![s] = Append(@, e)], e.key = k,
           UNCHANGED <<dir, indoubt, pc, job, known, script>>, nextId' \in Nat,
           \/ /\ job[s].op = "mkdir" /\ v = e.id /\ v # Absent
              /\ SeesDir(s, CN, k) = Absent
           \/ job[s].op = "rmdir" /\ v = Absent /\ SeesDir(s, CN, k) # Absent
           \/ /\ job[s].op = "rename"
              /\ IF turn[s] = job[s].src THEN SeesDir(s, CN, k) # Absent
                 ELSE SeesDir(s, CN, k) = Absent /\ e.id # Absent,
           ddir' = IF job[s].op = "rename" THEN ddir
                   ELSE [ddir EXCEPT ![s][CN] = Put(@, k, v)]
    PROVE  ReplicaInv'
<1>1. /\ ShapeOK /\ SessionOK(s) /\ IsSeq(found[s]) /\ turn[s] \in Nat /\ Len(job[s].paths) \in Nat
      /\ job[s].op \in Ops
  BY DEF ReplicaInv, ShapeOK, SessionOK, RequestOK, InProgress, Undecided
<1> DEFINE n == Len(found[s]) + 1
<1>2. /\ IsSeq(found'[s]) /\ Len(found'[s]) = n /\ n \in Nat
      /\ DOMAIN found'[s] = DOMAIN found[s] \cup {n} /\ found'[s][n] = e
      /\ \A i \in DOMAIN found[s] : found'[s][i] = found[s][i]
      /\ DOMAIN found[s] = 1..Len(found[s])
  <2>1. found'[s] = Append(found[s], e)
    BY <1>1 DEF ShapeOK
  <2> QED BY <1>1, <2>1, SeqAppend DEF IsSeq
<1>3. /\ turn'[s] = turn[s] + 1 /\ turn' \in [Sessions -> Nat] /\ DOMAIN found' = Sessions
      /\ \A t \in Sessions \ {s} : turn'[t] = turn[t] /\ found'[t] = found[t] /\ ddir'[t] = ddir[t]
      /\ DOMAIN ddir' = Sessions /\ \A t \in Sessions : DOMAIN ddir'[t] = Servers
      /\ \A w \in Workers : ddir'[s][w] = ddir[s][w]
  BY <1>1, Places DEF ShapeOK
<1>4. /\ job[s].op = "rename" => ddir'[s][CN] = ddir[s][CN]
      /\ job[s].op # "rename" =>
           /\ DOMAIN ddir'[s][CN] = DOMAIN ddir[s][CN] \cup {k} /\ ddir'[s][CN][k] = v
           /\ \A x \in DOMAIN ddir[s][CN] : x # k => ddir'[s][CN][x] = ddir[s][CN][x]
  <2>1. job[s].op # "rename" => ddir'[s][CN] = Put(ddir[s][CN], k, v)
    BY <1>1, Places DEF ShapeOK
  <2>2. /\ DOMAIN Put(ddir[s][CN], k, v) = DOMAIN ddir[s][CN] \cup {k} /\ Put(ddir[s][CN], k, v)[k] = v
        /\ \A x \in DOMAIN ddir[s][CN] : x # k => Put(ddir[s][CN], k, v)[x] = ddir[s][CN][x]
    BY DEF Put
  <2> QED BY <2>1, <2>2
<1>5. ShapeOK'
  <2>1. \A t \in Sessions : IsSeq(found'[t])
    BY <1>1, <1>2, <1>3 DEF ShapeOK
  <2> QED BY <1>1, <1>3, <2>1 DEF ShapeOK
<1>6. RequestOK(s)'
  <2>1. job[s].op \in {"rmdir", "rename"} => turn[s] \in 1 .. Len(job[s].paths) + 1 /\ Len(found[s]) = turn[s] - 1
    BY <1>1 DEF SessionOK, RequestOK, InProgress, Undecided
  <2>2. job[s].op \in {"rmdir", "rename"} => turn'[s] \in 1 .. Len(job[s].paths) + 1 /\ Len(found'[s]) = turn'[s] - 1
    BY <1>1, <1>2, <1>3, <2>1
  <2> QED BY <1>1, <2>2 DEF SessionOK, RequestOK
\* The key is new, and its row is the table's.
<1>7. k \notin DOMAIN ddir[s][CN]
  <2>1. FoundWritten(s)
    BY <1>1 DEF SessionOK
  <2> SUFFICES ASSUME k \in DOMAIN ddir[s][CN] PROVE FALSE
    OBVIOUS
  <2>2. PICK i \in DOMAIN found[s] : found[s][i].key = k
    BY <2>1 DEF FoundWritten
  <2>3. job[s].op \in {"mkdir", "rmdir"}
    BY <2>1 DEF FoundWritten
  <2>4. SeesDir(s, CN, k) = ddir[s][CN][k]
    BY Sees, Places
  <2>5. CASE job[s].op = "mkdir"
    <3>1. ddir[s][CN][found[s][i].key] # Absent
      BY <2>1, <2>2, <2>5 DEF FoundWritten
    <3>2. SeesDir(s, CN, k) = Absent
      BY <2>5
    <3> QED BY <2>2, <2>4, <3>1, <3>2
  <2>6. CASE job[s].op = "rmdir"
    <3>1. ddir[s][CN][found[s][i].key] = Absent
      BY <2>1, <2>2, <2>6 DEF FoundWritten
    <3>2. SeesDir(s, CN, k) # Absent
      BY <2>6
    <3> QED BY <2>2, <2>4, <3>1, <3>2
  <2> QED BY <2>3, <2>5, <2>6
<1>8. SeesDir(s, CN, k) = Row(dir[CN], k, Absent)
  BY <1>7, Sees, Places
<1>9. <<CN, k, s>> \in exclusive' /\ exclusive \subseteq exclusive'
  BY DEF LockExclusive
<1>10. DirtyLocked(s)'
  <2>1. DirtyLocked(s)
    BY <1>1 DEF SessionOK
  <2> QED BY <1>4, <1>9, <2>1 DEF DirtyLocked, InProgress, Undecided
<1>11. WriteChanges(s)'
  <2>1. WriteChanges(s)
    BY <1>1 DEF SessionOK
  <2>2. ASSUME NEW x \in DOMAIN ddir'[s][CN]
        PROVE  (Row(dir[CN], x, Absent) = Absent) <=> (ddir'[s][CN][x] # Absent)
    <3>1. CASE x \in DOMAIN ddir[s][CN]
      <4>1. ddir'[s][CN][x] = ddir[s][CN][x]
        BY <1>4, <1>7, <3>1
      <4> QED BY <2>1, <3>1, <4>1 DEF WriteChanges, Undecided
    <3>2. CASE x \notin DOMAIN ddir[s][CN]
      <4>1. job[s].op # "rename" /\ x = k /\ ddir'[s][CN][x] = v
        BY <1>4, <2>2, <3>2
      <4> QED BY <1>8, <4>1
    <3> QED BY <3>1, <3>2
  <2> QED BY <2>2 DEF WriteChanges
<1>12. FoundWritten(s)'
  <2>1. FoundWritten(s)
    BY <1>1 DEF SessionOK
  <2>2. RenamesDir(s)' <=> RenamesDir(s)
    BY DEF RenamesDir
  <2>3. ASSUME NEW x \in DOMAIN ddir'[s][CN]
        PROVE  job[s].op \in {"mkdir", "rmdir"} /\ \E i \in DOMAIN found'[s] : found'[s][i].key = x
    <3>1. CASE x \in DOMAIN ddir[s][CN]
      <4>1. PICK i \in DOMAIN found[s] : found[s][i].key = x
        BY <2>1, <3>1 DEF FoundWritten
      <4>2. i \in DOMAIN found'[s] /\ found'[s][i].key = x
        BY <1>2, <4>1
      <4> QED BY <2>1, <3>1, <4>2 DEF FoundWritten
    <3>2. CASE x \notin DOMAIN ddir[s][CN]
      BY <1>2, <1>4, <2>3, <3>2
    <3> QED BY <3>1, <3>2
  <2>4. ASSUME NEW i \in DOMAIN found[s] PROVE
             LET f == found'[s][i] IN
             /\ job[s].op = "mkdir" =>
                  f.key \in DOMAIN ddir'[s][CN] /\ f.id # Absent /\ ddir'[s][CN][f.key] = f.id
             /\ job[s].op = "rmdir" =>
                  f.key \in DOMAIN ddir'[s][CN] /\ ddir'[s][CN][f.key] = Absent
             /\ RenamesDir(s) =>
                  /\ <<CN, f.key, s>> \in exclusive'
                  /\ IF i = job[s].src THEN Row(dir[CN], f.key, Absent) # Absent
                     ELSE Row(dir[CN], f.key, Absent) = Absent /\ f.id # Absent
    <3>1. found'[s][i] = found[s][i]
      BY <1>2, <2>4
    <3>2. CASE job[s].op \in {"mkdir", "rmdir"}
      <4>1. ~RenamesDir(s)
        BY <3>2 DEF RenamesDir
      <4>2. found[s][i].key \in DOMAIN ddir[s][CN]
        BY <2>1, <2>4, <3>2 DEF FoundWritten
      <4>3. /\ found[s][i].key \in DOMAIN ddir'[s][CN]
            /\ ddir'[s][CN][found[s][i].key] = ddir[s][CN][found[s][i].key]
        BY <1>4, <1>7, <3>2, <4>2
      <4> QED BY <2>1, <2>4, <3>1, <3>2, <4>1, <4>3 DEF FoundWritten
    <3>3. CASE job[s].op \notin {"mkdir", "rmdir"}
      <4>1. RenamesDir(s) =>
                  /\ <<CN, found[s][i].key, s>> \in exclusive
                  /\ IF i = job[s].src THEN Row(dir[CN], found[s][i].key, Absent) # Absent
                     ELSE Row(dir[CN], found[s][i].key, Absent) = Absent /\ found[s][i].id # Absent
        BY <2>1, <2>4 DEF FoundWritten
      <4> QED BY <1>9, <3>1, <3>3, <4>1
    <3> QED BY <3>2, <3>3
  <2>5. LET f == found'[s][n] IN
             /\ job[s].op = "mkdir" =>
                  f.key \in DOMAIN ddir'[s][CN] /\ f.id # Absent /\ ddir'[s][CN][f.key] = f.id
             /\ job[s].op = "rmdir" =>
                  f.key \in DOMAIN ddir'[s][CN] /\ ddir'[s][CN][f.key] = Absent
             /\ RenamesDir(s) =>
                  /\ <<CN, f.key, s>> \in exclusive'
                  /\ IF n = job[s].src THEN Row(dir[CN], f.key, Absent) # Absent
                     ELSE Row(dir[CN], f.key, Absent) = Absent /\ f.id # Absent
    <3>1. RenamesDir(s) => n = turn[s]
      BY <1>1 DEF SessionOK, RequestOK, InProgress, Undecided, RenamesDir
    <3> QED BY <1>2, <1>4, <1>8, <1>9, <3>1 DEF RenamesDir
  <2> QED BY <1>2, <2>2, <2>3, <2>4, <2>5 DEF FoundWritten
<1>13. ScriptsSound(s)' /\ PartsSound(s)'
  <2>1. \A w \in Workers : DOMAIN ddir'[s][w] = {}
    BY <1>3, NothingYet
  <2> QED BY <2>1 DEF ScriptsSound, PartsSound
<1>14. SessionOK(s)'
  BY <1>6, <1>10, <1>11, <1>12, <1>13 DEF SessionOK
<1>15. LockStep(s) /\ \A t \in Sessions \ {s} : SameSession(t)
  BY <1>3, Places DEF LockExclusive, LockStep, SameSession
<1> QED BY <1>3, <1>5, <1>9, <1>14, <1>15, LocalStep

\* A directory that exists, for mkdir: it is locked, and the path has an error.
LEMMA ExistsStep ==
    ASSUME ReplicaInv, NEW s \in Sessions, NEW k, pc[s] = "parse", job[s].op = "mkdir",
           LockExclusive(s, CN, k), turn' = [turn EXCEPT ![s] = @ + 1],
           UNCHANGED <<dir, nextId, indoubt, pc, job, known, found, ddir, script>>
    PROVE  ReplicaInv'
<1>1. ShapeOK /\ SessionOK(s)
  BY DEF ReplicaInv
<1>2. turn' \in [Sessions -> Nat] /\ \A t \in Sessions \ {s} : turn'[t] = turn[t]
  BY <1>1 DEF ShapeOK
<1>3. ShapeOK'
  BY <1>1, <1>2 DEF ShapeOK
<1>4. exclusive \subseteq exclusive'
  BY DEF LockExclusive
<1>5. RequestOK(s)'
  BY <1>1 DEF SessionOK, RequestOK
<1>6. FoundWritten(s)'
  <2>1. FoundWritten(s) /\ ~RenamesDir(s) /\ ~RenamesDir(s)'
    BY <1>1 DEF SessionOK, RenamesDir
  <2> QED BY <2>1 DEF FoundWritten
<1>7. SessionOK(s)'
  BY <1>1, <1>4, <1>5, <1>6 DEF SessionOK, DirtyLocked, WriteChanges, ScriptsSound, PartsSound
<1>8. LockStep(s) /\ \A t \in Sessions \ {s} : SameSession(t)
  BY <1>2, Places DEF LockExclusive, LockStep, SameSession
<1> QED BY <1>3, <1>4, <1>7, <1>8, LocalStep

\* mkdir, rmdir and rename run on the CN.
LEMMA DirectoriesOnCN ==
    ASSUME ReplicaInv, NEW s \in Sessions, pc[s] = "parse", TargetIsDirectory(s)
    PROVE  Site[s] = CN /\ job[s].op \in {"mkdir", "rmdir", "rename"}
BY DEF ReplicaInv, SessionOK, RequestOK, InProgress, Undecided, TargetIsDirectory, RenamesDir

\* The error of a path, which is its result or aborts the operation.
LEMMA PathFailsStep ==
    ASSUME ReplicaInv, NEW s \in Sessions, NEW code, pc[s] = "parse", PathFails(s, code)
    PROVE  ReplicaInv'
<1>1. nextId \in Nat
  BY DEF ReplicaInv, ShapeOK
<1>2. CASE job[s].op \in {"rmdir", "rename"}
  BY <1>2, AbortStep DEF PathFails
<1>3. CASE job[s].op \notin {"rmdir", "rename"}
  BY <1>1, <1>3, QuietStep DEF PathFails, NextPath, tables, locks, txn, faults
<1> QED BY <1>2, <1>3

\* ParseNewDirectory: an error, a directory that exists, or one that mkdir writes
\* and rename remembers.
LEMMA NewDirectoryStep ==
    ASSUME ReplicaInv, NEW s \in Sessions, ParseNewDirectory(s)
    PROVE  ReplicaInv'
<1>1. /\ pc[s] = "parse" /\ turn[s] <= Len(job[s].paths) /\ TargetIsDirectory(s) /\ Creates(s)
      /\ nextId \in Nat /\ Len(job[s].paths) \in Nat
  BY DEF ParseNewDirectory, AtTarget, ReplicaInv, ShapeOK, SessionOK, RequestOK, InProgress, Undecided
<1>2. Site[s] = CN /\ job[s].op \in {"mkdir", "rename"} /\ (job[s].op = "rename" => turn[s] # job[s].src /\ known[s] # Absent)
  BY <1>1, DirectoriesOnCN DEF Creates, TargetIsDirectory, RenamesDir
<1> DEFINE k == Target(s)
           old == SeesDir(s, Site[s], k)
           id == IF job[s].op = "rename" THEN known[s] ELSE IF old # Absent THEN old ELSE nextId
<1>3. CASE PathFails(s, "PATH_EXISTS")
  BY <1>1, <1>3, PathFailsStep
<1>4. CASE Abort(s, "PATH_EXISTS")
  BY <1>1, <1>4, AbortStep
<1>5. CASE /\ old # Absent /\ job[s].op = "mkdir" /\ LockExclusive(s, Site[s], k) /\ NextPath(s)
           /\ UNCHANGED <<tables, pc, job, known, found, txn, faults>>
  BY <1>1, <1>2, <1>5, ExistsStep DEF NextPath, tables, txn, faults
<1>6. CASE /\ old = Absent /\ LockExclusive(s, Site[s], k) /\ NextPath(s) /\ Accept(s, id)
           /\ IF job[s].op = "mkdir"
              THEN /\ nextId <= MaxId /\ nextId' = nextId + 1 /\ WriteDir(s, Site[s], k, id)
              ELSE UNCHANGED <<nextId, ddir>>
           /\ UNCHANGED <<dir, inode, pc, job, known, drow, script, moved, result, faults>>
  <2> DEFINE e == [key |-> k, id |-> id]
  <2>1. e.key = k /\ e.id = id /\ id # Absent /\ nextId' \in Nat
    BY <1>1, <1>2, <1>6, Places
  <2>2. found' = [found EXCEPT ![s] = Append(@, e)] /\ turn' = [turn EXCEPT ![s] = @ + 1]
    BY <1>6 DEF Accept, NextPath
  <2>3. UNCHANGED <<dir, indoubt, pc, job, known, script>> /\ LockExclusive(s, CN, k) /\ SeesDir(s, CN, k) = Absent
    BY <1>2, <1>6 DEF faults
  <2>4. ddir' = IF job[s].op = "rename" THEN ddir ELSE [ddir EXCEPT ![s][CN] = Put(@, k, id)]
    BY <1>2, <1>6 DEF WriteDir
  <2> HIDE DEF k, id, e
  <2> QED BY <1>1, <1>2, <2>1, <2>2, <2>3, <2>4, TargetStep
<1> QED BY <1>3, <1>4, <1>5, <1>6 DEF ParseNewDirectory

\* ParseOldDirectory: an error, or a directory that rmdir deletes and rename
\* remembers.
LEMMA OldDirectoryStep ==
    ASSUME ReplicaInv, NEW s \in Sessions, ParseOldDirectory(s)
    PROVE  ReplicaInv'
<1>1. /\ pc[s] = "parse" /\ turn[s] <= Len(job[s].paths) /\ TargetIsDirectory(s) /\ ~Creates(s)
      /\ nextId \in Nat
  BY DEF ParseOldDirectory, AtTarget, ReplicaInv, ShapeOK
<1>2. Site[s] = CN /\ job[s].op \in {"rmdir", "rename"} /\ (job[s].op = "rename" => turn[s] = job[s].src)
  BY <1>1, DirectoriesOnCN DEF Creates
<1> DEFINE k == Target(s)
           id == SeesDir(s, Site[s], k)
<1>3. CASE PathFails(s, "PATH_LOCK_CONFLICT")
  BY <1>1, <1>3, PathFailsStep
<1>4. CASE Abort(s, "PATH_NOT_EXISTS")
  BY <1>1, <1>4, AbortStep
<1>5. CASE /\ id # Absent /\ LockExclusive(s, Site[s], k) /\ NextPath(s) /\ Accept(s, id)
           /\ IF job[s].op = "rmdir" THEN WriteDir(s, Site[s], k, Absent) ELSE UNCHANGED ddir
           /\ UNCHANGED <<tables, pc, job, known, drow, script, moved, result, faults>>
  <2> DEFINE e == [key |-> k, id |-> id]
  <2>1. e.key = k /\ nextId' \in Nat /\ SeesDir(s, CN, k) # Absent
    BY <1>1, <1>2, <1>5 DEF tables
  <2>2. found' = [found EXCEPT ![s] = Append(@, e)] /\ turn' = [turn EXCEPT ![s] = @ + 1]
    BY <1>5 DEF Accept, NextPath
  <2>3. UNCHANGED <<dir, indoubt, pc, job, known, script>> /\ LockExclusive(s, CN, k)
    BY <1>2, <1>5 DEF faults, tables
  <2>4. ddir' = IF job[s].op = "rename" THEN ddir ELSE [ddir EXCEPT ![s][CN] = Put(@, k, Absent)]
    BY <1>2, <1>5 DEF WriteDir
  <2> HIDE DEF k, id, e
  <2> QED BY <1>1, <1>2, <2>1, <2>2, <2>3, <2>4, TargetStep
<1> QED BY <1>3, <1>4, <1>5 DEF ParseOldDirectory

-----------------------------------------------------------------------------
(* The calls of the workers.                                                *)

\* The CN has written its own rows and sends each worker its statements.
LEMMA CallsStep ==
    ASSUME ReplicaInv, NEW s \in Sessions, NEW f, pc[s] = "parse", pc' = [pc EXCEPT ![s] = "calls"],
           script' = [script EXCEPT ![s] = f], DOMAIN f = Workers, \A w \in Workers : IsSeq(f[w]),
           DirtyLocked(s)', WriteChanges(s)', ScriptsSound(s)',
           DOMAIN ddir' = Sessions, \A t \in Sessions : DOMAIN ddir'[t] = Servers,
           \A t \in Sessions \ {s} : ddir'[t] = ddir[t], \A w \in Workers : ddir'[s][w] = ddir[s][w],
           UNCHANGED <<dir, nextId, indoubt, exclusive, job, known, turn, found>>
    PROVE  ReplicaInv'
<1>1. ShapeOK /\ SessionOK(s)
  BY DEF ReplicaInv
<1>2. /\ pc'[s] = "calls" /\ script'[s] = f /\ DOMAIN script' = Sessions
      /\ pc' \in [Sessions -> {"start", "parse", "calls", "create", "decided", "done"}]
      /\ \A t \in Sessions \ {s} : SameSession(t)
  BY <1>1 DEF ShapeOK, SameSession
<1>3. ShapeOK'
  <2>1. \A t \in Sessions : DOMAIN script'[t] = Workers /\ \A w \in Workers : IsSeq(script'[t][w])
    BY <1>1, <1>2 DEF ShapeOK, SameSession
  <2> QED BY <1>1, <1>2, <2>1 DEF ShapeOK
<1>4. RequestOK(s)'
  BY <1>1, <1>2 DEF SessionOK, RequestOK, InProgress, Undecided
<1>5. \A w \in Workers : DOMAIN ddir'[s][w] = {}
  BY NothingYet
<1>6. FoundWritten(s)' /\ PartsSound(s)'
  BY <1>2, <1>5 DEF FoundWritten, PartsSound
<1>7. SessionOK(s)'
  BY <1>4, <1>6 DEF SessionOK
<1>8. LockStep(s)
  BY DEF LockStep
<1> QED BY <1>2, <1>3, <1>5, <1>7, <1>8, LocalStep

\* A transaction that has nothing to do on the workers is decided.
LEMMA NothingStep ==
    ASSUME ReplicaInv, NEW s \in Sessions, pc[s] = "parse", pc' = [pc EXCEPT ![s] = "decided"],
           UNCHANGED <<dir, nextId, indoubt, exclusive, job, known, turn, found, ddir, script>>
    PROVE  ReplicaInv'
<1>1. ShapeOK /\ SessionOK(s)
  BY DEF ReplicaInv
<1>2. /\ pc'[s] = "decided"
      /\ pc' \in [Sessions -> {"start", "parse", "calls", "create", "decided", "done"}]
      /\ \A t \in Sessions \ {s} : SameSession(t)
  BY <1>1 DEF ShapeOK, SameSession
<1>3. ShapeOK'
  BY <1>1, <1>2 DEF ShapeOK
<1>4. RequestOK(s)' /\ DirtyLocked(s)'
  BY <1>1, <1>2 DEF SessionOK, RequestOK, DirtyLocked, InProgress, Undecided
<1>5. \A w \in Workers : DOMAIN ddir'[s][w] = {}
  BY NothingYet
<1>6. SessionOK(s)'
  BY <1>2, <1>4, <1>5 DEF SessionOK, FoundWritten, WriteChanges, ScriptsSound, PartsSound, Undecided
<1>7. LockStep(s)
  BY DEF LockStep
<1> QED BY <1>2, <1>3, <1>5, <1>6, <1>7, LocalStep

\* mkdir sends every worker an insert for each directory that it has written.
LEMMA MkdirCallsStep ==
    ASSUME ReplicaInv, NEW s \in Sessions, MkdirCalls(s)
    PROVE  ReplicaInv'
<1>1. /\ ShapeOK /\ SessionOK(s) /\ pc[s] = "parse" /\ job[s].op = "mkdir" /\ IsSeq(found[s])
      /\ UNCHANGED <<dir, nextId, indoubt, exclusive, job, known, turn, found, ddir>>
  BY DEF ReplicaInv, ShapeOK, MkdirCalls, Parsed, tables, locks, parse, faults
<1>2. CASE found[s] = <<>>
  BY <1>1, <1>2, NothingStep DEF MkdirCalls
<1>3. CASE found[s] # <<>>
  <2> DEFINE ins == [i \in 1..Len(found[s]) |-> Stmt("insert", found[s][i].key, found[s][i].id)]
             new(w) == CreateStmts(found[s], w)
             f == [w \in Workers |-> MkdirScript(s, w)]
  <2>1. /\ pc' = [pc EXCEPT ![s] = "calls"] /\ script' = [script EXCEPT ![s] = f]
        /\ \A w \in Workers : f[w] = ins \o new(w)
    BY <1>3 DEF MkdirCalls, MkdirScript
  <2>2. IsSeq(ins) /\ DOMAIN ins = DOMAIN found[s]
    <3>1. Len(found[s]) \in Nat
      BY <1>1 DEF IsSeq
    <3>2. DOMAIN found[s] = 1..Len(found[s])
      BY <1>1 DEF IsSeq
    <3> QED BY <3>1, <3>2, SeqOfFunction
  <2>3. ASSUME NEW w \in Workers
        PROVE  IsSeq(new(w)) /\ \A i \in DOMAIN new(w) : new(w)[i].do = "create"
    <3>1. Len(found[s]) \in Nat
      BY <1>1 DEF IsSeq
    <3>2. new(w) \in Seq(CreateSet(found[s]))
      BY <3>1, CreateStmtsSound
    <3>3. \A st \in CreateSet(found[s]) : st.do = "create"
      BY DEF CreateSet, Stmt
    <3> HIDE DEF new
    <3>4. IsSeq(new(w)) /\ \A i \in DOMAIN new(w) : new(w)[i] \in CreateSet(found[s])
      BY <3>2, SeqIsSeq
    <3> QED BY <3>3, <3>4
  <2>4. \A i \in DOMAIN ins : ins[i] = [do |-> "insert", key |-> found[s][i].key, id |-> found[s][i].id]
    BY DEF Stmt
  <2> HIDE DEF ins, new, f
  <2>5. ASSUME NEW w \in Workers
        PROVE  /\ IsSeq(f[w])
               /\ \A i \in DOMAIN f[w] : OnDir(f[w][i]) => i \in DOMAIN ins /\ f[w][i] = ins[i]
               /\ \A i \in DOMAIN ins : i \in DOMAIN f[w] /\ f[w][i] = ins[i]
    <3>1. f[w] = ins \o new(w) /\ IsSeq(new(w)) /\ \A i \in DOMAIN new(w) : new(w)[i].do = "create"
      BY <2>1, <2>3
    <3> DEFINE r == new(w)
    <3> HIDE DEF r
    <3>2. IsSeq(r) /\ f[w] = ins \o r /\ \A i \in DOMAIN r : r[i].do = "create"
      BY <3>1 DEF r
    <3>3. Joined(ins, r, f[w])
      BY <2>2, <3>2, SeqConcat
    <3> QED BY <3>2, <3>3 DEF Joined, OnDir
  <2>6. pc'[s] = "calls" /\ script'[s] = f
    BY <1>1, <2>1 DEF ShapeOK
  <2>7. FoundWritten(s) /\ DirtyLocked(s) /\ WriteChanges(s)
    BY <1>1 DEF SessionOK
  <2>8. DirtyLocked(s)' /\ WriteChanges(s)'
    BY <1>1, <2>6, <2>7 DEF DirtyLocked, WriteChanges, InProgress, Undecided
  <2>9. ScriptsSound(s)'
    <3> SUFFICES ASSUME NEW w \in Workers
        PROVE  /\ \A i \in DOMAIN f[w] : LET st == f[w][i] IN OnDir(st) =>
                    /\ st.key \in DOMAIN ddir[s][CN]
                    /\ ddir[s][CN][st.key] = IF st.do = "insert" THEN st.id ELSE Absent
                    /\ st.do = "insert" => st.id # Absent
               /\ \A k \in DOMAIN ddir[s][CN] :
                    \E i \in DOMAIN f[w] : OnDir(f[w][i]) /\ f[w][i].key = k
      BY <1>1, <2>6 DEF ScriptsSound
    <3>1. ASSUME NEW i \in DOMAIN f[w], OnDir(f[w][i])
          PROVE  /\ f[w][i].key \in DOMAIN ddir[s][CN] /\ f[w][i].do = "insert"
                 /\ ddir[s][CN][f[w][i].key] = f[w][i].id /\ f[w][i].id # Absent
      <4>1. i \in DOMAIN found[s] /\ f[w][i] = [do |-> "insert", key |-> found[s][i].key, id |-> found[s][i].id]
        BY <2>2, <2>4, <2>5, <3>1
      <4>2. /\ found[s][i].key \in DOMAIN ddir[s][CN] /\ found[s][i].id # Absent
            /\ ddir[s][CN][found[s][i].key] = found[s][i].id
        BY <1>1, <2>7, <4>1 DEF FoundWritten
      <4> QED BY <4>1, <4>2
    <3>2. ASSUME NEW k \in DOMAIN ddir[s][CN]
          PROVE  \E i \in DOMAIN f[w] : OnDir(f[w][i]) /\ f[w][i].key = k
      <4>1. PICK i \in DOMAIN found[s] : found[s][i].key = k
        BY <1>1, <2>7 DEF FoundWritten
      <4>2. i \in DOMAIN f[w] /\ f[w][i] = [do |-> "insert", key |-> found[s][i].key, id |-> found[s][i].id]
        BY <2>2, <2>4, <2>5
      <4> QED BY <4>1, <4>2 DEF OnDir
    <3> QED BY <3>1, <3>2
  <2>10. DOMAIN f = Workers
    BY DEF f
  <2> QED BY <1>1, <2>1, <2>5, <2>8, <2>9, <2>10, CallsStep DEF ShapeOK
<1> QED BY <1>2, <1>3

\* c has the directory statements of q, and others that are not about the
\* directory table.
SameOnDir(q, c) ==
    /\ IsSeq(c)
    /\ \A i \in DOMAIN c : OnDir(c[i]) => \E j \in DOMAIN q : c[i] = q[j]
    /\ \A j \in DOMAIN q : \E i \in DOMAIN c : c[i] = q[j]

\* Statements on inode rows do not change that.
LEMMA MoreStatements ==
    ASSUME NEW q, NEW c, SameOnDir(q, c), NEW r, IsSeq(r), \A i \in DOMAIN r : ~OnDir(r[i])
    PROVE  SameOnDir(q, c \o r)
<1>1. Joined(c, r, c \o r)
  BY SeqConcat DEF SameOnDir
<1> DEFINE z == c \o r
<1> HIDE DEF z
<1>2. Joined(c, r, z)
  BY <1>1 DEF z
<1>3. ASSUME NEW i \in DOMAIN z, OnDir(z[i]) PROVE \E j \in DOMAIN q : z[i] = q[j]
  <2>1. i \in DOMAIN c /\ z[i] = c[i]
    BY <1>2, <1>3 DEF Joined
  <2> QED BY <1>3, <2>1 DEF SameOnDir
<1>4. ASSUME NEW j \in DOMAIN q PROVE \E i \in DOMAIN z : z[i] = q[j]
  <2>1. PICK i \in DOMAIN c : c[i] = q[j]
    BY DEF SameOnDir
  <2> QED BY <1>2, <2>1 DEF Joined
<1>5. SameOnDir(q, z)
  BY <1>2, <1>3, <1>4 DEF SameOnDir, Joined
<1> QED BY <1>5 DEF z

\* Sequences of one and of two elements.
LEMMA SmallSeqs ==
    ASSUME NEW a, NEW b
    PROVE  /\ IsSeq(<<a>>) /\ DOMAIN <<a>> = {1} /\ <<a>>[1] = a
           /\ IsSeq(<<a, b>>) /\ DOMAIN <<a, b>> = {1, 2} /\ <<a, b>>[1] = a /\ <<a, b>>[2] = b
BY DEF IsSeq

\* The statements q are the writes d of the CN, all of them.
Carries(q, d) ==
    /\ \A j \in DOMAIN q :
         /\ OnDir(q[j]) /\ q[j].key \in DOMAIN d
         /\ d[q[j].key] = IF q[j].do = "insert" THEN q[j].id ELSE Absent
         /\ q[j].do = "insert" => q[j].id # Absent
    /\ \A k \in DOMAIN d : \E j \in DOMAIN q : q[j].key = k

\* So are the directory statements of the script c.
Sent(c, d) ==
    /\ IsSeq(c)
    /\ \A i \in DOMAIN c : OnDir(c[i]) =>
         /\ c[i].key \in DOMAIN d
         /\ d[c[i].key] = IF c[i].do = "insert" THEN c[i].id ELSE Absent
         /\ c[i].do = "insert" => c[i].id # Absent
    /\ \A k \in DOMAIN d : \E i \in DOMAIN c : OnDir(c[i]) /\ c[i].key = k

\* A script with the statements of q is sent in full when q is.
LEMMA SoundScript ==
    ASSUME NEW q, NEW c, NEW d, SameOnDir(q, c), Carries(q, d)
    PROVE  Sent(c, d)
<1>1. ASSUME NEW i \in DOMAIN c, OnDir(c[i])
      PROVE  \E j \in DOMAIN q : c[i] = q[j]
  BY <1>1 DEF SameOnDir
<1>2. ASSUME NEW k \in DOMAIN d
      PROVE  \E i \in DOMAIN c : OnDir(c[i]) /\ c[i].key = k
  <2>1. PICK j \in DOMAIN q : q[j].key = k /\ OnDir(q[j])
    BY DEF Carries
  <2>2. PICK i \in DOMAIN c : c[i] = q[j]
    BY <2>1 DEF SameOnDir
  <2> QED BY <2>1, <2>2
<1>3. ASSUME NEW i \in DOMAIN c, OnDir(c[i])
      PROVE  /\ c[i].key \in DOMAIN d
             /\ d[c[i].key] = IF c[i].do = "insert" THEN c[i].id ELSE Absent
             /\ c[i].do = "insert" => c[i].id # Absent
  <2>1. PICK j \in DOMAIN q : c[i] = q[j]
    BY <1>1, <1>3
  <2> QED BY <2>1 DEF Carries
<1> QED BY <1>2, <1>3 DEF Sent, SameOnDir

\* rmdir sends every worker the delete of the one directory that it has written.
LEMMA RmdirCallsStep ==
    ASSUME ReplicaInv, NEW s \in Sessions, RmdirCalls(s)
    PROVE  ReplicaInv'
<1>1. /\ ShapeOK /\ SessionOK(s) /\ pc[s] = "parse" /\ job[s].op = "rmdir" /\ IsSeq(found[s])
      /\ UNCHANGED <<dir, nextId, indoubt, exclusive, job, known, turn, found, ddir>>
  BY DEF ReplicaInv, ShapeOK, RmdirCalls, Parsed, tables, locks, parse, faults
<1>2. DOMAIN found[s] = {1}
  <2>0. /\ Len(job[s].paths) = 1 /\ turn[s] \in 1 .. Len(job[s].paths) + 1
        /\ Len(found[s]) = turn[s] - 1
    BY <1>1 DEF SessionOK, RequestOK, InProgress, Undecided
  <2>1. Len(job[s].paths) = 1 /\ turn[s] \in 1..2 /\ Len(found[s]) = turn[s] - 1
    BY <2>0
  <2>2. Len(found[s]) = 1
    BY <2>1 DEF RmdirCalls, Parsed
  <2> QED BY <1>1, <2>2 DEF IsSeq
<1> DEFINE k == found[s][1].key
           del == Stmt("delete", k, found[s][1].id)
           emp == Stmt("empty", k, found[s][1].id)
           unl == Stmt("unlink", k, found[s][1].id)
           f == [w \in Workers |-> RmdirScript(s, w)]
<1>3. /\ pc' = [pc EXCEPT ![s] = "calls"] /\ script' = [script EXCEPT ![s] = f]
  BY DEF RmdirCalls
<1>4. /\ OnDir(del) /\ ~OnDir(emp) /\ ~OnDir(unl)
      /\ del.do = "delete" /\ del.key = k
  BY DEF Stmt, OnDir
<1>5. DOMAIN f = Workers /\ \A w \in Workers : f[w] = <<del, emp>> \o <<unl>> \/ f[w] = <<del, emp>> \o <<>>
  BY DEF RmdirScript
<1>6. pc'[s] = "calls" /\ script'[s] = f
  BY <1>1, <1>3 DEF ShapeOK
<1>7. DirtyLocked(s)' /\ WriteChanges(s)'
  BY <1>1, <1>6 DEF SessionOK, DirtyLocked, WriteChanges, InProgress, Undecided
<1>8. DOMAIN ddir[s][CN] = {k} /\ ddir[s][CN][k] = Absent
  <2>1. FoundWritten(s)
    BY <1>1 DEF SessionOK
  <2>2. k \in DOMAIN ddir[s][CN] /\ ddir[s][CN][k] = Absent
    BY <1>1, <1>2, <2>1 DEF FoundWritten
  <2>3. ASSUME NEW x \in DOMAIN ddir[s][CN] PROVE x = k
    BY <1>1, <1>2, <2>1 DEF FoundWritten
  <2> QED BY <2>2, <2>3
<1> HIDE DEF del, emp, unl, f
<1>9. Carries(<<del>>, ddir'[s][CN])
  BY <1>1, <1>4, <1>8, SmallSeqs DEF Carries
<1>10. ASSUME NEW w \in Workers PROVE Sent(f[w], ddir'[s][CN])
  <2>1. SameOnDir(<<del>>, <<del, emp>>)
    BY <1>4, SmallSeqs DEF SameOnDir
  <2>2. SameOnDir(<<del>>, <<del, emp>> \o <<unl>>)
    BY <1>4, <2>1, MoreStatements, SmallSeqs
  <2>3. SameOnDir(<<del>>, <<del, emp>> \o <<>>)
    BY <2>1, MoreStatements, SeqEmpty
  <2>4. SameOnDir(<<del>>, f[w])
    BY <1>5, <2>2, <2>3
  <2> QED BY <1>9, <2>4, SoundScript
<1>11. ScriptsSound(s)' /\ \A w \in Workers : IsSeq(f[w])
  BY <1>6, <1>10 DEF ScriptsSound, Sent
<1> QED BY <1>1, <1>3, <1>5, <1>7, <1>11, CallsStep DEF ShapeOK

\* A rename of a directory removes the source and makes the target; one of a file
\* changes no directory.
LEMMA RenameCallsStep ==
    ASSUME ReplicaInv, NEW s \in Sessions, RenameCalls(s)
    PROVE  ReplicaInv'
<1>1. /\ ShapeOK /\ SessionOK(s) /\ pc[s] = "parse" /\ job[s].op = "rename" /\ IsSeq(found[s])
      /\ UNCHANGED <<dir, nextId, indoubt, exclusive, job, known, turn, found>>
  BY DEF ReplicaInv, ShapeOK, RenameCalls, Parsed, tables, locks, parse, faults
<1>2. DOMAIN found[s] = {1, 2} /\ job[s].src \in {1, 2} /\ (3 - job[s].src) \in {1, 2} /\ 3 - job[s].src # job[s].src
  <2>0. /\ Len(job[s].paths) = 2 /\ turn[s] \in 1 .. Len(job[s].paths) + 1
        /\ Len(found[s]) = turn[s] - 1 /\ job[s].src \in 1..2
    BY <1>1 DEF SessionOK, RequestOK, InProgress, Undecided
  <2>1. Len(job[s].paths) = 2 /\ turn[s] \in 1..3 /\ Len(found[s]) = turn[s] - 1 /\ job[s].src \in 1..2
    BY <2>0
  <2>2. Len(found[s]) = 2
    BY <2>1 DEF RenameCalls, Parsed
  <2>3. DOMAIN found[s] = 1..2
    BY <1>1, <2>2 DEF IsSeq
  <2> QED BY <2>1, <2>3
<1> DEFINE k == Src(s).key
           m == Dst(s).key
           id == Dst(s).id
           del == Stmt("delete", k, id)
           ins == Stmt("insert", m, id)
           take == Stmt("take", k, id)
           put == Stmt("put", m, id)
           f == [w \in Workers |-> RenameScript(s, w)]
           q == IF ~RenamesDir(s) THEN <<>> ELSE IF job[s].src = 1 THEN <<del, ins>> ELSE <<ins, del>>
<1>3. /\ pc' = [pc EXCEPT ![s] = "calls"] /\ script' = [script EXCEPT ![s] = f]
  BY DEF RenameCalls
<1>4. /\ OnDir(del) /\ OnDir(ins) /\ ~OnDir(take) /\ ~OnDir(put)
      /\ del.do = "delete" /\ del.key = k /\ ins.do = "insert" /\ ins.key = m /\ ins.id = id
  BY DEF Stmt, OnDir
<1>5. DOMAIN f = Workers /\ \A w \in Workers :
          \E a \in {<<>>, <<take>>} : \E b \in {<<>>, <<put>>} : f[w] = (q \o a) \o b
  <2>1. ASSUME NEW w \in Workers
        PROVE  f[w] = (q \o (IF Home[k[2]] = w THEN <<take>> ELSE <<>>)) \o
                      (IF Home[k[2]] = w /\ Home[m[2]] = w THEN <<put>> ELSE <<>>)
    BY DEF RenameScript
  <2> HIDE DEF f, q, take, put
  <2>2. ASSUME NEW w \in Workers
        PROVE  \E a \in {<<>>, <<take>>} : \E b \in {<<>>, <<put>>} : f[w] = (q \o a) \o b
    BY <2>1
  <2> QED BY <2>2 DEF f
<1>6. pc'[s] = "calls" /\ script'[s] = f
  BY <1>1, <1>3 DEF ShapeOK
<1>7. DOMAIN ddir[s][CN] = {}
  BY <1>1 DEF SessionOK, FoundWritten
<1>8. /\ DOMAIN ddir' = Sessions /\ \A t \in Sessions : DOMAIN ddir'[t] = Servers
      /\ \A t \in Sessions \ {s} : ddir'[t] = ddir[t]
      /\ \A w \in Workers : ddir'[s][w] = ddir[s][w]
      /\ ~RenamesDir(s) => ddir'[s][CN] = ddir[s][CN]
      /\ RenamesDir(s) => ddir'[s][CN] = Put(Put(ddir[s][CN], k, Absent), m, id)
  <2>1. ddir' = IF RenamesDir(s) THEN [ddir EXCEPT ![s][CN] = Put(Put(@, k, Absent), m, id)] ELSE ddir
    BY DEF RenameCalls
  <2> HIDE DEF k, m, id
  <2> QED BY <1>1, <2>1, Places DEF ShapeOK
<1>9. RenamesDir(s) => /\ <<CN, k, s>> \in exclusive /\ <<CN, m, s>> \in exclusive
                       /\ Row(dir[CN], k, Absent) # Absent /\ Row(dir[CN], m, Absent) = Absent /\ id # Absent
  <2>1. FoundWritten(s)
    BY <1>1 DEF SessionOK
  <2> QED BY <1>1, <1>2, <2>1 DEF FoundWritten, Src, Dst
<1> HIDE DEF k, m, id, del, ins, take, put, f
<1>10. RenamesDir(s) => /\ DOMAIN ddir'[s][CN] = {k, m} /\ k # m
                        /\ ddir'[s][CN][k] = Absent /\ ddir'[s][CN][m] = id
  BY <1>7, <1>8, <1>9 DEF Put
<1>11. DirtyLocked(s)' /\ WriteChanges(s)'
  <2>1. CASE RenamesDir(s)
    BY <1>1, <1>6, <1>9, <1>10, <2>1 DEF DirtyLocked, WriteChanges, InProgress, Undecided
  <2>2. CASE ~RenamesDir(s)
    BY <1>7, <1>8, <2>2 DEF DirtyLocked, WriteChanges
  <2> QED BY <2>1, <2>2
<1>12. Carries(q, ddir'[s][CN]) /\ SameOnDir(q, q)
  <2>1. CASE ~RenamesDir(s)
    BY <1>7, <1>8, <2>1, SeqEmpty DEF Carries, SameOnDir
  <2>2. CASE RenamesDir(s) /\ job[s].src = 1
    <3>1. q = <<del, ins>> /\ DOMAIN <<del, ins>> = {1, 2} /\ <<del, ins>>[1] = del /\ <<del, ins>>[2] = ins
      BY <2>2
    <3>2. SameOnDir(q, q)
      BY <3>1, SmallSeqs DEF SameOnDir
    <3> QED BY <1>4, <1>9, <1>10, <2>2, <3>1, <3>2 DEF Carries
  <2>3. CASE RenamesDir(s) /\ job[s].src # 1
    <3>1. q = <<ins, del>> /\ DOMAIN <<ins, del>> = {1, 2} /\ <<ins, del>>[1] = ins /\ <<ins, del>>[2] = del
      BY <2>3
    <3>2. SameOnDir(q, q)
      BY <3>1, SmallSeqs DEF SameOnDir
    <3> QED BY <1>4, <1>9, <1>10, <2>3, <3>1, <3>2 DEF Carries
  <2> QED BY <2>1, <2>2, <2>3
<1> HIDE DEF q
<1>13. ASSUME NEW w \in Workers PROVE Sent(f[w], ddir'[s][CN])
  <2>1. PICK a \in {<<>>, <<take>>} : \E b \in {<<>>, <<put>>} : f[w] = (q \o a) \o b
    BY <1>5
  <2>2. PICK b \in {<<>>, <<put>>} : f[w] = (q \o a) \o b
    BY <2>1
  <2>3. IsSeq(a) /\ \A i \in DOMAIN a : ~OnDir(a[i])
    <3>1. CASE a = <<>>
      BY <3>1, SeqEmpty
    <3>2. CASE a = <<take>>
      <4>1. IsSeq(<<take>>) /\ DOMAIN <<take>> = {1} /\ <<take>>[1] = take
        BY SmallSeqs
      <4> QED BY <1>4, <3>2, <4>1
    <3> QED BY <3>1, <3>2
  <2>4. IsSeq(b) /\ \A i \in DOMAIN b : ~OnDir(b[i])
    <3>1. CASE b = <<>>
      BY <3>1, SeqEmpty
    <3>2. CASE b = <<put>>
      <4>1. IsSeq(<<put>>) /\ DOMAIN <<put>> = {1} /\ <<put>>[1] = put
        BY SmallSeqs
      <4> QED BY <1>4, <3>2, <4>1
    <3> QED BY <3>1, <3>2
  <2>5. SameOnDir(q, q \o a)
    BY <1>12, <2>3, MoreStatements
  <2>6. SameOnDir(q, f[w])
    BY <2>2, <2>4, <2>5, MoreStatements
  <2> QED BY <1>12, <2>6, SoundScript
<1>14. ScriptsSound(s)' /\ \A w \in Workers : IsSeq(f[w])
  BY <1>6, <1>13 DEF ScriptsSound, Sent
<1> QED BY <1>1, <1>3, <1>5, <1>8, <1>11, <1>14, CallsStep

\* RENAME_SUB_CREATE concerns the inode row alone.
LEMMA RenameSecondCallStep ==
    ASSUME ReplicaInv, NEW s \in Sessions, RenameSecondCall(s)
    PROVE  ReplicaInv'
<1> DEFINE h == Home[Dst(s).key[2]]
           put == Stmt("put", Dst(s).key, Dst(s).id)
<1>1. /\ ShapeOK /\ SessionOK(s) /\ pc[s] = "calls" /\ pc' = [pc EXCEPT ![s] = "create"]
      /\ script' = [script EXCEPT ![s][h] = <<put>>] /\ Called(s)
      /\ UNCHANGED <<dir, nextId, indoubt, exclusive, job, known, turn, found, ddir>>
  BY DEF ReplicaInv, RenameSecondCall, tables, locks, parse, faults
<1>2. ~OnDir(put)
  BY DEF OnDir, Stmt
<1> HIDE DEF h, put
<1>3. IsSeq(<<put>>) /\ DOMAIN <<put>> = {1} /\ <<put>>[1] = put
  BY SmallSeqs
<1>4. /\ pc'[s] = "create" /\ DOMAIN script' = Sessions /\ DOMAIN script'[s] = Workers
      /\ pc' \in [Sessions -> {"start", "parse", "calls", "create", "decided", "done"}]
      /\ \A w \in Workers : script'[s][w] = script[s][w] \/ script'[s][w] = <<put>>
      /\ \A t \in Sessions \ {s} : SameSession(t)
  BY <1>1 DEF ShapeOK, SameSession
<1>5. ShapeOK'
  <2>1. \A t \in Sessions : DOMAIN script'[t] = Workers /\ \A w \in Workers : IsSeq(script'[t][w])
    BY <1>1, <1>3, <1>4 DEF ShapeOK, SameSession
  <2> QED BY <1>1, <1>4, <2>1 DEF ShapeOK
<1>6. RequestOK(s)' /\ DirtyLocked(s)' /\ FoundWritten(s)'
  BY <1>1, <1>4 DEF SessionOK, RequestOK, DirtyLocked, FoundWritten, InProgress, Undecided
<1>7. WriteChanges(s)' /\ PartsSound(s)'
  BY <1>1, <1>4 DEF SessionOK, WriteChanges, PartsSound, Undecided
<1>8. ScriptsSound(s)'
  <2>1. \A w \in Workers : DOMAIN script[s][w] = {}
    BY <1>1, SeqEmpty DEF Called
  <2>2. \A w \in Workers : \A i \in DOMAIN script'[s][w] : ~OnDir(script'[s][w][i])
    BY <1>2, <1>3, <1>4, <2>1
  <2>3. \A w \in Workers : DOMAIN ddir[s][CN] \subseteq DOMAIN ddir[s][w]
    BY <1>1, <2>1 DEF SessionOK, ScriptsSound
  <2> QED BY <1>1, <2>2, <2>3 DEF ScriptsSound
<1>9. SessionOK(s)' /\ LockStep(s)
  BY <1>1, <1>6, <1>7, <1>8 DEF SessionOK, LockStep
<1> QED BY <1>1, <1>4, <1>5, <1>9, LocalStep

-----------------------------------------------------------------------------
(* The statements on a worker.                                              *)

\* A statement is done: the rest of the script is what it was.
LEMMA StatementDone ==
    ASSUME ReplicaInv, NEW s \in Sessions, NEW w \in Workers,
           script[s][w] # <<>>, StmtDone(s, w)
    PROVE  /\ DOMAIN script' = Sessions
           /\ \A t \in Sessions : DOMAIN script'[t] = Workers /\ \A x \in Workers : IsSeq(script'[t][x])
           /\ \A t \in Sessions \ {s} : script'[t] = script[t]
           /\ \A x \in Workers \ {w} : script'[s][x] = script[s][x]
           /\ 1 \in DOMAIN script[s][w]
           /\ \A i \in DOMAIN script'[s][w] : i + 1 \in DOMAIN script[s][w] /\ script'[s][w][i] = script[s][w][i + 1]
           /\ \A i \in DOMAIN script[s][w] :
                i = 1 \/ (i - 1 \in DOMAIN script'[s][w] /\ script'[s][w][i - 1] = script[s][w][i])
<1>1. ShapeOK /\ IsSeq(script[s][w])
  BY DEF ReplicaInv, ShapeOK
<1>2. /\ DOMAIN script' = Sessions /\ \A t \in Sessions : DOMAIN script'[t] = Workers
      /\ \A t \in Sessions \ {s} : script'[t] = script[t]
      /\ \A x \in Workers \ {w} : script'[s][x] = script[s][x]
      /\ script'[s][w] = Tail(script[s][w])
  BY <1>1 DEF StmtDone, ShapeOK
<1>3. /\ IsSeq(script'[s][w]) /\ 1 \in DOMAIN script[s][w]
      /\ \A i \in DOMAIN script'[s][w] : i + 1 \in DOMAIN script[s][w] /\ script'[s][w][i] = script[s][w][i + 1]
      /\ \A i \in DOMAIN script[s][w] :
           i = 1 \/ (i - 1 \in DOMAIN script'[s][w] /\ script'[s][w][i - 1] = script[s][w][i])
  BY <1>1, <1>2, SeqTail
<1>4. \A t \in Sessions : \A x \in Workers : IsSeq(script'[t][x])
  BY <1>1, <1>2, <1>3 DEF ShapeOK
<1> QED BY <1>2, <1>3, <1>4

\* The scripts stay sound, when the statement's directory, if it has one, is in the
\* worker's part.
LEMMA ScriptsStaySound ==
    ASSUME ReplicaInv, NEW s \in Sessions, NEW w \in Workers, pc[s] \in {"calls", "create"},
           script[s][w] # <<>>, StmtDone(s, w), pc' = pc, ddir'[s][CN] = ddir[s][CN],
           \A x \in Workers : DOMAIN ddir[s][x] \subseteq DOMAIN ddir'[s][x],
           OnDir(Head1(s, w)) => Head1(s, w).key \in DOMAIN ddir'[s][w]
    PROVE  ScriptsSound(s)'
<1> DEFINE d == ddir[s][CN]
           Good(st) == OnDir(st) => /\ st.key \in DOMAIN d
                                    /\ d[st.key] = IF st.do = "insert" THEN st.id ELSE Absent
                                    /\ st.do = "insert" => st.id # Absent
           Covered(x, k) == \/ k \in DOMAIN ddir[s][x]
                            \/ \E i \in DOMAIN script[s][x] : OnDir(script[s][x][i]) /\ script[s][x][i].key = k
           CoveredNow(x, k) == \/ k \in DOMAIN ddir'[s][x]
                               \/ \E i \in DOMAIN script'[s][x] : OnDir(script'[s][x][i]) /\ script'[s][x][i].key = k
<1>1. \A x \in Workers : /\ \A i \in DOMAIN script[s][x] : Good(script[s][x][i])
                         /\ \A k \in DOMAIN d : Covered(x, k)
  BY DEF ReplicaInv, SessionOK, ScriptsSound
<1> SUFFICES ASSUME NEW x \in Workers
             PROVE  /\ \A i \in DOMAIN script'[s][x] : Good(script'[s][x][i])
                    /\ \A k \in DOMAIN d : CoveredNow(x, k)
  BY DEF ScriptsSound
<1>2. CASE x # w
  <2>1. script'[s][x] = script[s][x]
    BY <1>2, StatementDone
  <2> QED BY <1>1, <2>1
<1>3. CASE x = w
  <2> HIDE DEF d, Good
  <2>1. /\ 1 \in DOMAIN script[s][w]
        /\ \A i \in DOMAIN script'[s][w] : i + 1 \in DOMAIN script[s][w] /\ script'[s][w][i] = script[s][w][i + 1]
        /\ \A i \in DOMAIN script[s][w] :
             i = 1 \/ (i - 1 \in DOMAIN script'[s][w] /\ script'[s][w][i - 1] = script[s][w][i])
    BY StatementDone
  <2>2. \A i \in DOMAIN script'[s][w] : Good(script'[s][w][i])
    BY <1>1, <2>1
  <2>3. ASSUME NEW k \in DOMAIN d PROVE CoveredNow(w, k)
    <3>1. CASE k \in DOMAIN ddir[s][w]
      BY <3>1
    <3>2. CASE k \notin DOMAIN ddir[s][w]
      <4>1. PICK i \in DOMAIN script[s][w] : OnDir(script[s][w][i]) /\ script[s][w][i].key = k
        BY <1>1, <3>2
      <4>2. CASE i = 1
        BY <4>1, <4>2 DEF Head1
      <4>3. CASE i # 1
        BY <2>1, <4>1, <4>3
      <4> QED BY <4>2, <4>3
    <3> QED BY <3>1, <3>2
  <2> QED BY <1>3, <2>2, <2>3
<1> QED BY <1>2, <1>3

\* A statement on inode rows.
LEMMA RowStatementStep ==
    ASSUME ReplicaInv, NEW s \in Sessions, NEW w \in Workers, pc[s] \in {"calls", "create"},
           script[s][w] # <<>>, ~OnDir(Head1(s, w)), StmtDone(s, w),
           UNCHANGED <<dir, nextId, indoubt, exclusive, pc, job, known, turn, found, ddir>>
    PROVE  ReplicaInv'
<1>1. ShapeOK /\ SessionOK(s)
  BY DEF ReplicaInv
<1>2. ShapeOK'
  BY <1>1, StatementDone DEF ShapeOK
<1>3. ScriptsSound(s)'
  BY ScriptsStaySound
<1>4. SessionOK(s)'
  <2>1. RequestOK(s)' /\ DirtyLocked(s)' /\ FoundWritten(s)'
    BY <1>1 DEF SessionOK, RequestOK, DirtyLocked, FoundWritten
  <2>2. WriteChanges(s)' /\ PartsSound(s)'
    BY <1>1 DEF SessionOK, WriteChanges, PartsSound
  <2> QED BY <1>3, <2>1, <2>2 DEF SessionOK
<1>5. \A t \in Sessions \ {s} : SameSession(t)
  BY StatementDone DEF SameSession
<1>6. LockStep(s)
  BY DEF LockStep
<1> QED BY <1>2, <1>4, <1>5, <1>6, LocalStep

\* A statement that inserts or deletes a directory: the worker must have had the
\* CN's row, for it checks what it finds, and no part on it is in doubt for the row.
DirStatement(s, w, k, v) ==
    /\ pc[s] \in {"calls", "create"} /\ script[s][w] # <<>>
    /\ OnDir(Head1(s, w)) /\ k = Head1(s, w).key
    /\ v = IF Head1(s, w).do = "insert" THEN Head1(s, w).id ELSE Absent
    /\ SeesDir(s, w, k) = Absent <=> Head1(s, w).do = "insert"
    /\ LockExclusive(s, w, k) /\ ddir' = [ddir EXCEPT ![s][w] = Put(@, k, v)] /\ StmtDone(s, w)
    /\ UNCHANGED <<dir, nextId, indoubt, pc, job, known, turn, found>>

\* Such a statement puts the CN's write into the worker's part.
LEMMA DirStatementStep ==
    ASSUME ReplicaInv, NEW s \in Sessions, NEW w \in Workers, NEW k, NEW v, DirStatement(s, w, k, v)
    PROVE  ReplicaInv'
<1> USE DEF DirStatement
<1>1. ShapeOK /\ SessionOK(s) /\ w \in Servers /\ w # CN
  BY Places DEF ReplicaInv
<1>2. k \in DOMAIN ddir[s][CN] /\ ddir[s][CN][k] = v /\ (v # Absent <=> Head1(s, w).do = "insert")
  <2>1. 1 \in DOMAIN script[s][w]
    BY StatementDone
  <2> QED BY <1>1, <2>1 DEF SessionOK, ScriptsSound, Head1
<1>3. k \notin DOMAIN ddir[s][w]
  <2> SUFFICES ASSUME k \in DOMAIN ddir[s][w] PROVE FALSE
    OBVIOUS
  <2>1. ddir[s][w][k] = v
    BY <1>1, <1>2 DEF SessionOK, PartsSound
  <2>2. SeesDir(s, w, k) = v
    BY <1>1, <2>1, Sees
  <2> QED BY <1>2, <2>2
<1>4. Row(dir[w], k, Absent) = Absent <=> v # Absent
  BY <1>1, <1>2, <1>3, Sees
<1>5. Row(dir[CN], k, Absent) = Absent <=> v # Absent
  BY <1>1, <1>2 DEF SessionOK, WriteChanges, Undecided
<1>6. Row(dir[w], k, Absent) = Row(dir[CN], k, Absent)
  <2>1. ASSUME NEW t \in Sessions, pc[t] = "decided", k \in DOMAIN ddir[t][w] PROVE FALSE
    <3>1. <<CN, k, s>> \in exclusive
      BY <1>1, <1>2 DEF SessionOK, DirtyLocked
    <3>2. t = s
      BY <1>1, <2>1, <3>1, OneWriter
    <3> QED BY <2>1, <3>2
  <2>2. ASSUME NEW d \in indoubt, d.w = w, k \in DOMAIN d.dirs PROVE FALSE
    <3>1. /\ Row(dir[CN], k, Absent) = d.dirs[k]
          /\ Row(dir[w], k, Absent) = Absent <=> d.dirs[k] # Absent
      BY <2>2 DEF ReplicaInv, DoubtSound
    <3> QED BY <1>4, <1>5, <3>1
  <2>3. Converging
    BY DEF ReplicaInv
  <2> QED BY <2>1, <2>2, <2>3, ConvergingRows
<1>7. /\ DOMAIN ddir' = Sessions /\ \A t \in Sessions : DOMAIN ddir'[t] = Servers
      /\ \A t \in Sessions \ {s} : ddir'[t] = ddir[t]
      /\ \A x \in Servers \ {w} : ddir'[s][x] = ddir[s][x]
      /\ ddir'[s][w] = Put(ddir[s][w], k, v)
  BY <1>1 DEF ShapeOK
<1>8. /\ DOMAIN ddir'[s][w] = DOMAIN ddir[s][w] \cup {k} /\ ddir'[s][w][k] = v
      /\ \A x \in DOMAIN ddir[s][w] : ddir'[s][w][x] = ddir[s][w][x]
      /\ ddir'[s][CN] = ddir[s][CN]
  BY <1>1, <1>3, <1>7, Places DEF Put
<1>9. ShapeOK'
  <2>1. /\ DOMAIN script' = Sessions
        /\ \A t \in Sessions : DOMAIN script'[t] = Workers /\ \A x \in Workers : IsSeq(script'[t][x])
    BY StatementDone
  <2> QED BY <1>1, <1>7, <2>1 DEF ShapeOK
<1>10. exclusive \subseteq exclusive'
  BY DEF LockExclusive
<1>11. RequestOK(s)' /\ DirtyLocked(s)' /\ WriteChanges(s)'
  <2>1. RequestOK(s)'
    BY <1>1 DEF SessionOK, RequestOK
  <2>2. DirtyLocked(s)'
    BY <1>1, <1>8, <1>10 DEF SessionOK, DirtyLocked
  <2>3. WriteChanges(s)'
    BY <1>1, <1>8 DEF SessionOK, WriteChanges
  <2> QED BY <2>1, <2>2, <2>3
<1>12. FoundWritten(s)'
  BY DEF FoundWritten
<1>13. ScriptsSound(s)'
  <2>1. \A x \in Workers : DOMAIN ddir[s][x] \subseteq DOMAIN ddir'[s][x]
    <3> SUFFICES ASSUME NEW x \in Workers PROVE DOMAIN ddir[s][x] \subseteq DOMAIN ddir'[s][x]
      OBVIOUS
    <3>1. CASE x = w
      BY <1>8, <3>1
    <3>2. CASE x # w
      BY <1>7, <3>2, Places
    <3> QED BY <3>1, <3>2
  <2> QED BY <1>8, <2>1, ScriptsStaySound
<1>14. PartsSound(s)'
  <2> SUFFICES ASSUME NEW y \in Workers, NEW x \in DOMAIN ddir'[s][y]
      PROVE  /\ x \in DOMAIN ddir[s][CN] /\ ddir'[s][y][x] = ddir[s][CN][x]
             /\ Row(dir[y], x, Absent) = Absent <=> ddir'[s][y][x] # Absent
             /\ Row(dir[CN], x, Absent) = Row(dir[y], x, Absent)
    BY <1>8 DEF PartsSound
  <2>1. CASE x \in DOMAIN ddir[s][y]
    <3>1. ddir'[s][y][x] = ddir[s][y][x]
      <4>1. CASE y = w
        BY <1>8, <2>1, <4>1
      <4>2. CASE y # w
        BY <1>7, <4>2, Places
      <4> QED BY <4>1, <4>2
    <3>2. PartsSound(s)
      BY <1>1 DEF SessionOK
    <3> QED BY <2>1, <3>1, <3>2 DEF PartsSound
  <2>2. CASE x \notin DOMAIN ddir[s][y]
    <3>1. y = w /\ x = k
      BY <1>7, <1>8, <2>2, Places
    <3> QED BY <1>2, <1>4, <1>6, <1>8, <3>1
  <2> QED BY <2>1, <2>2
<1>15. SessionOK(s)'
  BY <1>11, <1>12, <1>13, <1>14 DEF SessionOK
<1>16. LockStep(s) /\ \A t \in Sessions \ {s} : SameSession(t)
  BY <1>1, <1>7, StatementDone DEF LockExclusive, LockStep, SameSession
<1>17. \A y \in Workers : \A x \in DOMAIN ddir'[s][y] :
          x \in DOMAIN ddir[s][y] \/ Row(dir[y], x, Absent) = Row(dir[CN], x, Absent)
  BY <1>6, <1>7, <1>8, Places
<1> QED BY <1>9, <1>10, <1>15, <1>16, <1>17, LocalStep

\* The sub-handlers, each of which may also fail.
LEMMA SubStepStep ==
    ASSUME ReplicaInv, NEW s \in Sessions, NEW w \in Workers, SubStep(s, w)
    PROVE  ReplicaInv'
<1>1. ASSUME NEW code, Abort(s, code), pc[s] \in {"calls", "create"} PROVE ReplicaInv'
  BY <1>1, AbortStep
<1>2. ASSUME NEW do, do \notin {"insert", "delete"}, Executes(s, w, do), StmtDone(s, w),
             UNCHANGED <<dir, nextId, indoubt, exclusive, pc, job, known, turn, found, ddir>>
      PROVE  ReplicaInv'
  BY <1>2, RowStatementStep DEF Executes, OnDir
<1>3. CASE SubInsertDirectory(s, w)
  <2>1. CASE Abort(s, "unexpected")
    BY <1>1, <1>3, <2>1 DEF SubInsertDirectory, Executes
  <2>2. CASE ~Abort(s, "unexpected")
    <3> DEFINE k == Head1(s, w).key
               v == Head1(s, w).id
    <3>1. /\ pc[s] \in {"calls", "create"} /\ script[s][w] # <<>> /\ Head1(s, w).do = "insert"
          /\ OnDir(Head1(s, w))
      BY <1>3 DEF SubInsertDirectory, Executes, OnDir
    <3>2. /\ LockExclusive(s, w, k) /\ ddir' = [ddir EXCEPT ![s][w] = Put(@, k, v)] /\ StmtDone(s, w)
          /\ UNCHANGED <<dir, nextId, indoubt, pc, job, known, turn, found>>
          /\ ~(CanExclude(s, w, k) /\ SeesDir(s, w, k) # Absent)
      BY <1>3, <2>2 DEF SubInsertDirectory, WriteDir, CallRest, tables, parse, faults
    <3>3. SeesDir(s, w, k) = Absent
      BY <3>2 DEF LockExclusive
    <3>4. v = IF Head1(s, w).do = "insert" THEN Head1(s, w).id ELSE Absent
      BY <3>1
    <3>5. k = Head1(s, w).key /\ (SeesDir(s, w, k) = Absent <=> Head1(s, w).do = "insert")
      BY <3>1, <3>3
    <3>6. DirStatement(s, w, k, v)
      BY <3>1, <3>2, <3>4, <3>5 DEF DirStatement
    <3> QED BY <3>6, DirStatementStep
  <2> QED BY <2>1, <2>2
<1>4. CASE SubDeleteDirectory(s, w)
  <2>1. CASE Abort(s, "unexpected")
    BY <1>1, <1>4, <2>1 DEF SubDeleteDirectory, Executes
  <2>2. CASE ~Abort(s, "unexpected")
    <3> DEFINE k == Head1(s, w).key
    <3>1. /\ pc[s] \in {"calls", "create"} /\ script[s][w] # <<>> /\ Head1(s, w).do = "delete"
          /\ OnDir(Head1(s, w))
      BY <1>4 DEF SubDeleteDirectory, Executes, OnDir
    <3>2. /\ LockExclusive(s, w, k) /\ ddir' = [ddir EXCEPT ![s][w] = Put(@, k, Absent)] /\ StmtDone(s, w)
          /\ UNCHANGED <<dir, nextId, indoubt, pc, job, known, turn, found>>
          /\ ~(CanExclude(s, w, k) /\ SeesDir(s, w, k) = Absent)
      BY <1>4, <2>2 DEF SubDeleteDirectory, WriteDir, CallRest, tables, parse, faults
    <3>3. SeesDir(s, w, k) # Absent
      BY <3>2 DEF LockExclusive
    <3>4. Absent = IF Head1(s, w).do = "insert" THEN Head1(s, w).id ELSE Absent
      BY <3>1
    <3>5. k = Head1(s, w).key /\ (SeesDir(s, w, k) = Absent <=> Head1(s, w).do = "insert")
      BY <3>1, <3>3
    <3>6. DirStatement(s, w, k, Absent)
      BY <3>1, <3>2, <3>4, <3>5 DEF DirStatement
    <3> QED BY <3>6, DirStatementStep
  <2> QED BY <2>1, <2>2
<1>5. CASE SubCheckEmpty(s, w)
  BY <1>1, <1>2, <1>5 DEF SubCheckEmpty, Executes, CallRest, tables, locks, parse, faults
<1>6. CASE SubCreateRow(s, w)
  BY <1>1, <1>2, <1>6 DEF SubCreateRow, Executes, CallRest, tables, locks, parse, faults
<1>7. CASE SubUnlinkRow(s, w)
  BY <1>1, <1>2, <1>7 DEF SubUnlinkRow, Executes, CallRest, tables, locks, parse, faults
<1>8. CASE SubTakeRow(s, w)
  BY <1>1, <1>2, <1>8 DEF SubTakeRow, Executes, tables, locks, parse, faults
<1>9. CASE SubPutRow(s, w)
  BY <1>1, <1>2, <1>9 DEF SubPutRow, Executes, CallRest, tables, locks, parse, faults
<1> QED BY <1>3, <1>4, <1>5, <1>6, <1>7, <1>8, <1>9 DEF SubStep

-----------------------------------------------------------------------------
(* create and unlink.                                                       *)

\* They work through what they found, and the directory tables stay as they are.
LEMMA FileRowStep ==
    ASSUME ReplicaInv, NEW s \in Sessions, CreateRow(s) \/ UnlinkRow(s)
    PROVE  ReplicaInv'
<1>1. /\ ShapeOK /\ SessionOK(s) /\ pc[s] = "parse" /\ job[s].op \in {"create", "unlink"}
      /\ IsSeq(found[s])
      /\ UNCHANGED <<dir, nextId, indoubt, exclusive, job, known, turn, ddir, script>>
  BY DEF ReplicaInv, ShapeOK, CreateRow, UnlinkRow, Parsed, tables, locks, faults
<1>2. CASE pc' = [pc EXCEPT ![s] = "decided"] /\ found' = found
  BY <1>1, <1>2, NothingStep
<1>3. CASE found[s] # <<>> /\ pc' = pc /\ found' = [found EXCEPT ![s] = Tail(@)]
  <2>1. IsSeq(found'[s]) /\ DOMAIN found' = Sessions /\ \A t \in Sessions \ {s} : found'[t] = found[t]
    BY <1>1, <1>3, SeqTail DEF ShapeOK
  <2>2. ShapeOK'
    BY <1>1, <1>3, <2>1 DEF ShapeOK
  <2>3. RequestOK(s)'
    BY <1>1, <1>3 DEF SessionOK, RequestOK
  <2>4. FoundWritten(s)'
    <3>1. DOMAIN ddir[s][CN] = {}
      BY <1>1 DEF SessionOK, FoundWritten
    <3>2. ~RenamesDir(s)'
      BY <1>1 DEF RenamesDir
    <3> QED BY <1>1, <3>1, <3>2 DEF FoundWritten
  <2>5. SessionOK(s)'
    BY <1>1, <1>3, <2>3, <2>4 DEF SessionOK, DirtyLocked, WriteChanges, ScriptsSound, PartsSound
  <2>6. LockStep(s) /\ \A t \in Sessions \ {s} : SameSession(t)
    BY <1>1, <1>3, <2>1 DEF LockStep, SameSession
  <2> QED BY <1>1, <1>3, <2>2, <2>5, <2>6, LocalStep
<1> QED BY <1>2, <1>3 DEF CreateRow, UnlinkRow

-----------------------------------------------------------------------------
(* The commit.                                                              *)

\* The decision: the CN's row is the new one, and every worker has a part for it.
LEMMA DecideStep ==
    ASSUME ReplicaInv, NEW s \in Sessions, Decide(s)
    PROVE  ReplicaInv'
<1>1. /\ ShapeOK /\ SessionOK(s) /\ LocksApart /\ DoubtSound /\ Converging
      /\ pc[s] \in {"calls", "create"} /\ Called(s) /\ pc' = [pc EXCEPT ![s] = "decided"]
      /\ dir' = [dir EXCEPT ![CN] = Apply(@, ddir[s][CN], Absent)]
      /\ UNCHANGED <<nextId, indoubt, exclusive, job, known, turn, found, ddir, script>>
  BY DEF ReplicaInv, Decide, locks, parse, txn, faults
<1>2. /\ pc'[s] = "decided" /\ \A t \in Sessions \ {s} : SameSession(t)
      /\ pc' \in [Sessions -> {"start", "parse", "calls", "create", "decided", "done"}]
      /\ DOMAIN dir' = Servers /\ \A w \in Workers : dir'[w] = dir[w]
      /\ dir'[CN] = Apply(dir[CN], ddir[s][CN], Absent)
  BY <1>1, Places DEF ShapeOK, SameSession
<1>3. \A k : Row(dir'[CN], k, Absent) = IF k \in DOMAIN ddir[s][CN] THEN ddir[s][CN][k]
                                        ELSE Row(dir[CN], k, Absent)
  BY <1>2, RowOfApply
<1>4. ShapeOK' /\ LocksApart'
  BY <1>1, <1>2 DEF ShapeOK, LocksApart
<1>5. ASSUME NEW w \in Workers, NEW k \in DOMAIN ddir[s][CN] PROVE k \in DOMAIN ddir[s][w]
  <2>1. DOMAIN script[s][w] = {}
    BY <1>1, SeqEmpty DEF Called
  <2> QED BY <1>1, <2>1 DEF SessionOK, ScriptsSound
<1>6. SessionOK(s)'
  <2>1. RequestOK(s)' /\ DirtyLocked(s)' /\ FoundWritten(s)'
    BY <1>1, <1>2 DEF SessionOK, RequestOK, DirtyLocked, FoundWritten, InProgress, Undecided
  <2>2. WriteChanges(s)' /\ ScriptsSound(s)'
    BY <1>2 DEF WriteChanges, ScriptsSound, Undecided
  <2>3. PartsSound(s)'
    <3> SUFFICES ASSUME NEW w \in Workers, NEW k \in DOMAIN ddir[s][w]
        PROVE  /\ k \in DOMAIN ddir[s][CN] /\ ddir[s][w][k] = ddir[s][CN][k]
               /\ Row(dir[w], k, Absent) = Absent <=> ddir[s][w][k] # Absent
               /\ Row(dir'[CN], k, Absent) = ddir[s][w][k]
      BY <1>1, <1>2 DEF PartsSound
    <3> QED BY <1>1, <1>3 DEF SessionOK, PartsSound
  <2> QED BY <2>1, <2>2, <2>3 DEF SessionOK
<1>7. ASSUME NEW t \in Sessions \ {s} PROVE SessionOK(t)'
  <2>1. ASSUME NEW k, <<CN, k, t>> \in exclusive PROVE Row(dir'[CN], k, Absent) = Row(dir[CN], k, Absent)
    <3>1. k \notin DOMAIN ddir[s][CN]
      BY <1>7, <2>1, OneWriter, Places
    <3> QED BY <1>3, <3>1
  <2>2. SessionOK(t) /\ SameSession(t)
    BY <1>2, <1>7 DEF ReplicaInv
  <2> QED BY <1>1, <1>2, <2>1, <2>2, SessionKept
<1>8. DoubtSound'
  <2> SUFFICES ASSUME NEW d \in indoubt, NEW k \in DOMAIN d.dirs
      PROVE  /\ Row(dir'[CN], k, Absent) = d.dirs[k]
             /\ Row(dir'[d.w], k, Absent) = Absent <=> d.dirs[k] # Absent
             /\ \A t \in Sessions : k \notin DOMAIN ddir[t][d.w]
             /\ \A e \in indoubt : e.w = d.w /\ k \in DOMAIN e.dirs => e = d
    BY <1>1 DEF DoubtSound
  <2>1. d.w \in Workers
    BY <1>1 DEF ShapeOK
  <2>2. /\ Row(dir[CN], k, Absent) = d.dirs[k]
        /\ Row(dir[d.w], k, Absent) = Absent <=> d.dirs[k] # Absent
        /\ \A t \in Sessions : k \notin DOMAIN ddir[t][d.w]
        /\ \A e \in indoubt : e.w = d.w /\ k \in DOMAIN e.dirs => e = d
    BY <1>1 DEF DoubtSound
  <2>3. k \notin DOMAIN ddir[s][CN]
    BY <1>5, <2>1, <2>2
  <2> QED BY <1>2, <1>3, <2>1, <2>2, <2>3
<1>9. Converging'
  <2> SUFFICES ASSUME NEW w \in Workers, NEW k
      PROVE  \/ Row(dir'[w], k, Absent) = Row(dir'[CN], k, Absent)
             \/ \E t \in Sessions : pc'[t] = "decided" /\ k \in DOMAIN ddir[t][w]
             \/ \E d \in indoubt : d.w = w /\ k \in DOMAIN d.dirs
    BY <1>1 DEF Converging
  <2>1. CASE k \in DOMAIN ddir[s][CN]
    BY <1>2, <1>5, <2>1
  <2>2. CASE k \notin DOMAIN ddir[s][CN]
    <3>1. Row(dir'[CN], k, Absent) = Row(dir[CN], k, Absent) /\ dir'[w] = dir[w]
      BY <1>2, <1>3, <2>2
    <3>2. ASSUME NEW t \in Sessions, pc[t] = "decided" PROVE pc'[t] = "decided"
      BY <1>2, <3>2 DEF SameSession
    <3>3. \/ Row(dir[w], k, Absent) = Row(dir[CN], k, Absent)
          \/ \E t \in Sessions : pc[t] = "decided" /\ k \in DOMAIN ddir[t][w]
          \/ \E d \in indoubt : d.w = w /\ k \in DOMAIN d.dirs
      BY <1>1, ConvergingRows
    <3> QED BY <3>1, <3>2, <3>3
  <2> QED BY <2>1, <2>2
<1> QED BY <1>4, <1>6, <1>7, <1>8, <1>9 DEF ReplicaInv

\* What a session has left after the commit on a worker.
LEMMA PartForgotten ==
    ASSUME ReplicaInv, NEW s \in Sessions, NEW w \in Workers, ForgetPart(s, w)
    PROVE  /\ DOMAIN ddir' = Sessions /\ \A t \in Sessions : DOMAIN ddir'[t] = Servers
           /\ \A t \in Sessions \ {s} : ddir'[t] = ddir[t]
           /\ \A x \in Servers \ {w} : ddir'[s][x] = ddir[s][x]
           /\ DOMAIN ddir'[s][w] = {}
<1>1. ShapeOK /\ w \in Servers
  BY Places DEF ReplicaInv
<1>2. ddir'[s][w] = NoFun
  BY <1>1 DEF ShapeOK, ForgetPart
<1>3. /\ DOMAIN ddir' = Sessions /\ \A t \in Sessions : DOMAIN ddir'[t] = Servers
      /\ \A t \in Sessions \ {s} : ddir'[t] = ddir[t]
      /\ \A x \in Servers \ {w} : ddir'[s][x] = ddir[s][x]
  BY <1>1 DEF ShapeOK, ForgetPart
<1> QED BY <1>2, <1>3, Places

\* The committing session itself, which keeps its locks on the CN.
LEMMA CommitterKept ==
    ASSUME ReplicaInv, NEW s \in Sessions, NEW w \in Workers, ForgetPart(s, w), pc[s] = "decided",
           NEW svs, CN \notin svs, ReleaseOn(s, svs),
           \A x \in Servers \ {w} : dir'[x] = dir[x],
           UNCHANGED <<pc, job, known, turn, found, script>>
    PROVE  SessionOK(s)'
<1>1. SessionOK(s)
  BY DEF ReplicaInv
<1>2. /\ ddir'[s][CN] = ddir[s][CN] /\ DOMAIN ddir'[s][w] = {}
      /\ \A x \in Workers \ {w} : ddir'[s][x] = ddir[s][x] /\ dir'[x] = dir[x]
      /\ dir'[CN] = dir[CN]
  BY PartForgotten, Places
<1>3. RequestOK(s)' /\ FoundWritten(s)' /\ WriteChanges(s)' /\ ScriptsSound(s)'
  BY <1>1 DEF SessionOK, RequestOK, FoundWritten, WriteChanges, ScriptsSound, Undecided
<1>4. DirtyLocked(s)'
  <2>1. \A k : <<CN, k, s>> \in exclusive => <<CN, k, s>> \in exclusive'
    BY Releases
  <2> QED BY <1>1, <1>2, <2>1 DEF SessionOK, DirtyLocked
<1>5. PartsSound(s)'
  <2> SUFFICES ASSUME NEW x \in Workers, NEW k \in DOMAIN ddir'[s][x]
      PROVE  /\ k \in DOMAIN ddir'[s][CN] /\ ddir'[s][x][k] = ddir'[s][CN][k]
             /\ Row(dir'[x], k, Absent) = Absent <=> ddir'[s][x][k] # Absent
             /\ Row(dir'[CN], k, Absent) = ddir'[s][x][k]
    BY DEF PartsSound
  <2>1. x # w
    BY <1>2
  <2>2. k \in DOMAIN ddir[s][x] /\ ddir'[s][x] = ddir[s][x] /\ dir'[x] = dir[x]
    BY <1>2, <2>1
  <2>3. PartsSound(s)
    BY <1>1 DEF SessionOK
  <2> QED BY <1>2, <2>2, <2>3 DEF PartsSound
<1> QED BY <1>3, <1>4, <1>5 DEF SessionOK

\* COMMIT PREPARED: the worker's row becomes the CN's.
LEMMA CommitOnStep ==
    ASSUME ReplicaInv, NEW s \in Sessions, NEW w \in Workers, CommitOn(s, w)
    PROVE  ReplicaInv'
<1>1. /\ ShapeOK /\ SessionOK(s) /\ LocksApart /\ DoubtSound /\ Converging
      /\ pc[s] = "decided" /\ dir' = [dir EXCEPT ![w] = Apply(@, ddir[s][w], Absent)]
      /\ ForgetPart(s, w) /\ ReleaseOn(s, {w} \ {Site[s]}) /\ CN \notin {w} \ {Site[s]}
      /\ UNCHANGED <<nextId, indoubt, pc, job, known, turn, found, script>>
  BY Places DEF ReplicaInv, CommitOn, parse, faults
<1>2. /\ DOMAIN dir' = Servers /\ \A x \in Servers \ {w} : dir'[x] = dir[x]
      /\ dir'[w] = Apply(dir[w], ddir[s][w], Absent) /\ dir'[CN] = dir[CN]
  BY <1>1, Places DEF ShapeOK
<1>3. \A k : Row(dir'[w], k, Absent) = IF k \in DOMAIN ddir[s][w] THEN ddir[s][w][k]
                                       ELSE Row(dir[w], k, Absent)
  BY <1>2, RowOfApply
<1>4. /\ DOMAIN ddir' = Sessions /\ \A t \in Sessions : DOMAIN ddir'[t] = Servers
      /\ \A t \in Sessions \ {s} : ddir'[t] = ddir[t]
      /\ \A x \in Workers \ {w} : ddir'[s][x] = ddir[s][x] /\ dir'[x] = dir[x]
      /\ DOMAIN ddir'[s][w] = {}
  BY <1>1, <1>2, PartForgotten, Places
<1>5. ShapeOK'
  BY <1>1, <1>2, <1>4 DEF ShapeOK
<1>6. /\ LockStep(s)
      /\ \A t \in Sessions \ {s} : \A k : <<CN, k, t>> \in exclusive => <<CN, k, t>> \in exclusive'
  BY <1>1, Releases
<1>7. LocksApart'
  BY <1>1, <1>6, LocksStayApart
<1>8. SessionOK(s)'
  BY <1>1, <1>2, CommitterKept
<1>9. ASSUME NEW t \in Sessions \ {s} PROVE SessionOK(t)'
  <2>1. ASSUME NEW k, <<CN, k, t>> \in exclusive
        PROVE  /\ Row(dir'[CN], k, Absent) = Row(dir[CN], k, Absent)
               /\ \A x \in Workers : Row(dir'[x], k, Absent) = Row(dir[x], k, Absent)
    <3>1. k \notin DOMAIN ddir[s][w]
      BY <1>9, <2>1, OneWriter, Places
    <3> QED BY <1>2, <1>3, <1>4, <3>1
  <2>2. SessionOK(t) /\ SameSession(t)
    BY <1>1, <1>4, <1>9 DEF ReplicaInv, SameSession
  <2> QED BY <1>6, <1>9, <2>1, <2>2, SessionKept
<1>10. DoubtSound'
  <2> SUFFICES ASSUME NEW d \in indoubt, NEW k \in DOMAIN d.dirs
      PROVE  /\ Row(dir'[CN], k, Absent) = d.dirs[k]
             /\ Row(dir'[d.w], k, Absent) = Absent <=> d.dirs[k] # Absent
             /\ \A t \in Sessions : k \notin DOMAIN ddir'[t][d.w]
             /\ \A e \in indoubt : e.w = d.w /\ k \in DOMAIN e.dirs => e = d
    BY <1>1 DEF DoubtSound
  <2>1. d.w \in Workers
    BY <1>1 DEF ShapeOK
  <2>2. /\ Row(dir[CN], k, Absent) = d.dirs[k]
        /\ Row(dir[d.w], k, Absent) = Absent <=> d.dirs[k] # Absent
        /\ \A t \in Sessions : k \notin DOMAIN ddir[t][d.w]
        /\ \A e \in indoubt : e.w = d.w /\ k \in DOMAIN e.dirs => e = d
    BY <1>1 DEF DoubtSound
  <2>3. \A t \in Sessions : k \notin DOMAIN ddir'[t][d.w]
    BY <1>4, <2>1, <2>2
  <2>4. Row(dir'[d.w], k, Absent) = Row(dir[d.w], k, Absent)
    BY <1>3, <1>4, <2>1, <2>2
  <2> QED BY <1>2, <2>2, <2>3, <2>4
<1>11. Converging'
  <2> SUFFICES ASSUME NEW x \in Workers, NEW k
      PROVE  \/ Row(dir'[x], k, Absent) = Row(dir'[CN], k, Absent)
             \/ \E t \in Sessions : pc[t] = "decided" /\ k \in DOMAIN ddir'[t][x]
             \/ \E d \in indoubt : d.w = x /\ k \in DOMAIN d.dirs
    BY <1>1 DEF Converging
  <2>1. CASE x = w /\ k \in DOMAIN ddir[s][w]
    <3>1. Row(dir[CN], k, Absent) = ddir[s][w][k]
      BY <1>1, <2>1 DEF SessionOK, PartsSound
    <3> QED BY <1>2, <1>3, <2>1, <3>1
  <2>2. CASE ~(x = w /\ k \in DOMAIN ddir[s][w])
    <3>1. Row(dir'[x], k, Absent) = Row(dir[x], k, Absent) /\ dir'[CN] = dir[CN]
      BY <1>2, <1>3, <1>4, <2>2
    <3>2. ASSUME NEW t \in Sessions, k \in DOMAIN ddir[t][x] PROVE k \in DOMAIN ddir'[t][x]
      BY <1>4, <2>2, <3>2
    <3>3. \/ Row(dir[x], k, Absent) = Row(dir[CN], k, Absent)
          \/ \E t \in Sessions : pc[t] = "decided" /\ k \in DOMAIN ddir[t][x]
          \/ \E d \in indoubt : d.w = x /\ k \in DOMAIN d.dirs
      BY <1>1, ConvergingRows
    <3> QED BY <3>1, <3>2, <3>3
  <2> QED BY <2>1, <2>2
<1> QED BY <1>5, <1>7, <1>8, <1>9, <1>10, <1>11 DEF ReplicaInv

\* A lost COMMIT PREPARED: the part is in doubt in place of the session's.
LEMMA LoseCommitStep ==
    ASSUME ReplicaInv, NEW s \in Sessions, NEW w \in Workers, LoseCommit(s, w)
    PROVE  ReplicaInv'
<1> DEFINE n == [w |-> w, dirs |-> ddir[s][w], rows |-> PartRows(s, w)]
<1>1. /\ ShapeOK /\ SessionOK(s) /\ LocksApart /\ DoubtSound /\ Converging
      /\ pc[s] = "decided" /\ indoubt' = indoubt \cup {n} /\ n.w = w /\ n.dirs = ddir[s][w]
      /\ ForgetPart(s, w) /\ ReleaseOn(s, {w}) /\ CN \notin {w}
      /\ UNCHANGED <<dir, nextId, pc, job, known, turn, found, script>>
  BY Places DEF ReplicaInv, LoseCommit, tables, parse
<1> HIDE DEF n
<1>2. /\ DOMAIN ddir' = Sessions /\ \A t \in Sessions : DOMAIN ddir'[t] = Servers
      /\ \A t \in Sessions \ {s} : ddir'[t] = ddir[t]
      /\ \A x \in Workers \ {w} : ddir'[s][x] = ddir[s][x]
      /\ DOMAIN ddir'[s][w] = {}
  BY <1>1, PartForgotten, Places
<1>3. ShapeOK'
  BY <1>1, <1>2 DEF ShapeOK
<1>4. /\ LockStep(s)
      /\ \A t \in Sessions \ {s} : \A k : <<CN, k, t>> \in exclusive => <<CN, k, t>> \in exclusive'
  BY <1>1, Releases
<1>5. LocksApart'
  BY <1>1, <1>4, LocksStayApart
<1>6. SessionOK(s)'
  BY <1>1, CommitterKept
<1>7. ASSUME NEW t \in Sessions \ {s} PROVE SessionOK(t)'
  <2>1. SessionOK(t) /\ SameSession(t)
    BY <1>1, <1>2, <1>7 DEF ReplicaInv, SameSession
  <2> QED BY <1>1, <1>4, <1>7, <2>1, SessionKept
<1>8. ASSUME NEW t \in Sessions, NEW k, k \in DOMAIN ddir[s][w], k \in DOMAIN ddir[t][w] PROVE t = s
  <2>1. k \in DOMAIN ddir[t][CN]
    BY <1>8 DEF ReplicaInv, SessionOK, PartsSound
  <2>2. <<CN, k, t>> \in exclusive
    BY <2>1 DEF ReplicaInv, SessionOK, DirtyLocked
  <2> QED BY <1>8, <2>2, OneWriter, Places
<1>9. \A t \in Sessions : \A x \in Workers : DOMAIN ddir'[t][x] \subseteq DOMAIN ddir[t][x]
  <2> SUFFICES ASSUME NEW t \in Sessions, NEW x \in Workers
      PROVE  DOMAIN ddir'[t][x] \subseteq DOMAIN ddir[t][x]
    OBVIOUS
  <2>1. CASE t = s /\ x = w
    BY <1>2, <2>1
  <2>2. CASE t # s \/ x # w
    BY <1>2, <2>2
  <2> QED BY <2>1, <2>2
<1>10. DoubtSound'
  <2> SUFFICES ASSUME NEW d \in indoubt', NEW k \in DOMAIN d.dirs
      PROVE  /\ Row(dir[CN], k, Absent) = d.dirs[k]
             /\ Row(dir[d.w], k, Absent) = Absent <=> d.dirs[k] # Absent
             /\ \A t \in Sessions : k \notin DOMAIN ddir'[t][d.w]
             /\ \A e \in indoubt' : e.w = d.w /\ k \in DOMAIN e.dirs => e = d
    BY <1>1 DEF DoubtSound
  <2>1. CASE d \in indoubt
    <3>1. /\ d.w \in Workers
          /\ Row(dir[CN], k, Absent) = d.dirs[k]
          /\ Row(dir[d.w], k, Absent) = Absent <=> d.dirs[k] # Absent
          /\ \A t \in Sessions : k \notin DOMAIN ddir[t][d.w]
          /\ \A e \in indoubt : e.w = d.w /\ k \in DOMAIN e.dirs => e = d
      BY <1>1, <2>1 DEF DoubtSound, ShapeOK
    <3>2. n.w = d.w => k \notin DOMAIN n.dirs
      BY <1>1, <3>1
    <3> QED BY <1>1, <1>9, <3>1, <3>2
  <2>2. CASE d = n
    <3>1. d.w = w /\ d.dirs = ddir[s][w] /\ k \in DOMAIN ddir[s][w]
      BY <1>1, <2>2
    <3>2. /\ Row(dir[CN], k, Absent) = ddir[s][w][k]
          /\ Row(dir[w], k, Absent) = Absent <=> ddir[s][w][k] # Absent
      BY <1>1, <3>1 DEF SessionOK, PartsSound
    <3>3. \A t \in Sessions : k \notin DOMAIN ddir'[t][w]
      BY <1>2, <1>8, <3>1
    <3>4. \A e \in indoubt : ~(e.w = w /\ k \in DOMAIN e.dirs)
      BY <1>1, <3>1 DEF DoubtSound
    <3> QED BY <1>1, <2>2, <3>1, <3>2, <3>3, <3>4
  <2> QED BY <1>1, <2>1, <2>2
<1>11. Converging'
  <2> SUFFICES ASSUME NEW x \in Workers, NEW k, Row(dir[x], k, Absent) # Row(dir[CN], k, Absent)
      PROVE  \/ \E t \in Sessions : pc[t] = "decided" /\ k \in DOMAIN ddir'[t][x]
             \/ \E d \in indoubt' : d.w = x /\ k \in DOMAIN d.dirs
    BY <1>1 DEF Converging
  <2>1. CASE x = w /\ k \in DOMAIN ddir[s][w]
    BY <1>1, <2>1
  <2>2. CASE ~(x = w /\ k \in DOMAIN ddir[s][w])
    <3>1. ASSUME NEW t \in Sessions, k \in DOMAIN ddir[t][x] PROVE k \in DOMAIN ddir'[t][x]
      BY <1>2, <2>2, <3>1
    <3>2. \/ \E t \in Sessions : pc[t] = "decided" /\ k \in DOMAIN ddir[t][x]
          \/ \E d \in indoubt : d.w = x /\ k \in DOMAIN d.dirs
      BY <1>1, ConvergingRows
    <3> QED BY <1>1, <3>1, <3>2
  <2> QED BY <2>1, <2>2
<1> QED BY <1>3, <1>5, <1>6, <1>7, <1>10, <1>11 DEF ReplicaInv

\* The daemon commits a part in doubt: no other part on the worker has its rows,
\* also when a session has locked them on the CN in the meantime.
LEMMA CleanupStep ==
    ASSUME ReplicaInv, NEW d \in indoubt, CleanupDaemonCommits(d)
    PROVE  ReplicaInv'
<1> DEFINE w == d.w
<1>1. /\ ShapeOK /\ LocksApart /\ DoubtSound /\ Converging /\ w \in Workers
      /\ dir' = [dir EXCEPT ![w] = Apply(@, d.dirs, Absent)] /\ indoubt' = indoubt \ {d}
      /\ UNCHANGED <<nextId, exclusive, pc, job, known, turn, found, ddir, script>>
  BY DEF ReplicaInv, ShapeOK, CleanupDaemonCommits, locks, parse, txn
<1>2. /\ DOMAIN dir' = Servers /\ \A x \in Workers \ {w} : dir'[x] = dir[x]
      /\ dir'[w] = Apply(dir[w], d.dirs, Absent) /\ dir'[CN] = dir[CN]
  BY <1>1, Places DEF ShapeOK
<1>3. \A k : Row(dir'[w], k, Absent) = IF k \in DOMAIN d.dirs THEN d.dirs[k] ELSE Row(dir[w], k, Absent)
  BY <1>2, RowOfApply
<1> HIDE DEF w
<1>4. \A x \in Workers : \A k : x # w \/ k \notin DOMAIN d.dirs => Row(dir'[x], k, Absent) = Row(dir[x], k, Absent)
  BY <1>2, <1>3
<1>5. ShapeOK' /\ LocksApart'
  BY <1>1, <1>2 DEF ShapeOK, LocksApart
<1>6. ASSUME NEW t \in Sessions PROVE SessionOK(t)'
  <2>1. ASSUME NEW x \in Workers, NEW k \in DOMAIN ddir[t][x]
        PROVE  Row(dir'[x], k, Absent) = Row(dir[x], k, Absent)
    <3>1. x # w \/ k \notin DOMAIN d.dirs
      BY <1>1, <2>1 DEF DoubtSound, w
    <3> QED BY <1>4, <3>1
  <2>2. SessionOK(t) /\ SameSession(t)
    BY <1>1 DEF ReplicaInv, SameSession
  <2> QED BY <1>1, <1>2, <2>1, <2>2, SessionKept
<1>7. DoubtSound'
  <2> SUFFICES ASSUME NEW e \in indoubt, e # d, NEW k \in DOMAIN e.dirs
      PROVE  /\ Row(dir'[CN], k, Absent) = e.dirs[k]
             /\ Row(dir'[e.w], k, Absent) = Absent <=> e.dirs[k] # Absent
             /\ \A t \in Sessions : k \notin DOMAIN ddir[t][e.w]
             /\ \A g \in indoubt : g.w = e.w /\ k \in DOMAIN g.dirs => g = e
    BY <1>1 DEF DoubtSound
  <2>1. /\ e.w \in Workers
        /\ Row(dir[CN], k, Absent) = e.dirs[k]
        /\ Row(dir[e.w], k, Absent) = Absent <=> e.dirs[k] # Absent
        /\ \A t \in Sessions : k \notin DOMAIN ddir[t][e.w]
        /\ \A g \in indoubt : g.w = e.w /\ k \in DOMAIN g.dirs => g = e
    BY <1>1 DEF DoubtSound, ShapeOK
  <2>2. e.w # w \/ k \notin DOMAIN d.dirs
    BY <2>1 DEF w
  <2> QED BY <1>2, <1>4, <2>1, <2>2
<1>8. Converging'
  <2> SUFFICES ASSUME NEW x \in Workers, NEW k
      PROVE  \/ Row(dir'[x], k, Absent) = Row(dir'[CN], k, Absent)
             \/ \E t \in Sessions : pc[t] = "decided" /\ k \in DOMAIN ddir[t][x]
             \/ \E e \in indoubt' : e.w = x /\ k \in DOMAIN e.dirs
    BY <1>1 DEF Converging
  <2>1. CASE x = w /\ k \in DOMAIN d.dirs
    <3>1. Row(dir[CN], k, Absent) = d.dirs[k]
      BY <1>1, <2>1 DEF DoubtSound
    <3> QED BY <1>2, <1>3, <2>1, <3>1
  <2>2. CASE x # w \/ k \notin DOMAIN d.dirs
    <3>1. Row(dir'[x], k, Absent) = Row(dir[x], k, Absent) /\ dir'[CN] = dir[CN]
      BY <1>2, <1>4, <2>2
    <3>2. \/ Row(dir[x], k, Absent) = Row(dir[CN], k, Absent)
          \/ \E t \in Sessions : pc[t] = "decided" /\ k \in DOMAIN ddir[t][x]
          \/ \E e \in indoubt : e.w = x /\ k \in DOMAIN e.dirs
      BY <1>1, ConvergingRows
    <3>3. ASSUME NEW e \in indoubt, e.w = x, k \in DOMAIN e.dirs PROVE e \in indoubt'
      BY <1>1, <2>2, <3>3 DEF w
    <3> QED BY <3>1, <3>2, <3>3
  <2> QED BY <2>1, <2>2
<1> QED BY <1>5, <1>6, <1>7, <1>8 DEF ReplicaInv

-----------------------------------------------------------------------------
\* Every step of the system preserves the invariant.
LEMMA NextReplicas ==
    ASSUME ReplicaInv, [Next]_vars
    PROVE  ReplicaInv'
<1>1. ASSUME NEW s \in Sessions, Step(s) PROVE ReplicaInv'
  <2>1. CASE Begin(s)
    BY <2>1, BeginStep
  <2>2. CASE Parse(s)
    BY <2>2, ComponentStep, NewDirectoryStep, OldDirectoryStep, FileStep DEF Parse
  <2>3. CASE Calls(s)
    BY <2>3, MkdirCallsStep, RmdirCallsStep, RenameCallsStep, RenameSecondCallStep DEF Calls
  <2>4. CASE CreateRow(s) \/ UnlinkRow(s)
    BY <2>4, FileRowStep
  <2>5. CASE Decide(s) \/ Finish(s)
    BY <2>5, DecideStep, FinishStep
  <2>6. CASE \E w \in Workers : SubStep(s, w) \/ CommitOn(s, w)
    BY <2>6, SubStepStep, CommitOnStep
  <2> QED BY <1>1, <2>1, <2>2, <2>3, <2>4, <2>5, <2>6 DEF Step
<1>2. ASSUME NEW s \in Sessions, StatementFails(s) \/ \E w \in Workers : LoseCommit(s, w) PROVE ReplicaInv'
  BY <1>2, FailsStep, LoseCommitStep
<1>3. ASSUME NEW d \in indoubt, CleanupDaemonCommits(d) PROVE ReplicaInv'
  BY <1>3, CleanupStep
<1>4. CASE UNCHANGED vars
  <2>1. UNCHANGED <<dir, nextId, exclusive, pc, job, known, turn, found, ddir, script, indoubt>>
    BY <1>4 DEF vars, tables, locks, parse, txn, faults
  <2>2. ShapeOK' /\ LocksApart' /\ DoubtSound' /\ Converging'
    BY <2>1 DEF ReplicaInv, ShapeOK, LocksApart, DoubtSound, Converging
  <2>3. ASSUME NEW t \in Sessions PROVE SessionOK(t)'
    <3>1. SameSession(t) /\ SessionOK(t)
      BY <2>1 DEF ReplicaInv, SameSession
    <3> QED BY <2>1, <3>1, SessionKept
  <2> QED BY <2>2, <2>3 DEF ReplicaInv
<1> QED BY <1>1, <1>2, <1>3, <1>4 DEF Next

\* ReplicaInv is an invariant of the specification, whatever the numbers of
\* sessions, workers, failed statements and lost commits.
THEOREM ReplicaInvariance == Spec => []ReplicaInv
<1>1. Init => ReplicaInv
  BY InitReplicas
<1>2. ReplicaInv /\ [Next]_vars => ReplicaInv'
  BY NextReplicas
<1> QED BY <1>1, <1>2, PTL DEF Spec

\* A row of a worker's directory table differs from the CN's only while an
\* operation holds the directory's lock on the CN, or a part with it is in doubt:
\* no order of the sub-handlers, their failures, the commits on the workers, the
\* commits that are lost and those of the cleanup daemon leaves the copies apart.
THEOREM ReplicasHold == Spec => []ReplicasAgree
<1>1. ReplicaInv => ReplicasAgree
  BY AgreeFollows
<1> QED BY <1>1, ReplicaInvariance, PTL

-----------------------------------------------------------------------------
(* An inode has one name.                                                   *)

\* The constants' types.
LEMMA Typing ==
    /\ CN \in Servers /\ Workers \subseteq Servers
    /\ MaxId \in Nat /\ Root \in Ids /\ Absent \notin Ids /\ Root = 0
    /\ NoRow \notin Rows /\ NoRow.id = Root /\ NoRow.isDir = FALSE
    /\ \A r \in Rows : r.id \in Ids \ {Root}
BY NamespaceAssumptions DEF Servers, Ids, Root, Absent, NoRow, Rows

\* Everything of a session is as it was.
SameAll(t) ==
    /\ pc'[t] = pc[t] /\ job'[t] = job[t] /\ known'[t] = known[t] /\ turn'[t] = turn[t]
    /\ depth'[t] = depth[t] /\ at'[t] = at[t] /\ tree'[t] = tree[t] /\ found'[t] = found[t]
    /\ ddir'[t] = ddir[t] /\ drow'[t] = drow[t] /\ script'[t] = script[t] /\ moved'[t] = moved[t]

\* Then its types are right, and what it has written is.
LEMMA NamesKept ==
    ASSUME NEW t \in Sessions, SameAll(t), ParseTyped(t), TxnTyped(t), RowsSound(t),
           \A k \in DOMAIN drow[t] : k \in DOMAIN inode => k \in DOMAIN inode' /\ inode'[k] = inode[k]
    PROVE  ParseTyped(t)' /\ TxnTyped(t)' /\ RowsSound(t)'
<1>1. ParseTyped(t)'
  BY DEF SameAll, ParseTyped, RenamesDir
<1>2. TxnTyped(t)'
  BY DEF SameAll, TxnTyped
<1>3. RenameRows(t)' /\ RenameOrder(t)'
  <2>1. Src(t)' = Src(t) /\ Dst(t)' = Dst(t)
    BY DEF SameAll, Src, Dst
  <2>2. RenameRows(t) /\ RenameOrder(t)
    BY DEF RowsSound
  <2>3. RenameRows(t)'
    BY <2>1, <2>2 DEF SameAll, RenameRows
  <2>4. RenameOrder(t)'
    BY <2>1, <2>2 DEF SameAll, RenameOrder
  <2> QED BY <2>3, <2>4
<1>4. RowsSound(t)'
  BY <1>3 DEF SameAll, RowsSound
<1> QED BY <1>1, <1>2, <1>4

\* A session's pending names are its own.
LEMMA PendingKept ==
    ASSUME NEW t \in Sessions, SameAll(t), NEW k, NEW id
    PROVE  Pending(t, k, id)' <=> Pending(t, k, id)
BY DEF SameAll, Pending

\* No step of undecided transactions changes what there is in the end.
LEMMA FinalKept ==
    ASSUME NEW s \in Sessions, \A t \in Sessions \ {s} : SameAll(t),
           inode' = inode, indoubt' = indoubt,
           pc[s] # "decided" /\ pc'[s] # "decided", NEW k, NEW row
    PROVE  Final(k, row)' <=> Final(k, row)
<1>1. \A t \in Sessions : pc'[t] = "decided" <=> pc[t] = "decided"
  BY DEF SameAll
<1>2. \A t \in Sessions : pc[t] = "decided" => drow'[t] = drow[t]
  BY DEF SameAll
<1>3. (\E t \in Sessions : pc'[t] = "decided" /\ k \in DOMAIN drow'[t] /\ drow'[t][k] = row)
      <=> (\E t \in Sessions : pc[t] = "decided" /\ k \in DOMAIN drow[t] /\ drow[t][k] = row)
  BY <1>1, <1>2
<1>4. (\A t \in Sessions : pc'[t] = "decided" => k \notin DOMAIN drow'[t])
      <=> (\A t \in Sessions : pc[t] = "decided" => k \notin DOMAIN drow[t])
  BY <1>1, <1>2
<1> QED BY <1>3, <1>4 DEF Final

\* When that is so and there is no new pending id but a fresh one, all ids stay apart.
LEMMA IdsStayApart ==
    ASSUME NameInv, TablesTyped', \A k, row : Final(k, row)' <=> Final(k, row),
           nextId <= nextId', NEW s, NEW fresh,
           \A t \in Sessions : \A k, id : Pending(t, k, id)' =>
               \/ Pending(t, k, id)
               \/ t = s /\ k = fresh /\ id = nextId /\ nextId' = nextId + 1
    PROVE  FinalApart' /\ \A t \in Sessions : PendingApart(t)'
<1>0. nextId \in Nat /\ nextId' \in Nat /\ Ids \subseteq Nat /\ \A r \in Rows : r.id \in Nat
  <2>1. nextId \in 1..(MaxId + 1) /\ nextId' \in 1..(MaxId + 1)
    BY DEF NameInv, TablesTyped
  <2>4. nextId \in Nat /\ nextId' \in Nat
    BY <2>1, Typing
  <2>2. Ids \subseteq Nat
    BY Typing DEF Ids
  <2>3. \A r \in Rows : r.id \in Ids
    BY Typing
  <2> QED BY <2>2, <2>3, <2>4
<1>1. FinalApart'
  <2> SUFFICES ASSUME NEW k \in Keys, NEW row \in Rows, Final(k, row)'
      PROVE  /\ row.id < nextId'
             /\ \A m \in Keys : \A other \in Rows : Final(m, other)' /\ other.id = row.id => m = k
    BY DEF FinalApart
  <2>1. Final(k, row)
    OBVIOUS
  <2>2. /\ row.id < nextId
        /\ \A m \in Keys : \A other \in Rows : Final(m, other) /\ other.id = row.id => m = k
    BY <2>1 DEF NameInv, FinalApart
  <2> QED BY <1>0, <2>2
<1>3. ASSUME NEW t \in Sessions, NEW k \in Keys, NEW id \in Ids, Pending(t, k, id)'
      PROVE  /\ id < nextId'
             /\ \A m \in Keys : \A row \in Rows : Final(m, row)' => row.id # id
             /\ \A u \in Sessions : \A m \in Keys : Pending(u, m, id)' => u = t /\ m = k
  <2>1. CASE Pending(t, k, id)
    <3>1. /\ id < nextId
          /\ \A m \in Keys : \A row \in Rows : Final(m, row) => row.id # id
          /\ \A u \in Sessions : \A m \in Keys : Pending(u, m, id) => u = t /\ m = k
      BY <2>1 DEF NameInv, PendingApart
    <3>2. id < nextId' /\ id # nextId
      BY <1>0, <3>1
    <3> QED BY <3>1, <3>2
  <2>2. CASE t = s /\ k = fresh /\ id = nextId /\ nextId' = nextId + 1
    <3>1. id < nextId'
      BY <1>0, <2>2
    <3>2. ASSUME NEW m \in Keys, NEW row \in Rows, Final(m, row)' PROVE row.id # id
      <4>1. row.id < nextId
        BY <3>2 DEF NameInv, FinalApart
      <4> QED BY <1>0, <2>2, <4>1
    <3>3. ASSUME NEW u \in Sessions, NEW m \in Keys, Pending(u, m, id)' PROVE u = t /\ m = k
      <4>1. ~ Pending(u, m, id)
        <5>1. Pending(u, m, id) => id < nextId
          BY DEF NameInv, PendingApart
        <5> QED BY <1>0, <2>2, <5>1
      <4> QED BY <2>2, <3>3, <4>1
    <3> QED BY <3>1, <3>2, <3>3
  <2> QED BY <1>3, <2>1, <2>2
<1>4. \A t \in Sessions : PendingApart(t)'
  BY <1>3 DEF PendingApart
<1> QED BY <1>1, <1>4

\* Rows are written when no other transaction has written them.
LEMMA WritersApart ==
    ASSUME OneRowWriter, NEW s \in Sessions, \A t \in Sessions \ {s} : SameAll(t), indoubt' = indoubt,
           \A k \in DOMAIN drow'[s] : k \in DOMAIN drow[s] \/ RowIsFree(s, k)
    PROVE  OneRowWriter'
<1>1. \A t \in Sessions : \A k \in DOMAIN drow'[t] : k \in DOMAIN drow[t] \/ (t = s /\ RowIsFree(s, k))
  BY DEF SameAll
<1>2. ASSUME NEW t \in Sessions, NEW u \in Sessions, NEW k \in DOMAIN drow'[t], k \in DOMAIN drow'[u]
      PROVE  t = u
  <2>1. k \in DOMAIN drow[t] /\ k \in DOMAIN drow[u] => t = u
    BY DEF OneRowWriter
  <2>2. ASSUME RowIsFree(s, k), NEW o \in Sessions, k \in DOMAIN drow[o] PROVE o = s
    BY <2>2 DEF RowIsFree
  <2> QED BY <1>1, <1>2, <2>1, <2>2
<1>3. ASSUME NEW d \in indoubt, NEW k \in DOMAIN d.rows
      PROVE  /\ \A t \in Sessions : k \notin DOMAIN drow'[t]
             /\ \A e \in indoubt : k \in DOMAIN e.rows => e = d
  BY <1>1 DEF OneRowWriter, RowIsFree
<1> QED BY <1>2, <1>3 DEF OneRowWriter

\* A step of one session that decides nothing.
LEMMA NameStep ==
    ASSUME NameInv, NEW s \in Sessions, \A t \in Sessions \ {s} : SameAll(t),
           inode' = inode, indoubt' = indoubt, pc[s] # "decided" /\ pc'[s] # "decided",
           TablesTyped', ParseTyped(s)', TxnTyped(s)', RowsSound(s)',
           \A k \in DOMAIN drow'[s] : k \in DOMAIN drow[s] \/ RowIsFree(s, k),
           nextId <= nextId', NEW fresh,
           \A k, id : Pending(s, k, id)' =>
               \/ Pending(s, k, id)
               \/ k = fresh /\ id = nextId /\ nextId' = nextId + 1
    PROVE  NameInv'
<1>1. \A k, row : Final(k, row)' <=> Final(k, row)
  BY FinalKept
<1>5. \A t \in Sessions : \A k, id : Pending(t, k, id)' =>
          Pending(t, k, id) \/ (t = s /\ k = fresh /\ id = nextId /\ nextId' = nextId + 1)
  BY PendingKept
<1>2. FinalApart' /\ \A t \in Sessions : PendingApart(t)'
  BY <1>1, <1>5, IdsStayApart
<1>3. OneRowWriter'
  BY WritersApart DEF NameInv
<1>4. ASSUME NEW t \in Sessions PROVE ParseTyped(t)' /\ TxnTyped(t)' /\ RowsSound(t)'
  <2>1. CASE t = s
    BY <2>1
  <2>2. CASE t # s
    BY <2>2, NamesKept DEF NameInv
  <2> QED BY <2>1, <2>2
<1> QED BY <1>2, <1>3, <1>4 DEF NameInv

-----------------------------------------------------------------------------
(* The steps of a session before its decision.                              *)

\* Every variable of the sessions has an entry for each.
PerSession ==
    /\ DOMAIN pc = Sessions /\ DOMAIN job = Sessions /\ DOMAIN known = Sessions
    /\ DOMAIN turn = Sessions /\ DOMAIN depth = Sessions /\ DOMAIN at = Sessions
    /\ DOMAIN tree = Sessions /\ DOMAIN found = Sessions /\ DOMAIN ddir = Sessions
    /\ DOMAIN drow = Sessions /\ DOMAIN script = Sessions /\ DOMAIN moved = Sessions

\* The invariants say so.
LEMMA EntriesThere == ASSUME ReplicaInv, NameInv PROVE PerSession
<1>1. ShapeOK /\ TablesTyped
  BY DEF ReplicaInv, NameInv
<1>2. DOMAIN pc = Sessions /\ DOMAIN turn = Sessions
  BY <1>1 DEF ShapeOK
<1> QED BY <1>1, <1>2 DEF ShapeOK, TablesTyped, PerSession

\* Locks that are released leave locks of the right type.
LEMMA ReleaseTyped ==
    ASSUME TablesTyped, NEW s, NEW svs, ReleaseOn(s, svs)
    PROVE  shared' \subseteq Servers \X Keys \X Sessions /\ exclusive' \subseteq Servers \X Keys \X Sessions
<1>1. shared' \subseteq shared /\ exclusive' \subseteq exclusive
  BY DEF ReleaseOn
<1> QED BY <1>1 DEF TablesTyped

\* So do locks that are taken.
LEMMA LockTyped ==
    ASSUME TablesTyped, NEW s \in Sessions, NEW sv \in Servers, NEW k \in Keys,
           LockShared(s, sv, k) \/ LockExclusive(s, sv, k)
    PROVE  shared' \subseteq Servers \X Keys \X Sessions /\ exclusive' \subseteq Servers \X Keys \X Sessions
<1>1. shared' \subseteq shared \cup {<<sv, k, s>>} /\ exclusive' \subseteq exclusive \cup {<<sv, k, s>>}
  BY DEF LockShared, LockExclusive
<1>2. <<sv, k, s>> \in Servers \X Keys \X Sessions
  OBVIOUS
<1> QED BY <1>1, <1>2 DEF TablesTyped

\* No function is of the wrong type if it is empty.
LEMMA EmptyTyped == KeyedIds(NoFun) /\ KeyedRows(NoFun) /\ DOMAIN NoFun = {}
BY DEF KeyedIds, KeyedRows, NoFun

\* What is left of a transaction that has ended without effect.
Dropped(s) ==
    /\ pc' = [pc EXCEPT ![s] = "done"]
    /\ ReleaseOn(s, Servers)
    /\ ddir' = [ddir EXCEPT ![s] = [sv \in Servers |-> NoFun]]
    /\ drow' = [drow EXCEPT ![s] = NoFun]
    /\ script' = [script EXCEPT ![s] = [w \in Workers |-> <<>>]]
    /\ UNCHANGED <<tables, job, known, parse, moved, indoubt, lost>>

\* The end of a transaction without effect keeps the names apart.
LEMMA DroppedNames ==
    ASSUME ReplicaInv, NameInv, NEW s \in Sessions, pc[s] \in Undecided, Dropped(s),
           errors' \in 0..MaxErrors
    PROVE  NameInv'
<1>0. PerSession
  BY EntriesThere
<1>1. \A t \in Sessions \ {s} : SameAll(t)
  BY <1>0 DEF Dropped, PerSession, SameAll, parse
<1>2. /\ pc'[s] = "done" /\ ddir'[s] = [sv \in Servers |-> NoFun] /\ drow'[s] = NoFun
      /\ script'[s] = [w \in Workers |-> <<>>]
      /\ DOMAIN drow' = Sessions
  BY <1>0 DEF Dropped, PerSession
<1>3. pc[s] # "decided" /\ pc'[s] # "decided"
  BY <1>2 DEF Undecided
<1>4. TablesTyped'
  <2>1. TablesTyped /\ ReleaseOn(s, Servers)
    BY DEF NameInv, Dropped
  <2>2. /\ shared' \subseteq Servers \X Keys \X Sessions
        /\ exclusive' \subseteq Servers \X Keys \X Sessions
    BY <2>1, ReleaseTyped
  <2>3. UNCHANGED <<dir, inode, nextId, depth, at, tree, moved, indoubt, lost>>
    BY DEF Dropped, tables, parse
  <2> QED BY <1>2, <2>1, <2>2, <2>3 DEF TablesTyped
<1>5. ParseTyped(s)'
  <2>1. ParseTyped(s)
    BY DEF NameInv
  <2>2. UNCHANGED <<job, known, turn, depth, at, tree, found>>
    BY DEF Dropped, parse
  <2> QED BY <1>2, <2>1, <2>2 DEF ParseTyped, RenamesDir, Undecided
<1>6. TxnTyped(s)'
  BY <1>2, EmptyTyped DEF TxnTyped
<1>7. RowsSound(s)'
  BY <1>2 DEF RowsSound, RenameRows, RenameOrder, Undecided
<1>8. \A k, id : ~ Pending(s, k, id)'
  BY <1>2 DEF Pending, Undecided
<1>9. inode' = inode /\ indoubt' = indoubt /\ nextId' = nextId
  BY DEF Dropped, tables
<1>10. nextId <= nextId'
  BY <1>9 DEF NameInv, TablesTyped
<1>11. \A k \in DOMAIN drow'[s] : k \in DOMAIN drow[s] \/ RowIsFree(s, k)
  BY <1>2, EmptyTyped
<1> QED BY <1>1, <1>3, <1>4, <1>5, <1>6, <1>7, <1>8, <1>9, <1>10, <1>11, NameStep

\* An abort is such an end.
LEMMA AbortNames ==
    ASSUME ReplicaInv, NameInv, NEW s \in Sessions, NEW code, pc[s] \in Undecided, Abort(s, code)
    PROVE  NameInv'
<1>1. Dropped(s)
  BY DEF Abort, Dropped, faults
<1>2. errors' \in 0..MaxErrors
  BY DEF Abort, faults, NameInv, TablesTyped
<1> QED BY <1>1, <1>2, DroppedNames

\* A step of the parser, which writes no inode row: the session's part of the
\* names is kept when found has at most one more name, with a fresh id.
LEMMA ParseStep ==
    ASSUME ReplicaInv, NameInv, NEW s \in Sessions, \A t \in Sessions \ {s} : SameAll(t),
           pc[s] = "parse", UNCHANGED <<pc, job, inode, indoubt, drow, script, moved>>,
           TablesTyped', ParseTyped(s)', \A sv \in Servers : KeyedIds(ddir'[s][sv]),
           nextId <= nextId', NEW fresh,
           \A n \in DOMAIN found'[s] :
               \/ n \in DOMAIN found[s] /\ found'[s][n] = found[s][n]
               \/ job[s].op \notin {"mkdir", "create"}
               \/ found'[s][n].key = fresh /\ found'[s][n].id = nextId /\ nextId' = nextId + 1
    PROVE  NameInv'
<1>1. TxnTyped(s)'
  BY DEF NameInv, TxnTyped
<1>2. RowsSound(s)'
  BY DEF NameInv, RowsSound, RenameRows, RenameOrder
<1>3. ASSUME NEW k, NEW id, Pending(s, k, id)'
      PROVE  Pending(s, k, id) \/ (k = fresh /\ id = nextId /\ nextId' = nextId + 1)
  BY <1>3 DEF Pending
<1>4. \A k \in DOMAIN drow'[s] : k \in DOMAIN drow[s]
  OBVIOUS
<1> QED BY <1>1, <1>2, <1>3, <1>4, NameStep

\* The next path keeps the types.
LEMMA NextPathTyped ==
    ASSUME PerSession, NEW s \in Sessions, NextPath(s), UNCHANGED <<pc, job, known, tree, found>>, ParseTyped(s)
    PROVE  /\ ParseTyped(s)' /\ DOMAIN depth' = Sessions /\ DOMAIN at' = Sessions
           /\ \A t \in Sessions \ {s} : turn'[t] = turn[t] /\ depth'[t] = depth[t] /\ at'[t] = at[t]
<1>1. depth'[s] = 0 /\ at'[s] = Root /\ turn'[s] = turn[s] + 1
  BY DEF NextPath, PerSession
<1>2. ParseTyped(s)'
  BY <1>1, Typing DEF ParseTyped, RenamesDir
<1> QED BY <1>2 DEF NextPath, PerSession

\* A path that fails.
LEMMA PathFailsNames ==
    ASSUME ReplicaInv, NameInv, NEW s \in Sessions, NEW code, pc[s] = "parse", PathFails(s, code)
    PROVE  NameInv'
<1>0. PerSession
  BY EntriesThere
<1>1. CASE Abort(s, code)
  BY <1>1, AbortNames DEF Undecided
<1>2. CASE NextPath(s) /\ UNCHANGED <<tables, locks, pc, job, known, tree, found, txn, faults>>
  <2>1. /\ ParseTyped(s)' /\ DOMAIN depth' = Sessions /\ DOMAIN at' = Sessions
        /\ \A t \in Sessions \ {s} : turn'[t] = turn[t] /\ depth'[t] = depth[t] /\ at'[t] = at[t]
    BY <1>0, <1>2, NextPathTyped DEF NameInv
  <2>2. UNCHANGED <<dir, inode, nextId, shared, exclusive, pc, job, known, tree, found>>
    BY <1>2 DEF tables, locks
  <2>3. UNCHANGED <<ddir, drow, script, moved, indoubt, errors, lost>>
    BY <1>2 DEF txn, faults
  <2>4. \A t \in Sessions \ {s} : SameAll(t)
    BY <2>1, <2>2, <2>3 DEF SameAll
  <2>5. TablesTyped'
    BY <2>1, <2>2, <2>3 DEF NameInv, TablesTyped
  <2>6. \A sv \in Servers : KeyedIds(ddir'[s][sv])
    BY <2>3 DEF NameInv, TxnTyped
  <2>7. nextId <= nextId'
    BY <2>2 DEF NameInv, TablesTyped
  <2> QED BY <1>2, <2>1, <2>2, <2>3, <2>4, <2>5, <2>6, <2>7, ParseStep
<1> QED BY <1>1, <1>2 DEF PathFails

\* A path has a component at least, and its components are names.
LEMMA PathTyped ==
    ASSUME NEW p \in Paths
    PROVE  p \in Seq(Names) /\ Len(p) \in Nat \ {0} /\ \A n \in 1..Len(p) : p[n] \in Names
<1>1. PICK n \in 1..3 : p \in [1..n -> Names]
  BY DEF Paths
<1>2. p \in Seq(Names) /\ Len(p) = n
  BY <1>1
<1> QED BY <1>1, <1>2

\* So the last component of a prefix is a name.
LEMMA PrefixTyped ==
    ASSUME NEW p \in Paths, NEW d \in Nat, d < Len(p)
    PROVE  Last(SubSeq(p, 1, d + 1)) \in Names
<1>1. p \in Seq(Names) /\ Len(p) \in Nat /\ \A n \in 1..Len(p) : p[n] \in Names
  BY PathTyped
<1>2. SubSeq(p, 1, d + 1) \in Seq(Names) /\ Len(SubSeq(p, 1, d + 1)) = d + 1
  BY <1>1
<1>3. SubSeq(p, 1, d + 1)[d + 1] \in Names
  BY <1>1, <1>2
<1> QED BY <1>2, <1>3 DEF Last

\* The directory row that a session sees has an id.
LEMMA SeesDirTyped ==
    ASSUME NameInv, NEW s \in Sessions, NEW sv \in Servers, NEW k
    PROVE  SeesDir(s, sv, k) \in Ids \cup {Absent}
<1>1. KeyedIds(ddir[s][sv]) /\ \A m \in DOMAIN dir[sv] : dir[sv][m] \in Ids
  BY DEF NameInv, TxnTyped, TablesTyped
<1> QED BY <1>1 DEF SeesDir, Row, KeyedIds

\* Where the parser is, there is a path, and the key it looks at is one.
LEMMA AtPath ==
    ASSUME ReplicaInv, NameInv, NEW s \in Sessions, pc[s] = "parse", turn[s] <= Len(job[s].paths)
    PROVE  /\ Path(s) \in Paths /\ at[s] \in Ids /\ depth[s] \in Nat /\ Site[s] \in Servers
           /\ depth[s] < Len(Path(s)) => <<at[s], Last(SubSeq(Path(s), 1, depth[s] + 1))>> \in Keys
           /\ Target(s) \in Keys
<1>1. ParseTyped(s) /\ pc[s] \in Undecided /\ RequestOK(s)
  BY DEF NameInv, Undecided, ReplicaInv, SessionOK
<1>2. Len(job[s].paths) \in Nat
  BY <1>1 DEF RequestOK, InProgress, Undecided
<1>3. turn[s] \in 1..Len(job[s].paths)
  BY <1>1, <1>2 DEF ParseTyped
<1>4. Path(s) \in Paths /\ at[s] \in Ids /\ depth[s] \in Nat
  BY <1>1, <1>3 DEF ParseTyped, Path
<1>5. Last(Path(s)) \in Names
  BY <1>4, PathTyped DEF Last
<1>6. depth[s] < Len(Path(s)) => Last(SubSeq(Path(s), 1, depth[s] + 1)) \in Names
  BY <1>4, PrefixTyped
<1> QED BY <1>4, <1>5, <1>6, NamespaceAssumptions DEF Keys, Target

\* One component further keeps the types.
LEMMA DescendTyped ==
    ASSUME PerSession, NEW s \in Sessions, NEW id \in Ids, Descend(s, id), ParseTyped(s),
           \A p \in DOMAIN tree'[s] : tree'[s][p].id \in Ids
    PROVE  /\ ParseTyped(s)' /\ DOMAIN depth' = Sessions /\ DOMAIN at' = Sessions
           /\ \A t \in Sessions \ {s} : depth'[t] = depth[t] /\ at'[t] = at[t]
           /\ UNCHANGED <<dir, inode, nextId, pc, job, known, turn, found, ddir, drow, script, moved,
                          indoubt, errors, lost>>
<1>1. depth'[s] = depth[s] + 1 /\ at'[s] = id
  BY DEF Descend, PerSession
<1>2. UNCHANGED <<dir, inode, nextId, pc, job, known, turn, found, ddir, drow, script, moved,
                  indoubt, errors, lost>>
  BY DEF Descend, tables, txn, faults
<1>3. ParseTyped(s)'
  BY <1>1, <1>2 DEF ParseTyped, RenamesDir
<1> QED BY <1>2, <1>3 DEF Descend, PerSession

\* A step on the way down.
LEMMA DescendNames ==
    ASSUME ReplicaInv, NameInv, NEW s \in Sessions, NEW id \in Ids, Descend(s, id), pc[s] = "parse",
           \A p \in DOMAIN tree'[s] : tree'[s][p].id \in Ids, DOMAIN tree' = Sessions,
           \A t \in Sessions \ {s} : tree'[t] = tree[t],
           shared' \subseteq Servers \X Keys \X Sessions, exclusive' \subseteq Servers \X Keys \X Sessions
    PROVE  NameInv'
<1>0. PerSession /\ ParseTyped(s)
  BY EntriesThere DEF NameInv
<1>1. /\ ParseTyped(s)' /\ DOMAIN depth' = Sessions /\ DOMAIN at' = Sessions
      /\ \A t \in Sessions \ {s} : depth'[t] = depth[t] /\ at'[t] = at[t]
      /\ UNCHANGED <<dir, inode, nextId, pc, job, known, turn, found, ddir, drow, script, moved,
                     indoubt, errors, lost>>
  BY <1>0, DescendTyped
<1>2. \A t \in Sessions \ {s} : SameAll(t)
  BY <1>1 DEF SameAll
<1>3. TablesTyped'
  BY <1>1 DEF NameInv, TablesTyped
<1>4. \A sv \in Servers : KeyedIds(ddir'[s][sv])
  BY <1>1 DEF NameInv, TxnTyped
<1>5. nextId <= nextId'
  BY <1>1 DEF NameInv, TablesTyped
<1> QED BY <1>1, <1>2, <1>3, <1>4, <1>5, ParseStep

\* One node more in the parse tree.
LEMMA PutTree ==
    ASSUME PerSession, NEW s \in Sessions, ParseTyped(s), NEW p, NEW id \in Ids, NEW mode,
           tree' = [tree EXCEPT ![s] = Put(@, p, [id |-> id, mode |-> mode])]
    PROVE  /\ \A q \in DOMAIN tree'[s] : tree'[s][q].id \in Ids
           /\ DOMAIN tree' = Sessions /\ \A t \in Sessions \ {s} : tree'[t] = tree[t]
<1>1. tree'[s] = Put(tree[s], p, [id |-> id, mode |-> mode])
  BY DEF PerSession
<1>2. \A q \in DOMAIN tree'[s] : tree'[s][q].id \in Ids
  BY <1>1 DEF Put, ParseTyped
<1> QED BY <1>2 DEF PerSession

\* A component of a path.
LEMMA ParseComponentNames ==
    ASSUME ReplicaInv, NameInv, NEW s \in Sessions, ParseComponent(s)
    PROVE  NameInv'
<1> DEFINE prefix == SubSeq(Path(s), 1, depth[s] + 1)
           k == <<at[s], Last(prefix)>>
           id == SeesDir(s, Site[s], k)
<1>0. PerSession /\ ParseTyped(s) /\ TablesTyped
  BY EntriesThere DEF NameInv
<1>1. pc[s] = "parse" /\ turn[s] <= Len(job[s].paths) /\ depth[s] < Len(Path(s)) - 1
  BY DEF ParseComponent
<1>2. Path(s) \in Paths /\ depth[s] \in Nat /\ Site[s] \in Servers /\ Len(Path(s)) \in Nat
  BY <1>1, AtPath, PathTyped
<1>3. k \in Keys
  BY <1>1, <1>2, AtPath
<1>4. id \in Ids \cup {Absent}
  BY <1>2, SeesDirTyped
<1>5. /\ shared \subseteq Servers \X Keys \X Sessions
      /\ exclusive \subseteq Servers \X Keys \X Sessions
  BY <1>0 DEF TablesTyped
<1>6. CASE prefix \in DOMAIN tree[s] /\ PathFails(s, "PATH_LOCK_CONFLICT")
  BY <1>1, <1>6, PathFailsNames
<1>7. CASE prefix \in DOMAIN tree[s] /\ Descend(s, tree[s][prefix].id) /\ UNCHANGED <<locks, tree>>
  <2> HIDE DEF prefix
  <2>1. tree[s][prefix].id \in Ids
    BY <1>0, <1>7 DEF ParseTyped
  <2>2. UNCHANGED <<shared, exclusive, tree>>
    BY <1>7 DEF locks
  <2>3. \A p \in DOMAIN tree'[s] : tree'[s][p].id \in Ids
    BY <1>0, <2>2 DEF ParseTyped
  <2>4. DOMAIN tree' = Sessions /\ \A t \in Sessions \ {s} : tree'[t] = tree[t]
    BY <1>0, <2>2 DEF PerSession
  <2> QED BY <1>1, <1>5, <1>7, <2>1, <2>2, <2>3, <2>4, DescendNames
<1>8. CASE /\ prefix \notin DOMAIN tree[s] /\ id # Absent
           /\ LockShared(s, Site[s], k)
           /\ tree' = [tree EXCEPT ![s] = Put(@, prefix, [id |-> id, mode |-> "SHARED"])]
           /\ Descend(s, id)
  <2> HIDE DEF prefix, k, id
  <2>1. id \in Ids
    BY <1>4, <1>8
  <2>2. /\ \A q \in DOMAIN tree'[s] : tree'[s][q].id \in Ids
        /\ DOMAIN tree' = Sessions /\ \A t \in Sessions \ {s} : tree'[t] = tree[t]
    BY <1>0, <1>8, <2>1, PutTree
  <2>3. /\ shared' \subseteq Servers \X Keys \X Sessions
        /\ exclusive' \subseteq Servers \X Keys \X Sessions
    BY <1>0, <1>2, <1>3, <1>8, LockTyped
  <2> QED BY <1>1, <1>8, <2>1, <2>2, <2>3, DescendNames
<1>9. CASE Abort(s, "PATH_IS_INVALID")
  BY <1>1, <1>9, AbortNames DEF Undecided
<1>10. CASE /\ LockShared(s, Site[s], k) /\ NextPath(s)
            /\ UNCHANGED <<tables, pc, job, known, tree, found, txn, faults>>
  <2> HIDE DEF k
  <2>1. /\ ParseTyped(s)' /\ DOMAIN depth' = Sessions /\ DOMAIN at' = Sessions
        /\ \A t \in Sessions \ {s} : turn'[t] = turn[t] /\ depth'[t] = depth[t] /\ at'[t] = at[t]
    BY <1>0, <1>10, NextPathTyped
  <2>2. UNCHANGED <<dir, inode, nextId, pc, job, known, tree, found>>
    BY <1>10 DEF tables
  <2>3. UNCHANGED <<ddir, drow, script, moved, indoubt, errors, lost>>
    BY <1>10 DEF txn, faults
  <2>4. \A t \in Sessions \ {s} : SameAll(t)
    BY <2>1, <2>2, <2>3 DEF SameAll
  <2>5. /\ shared' \subseteq Servers \X Keys \X Sessions
        /\ exclusive' \subseteq Servers \X Keys \X Sessions
    BY <1>0, <1>2, <1>3, <1>10, LockTyped
  <2>6. TablesTyped'
    BY <1>0, <2>1, <2>2, <2>3, <2>5 DEF TablesTyped
  <2>7. \A sv \in Servers : KeyedIds(ddir'[s][sv])
    BY <2>3 DEF NameInv, TxnTyped
  <2>8. nextId <= nextId'
    BY <2>2 DEF NameInv, TablesTyped
  <2> QED BY <1>1, <2>1, <2>2, <2>3, <2>4, <2>6, <2>7, <2>8, ParseStep
<1> QED BY <1>6, <1>7, <1>8, <1>9, <1>10 DEF ParseComponent

\* A path that parses: its key and id are remembered.
LEMMA AcceptNames ==
    ASSUME ReplicaInv, NameInv, NEW s \in Sessions, NEW id, pc[s] = "parse", turn[s] <= Len(job[s].paths),
           NextPath(s), Accept(s, id),
           UNCHANGED <<dir, inode, pc, job, known, drow, script, moved, indoubt, errors, lost>>,
           \A q \in DOMAIN tree'[s] : tree'[s][q].id \in Ids,
           DOMAIN tree' = Sessions, \A t \in Sessions \ {s} : tree'[t] = tree[t],
           shared' \subseteq Servers \X Keys \X Sessions, exclusive' \subseteq Servers \X Keys \X Sessions,
           \A sv \in Servers : KeyedIds(ddir'[s][sv]), \A t \in Sessions \ {s} : ddir'[t] = ddir[t],
           job[s].op \in {"mkdir", "create"} => id = nextId /\ nextId <= MaxId /\ nextId' = nextId + 1,
           job[s].op \notin {"mkdir", "create"} => nextId' = nextId,
           RenamesDir(s) => id \in Ids
    PROVE  NameInv'
<1>0. PerSession /\ ParseTyped(s) /\ TablesTyped /\ IsSeq(found[s])
  BY EntriesThere DEF NameInv, ReplicaInv, ShapeOK
<1>1. MaxId \in Nat /\ nextId \in 1..(MaxId + 1)
  BY <1>0, Typing DEF TablesTyped
<1>2. nextId' \in 1..(MaxId + 1) /\ nextId <= nextId'
  BY <1>1
<1>3. job[s].op \in {"mkdir", "create"} => nextId \in Ids \ {Root}
  BY <1>1 DEF Ids, Root
<1>4. Target(s) \in Keys
  BY AtPath
<1>5. /\ depth'[s] = 0 /\ at'[s] = Root /\ turn'[s] = turn[s] + 1
      /\ DOMAIN depth' = Sessions /\ DOMAIN at' = Sessions
      /\ \A t \in Sessions \ {s} : turn'[t] = turn[t] /\ depth'[t] = depth[t] /\ at'[t] = at[t]
  BY <1>0 DEF NextPath, PerSession
<1> DEFINE e == [key |-> Target(s), id |-> id]
<1>6. found'[s] = Append(found[s], e) /\ \A t \in Sessions \ {s} : found'[t] = found[t]
  BY <1>0 DEF Accept, PerSession
<1>7. e.key = Target(s) /\ e.id = id
  OBVIOUS
<1> HIDE DEF e
<1>8. \A n \in DOMAIN found'[s] :
         (n \in DOMAIN found[s] /\ found'[s][n] = found[s][n]) \/ found'[s][n] = e
  BY <1>0, <1>6, SeqAppend
<1>9. \A t \in Sessions \ {s} : SameAll(t)
  BY <1>5, <1>6 DEF SameAll
<1>10. TablesTyped'
  BY <1>0, <1>2, <1>5 DEF TablesTyped
<1>11. ASSUME NEW n \in DOMAIN found'[s]
       PROVE  /\ found'[s][n].key \in Keys
              /\ job[s].op \in {"mkdir", "create"} => found'[s][n].id \in Ids \ {Root}
              /\ RenamesDir(s) /\ n # job[s].src => found'[s][n].id \in Ids
  <2>1. CASE n \in DOMAIN found[s] /\ found'[s][n] = found[s][n]
    BY <1>0, <2>1 DEF ParseTyped
  <2>2. CASE found'[s][n] = e
    BY <1>3, <1>4, <1>7, <2>2
  <2> QED BY <1>8, <2>1, <2>2
<1>12. ParseTyped(s)'
  <2>1. RenamesDir(s)' <=> RenamesDir(s)
    BY DEF RenamesDir
  <2> QED BY <1>0, <1>5, <1>11, <2>1, Typing DEF ParseTyped
<1>13. \A n \in DOMAIN found'[s] :
           \/ n \in DOMAIN found[s] /\ found'[s][n] = found[s][n]
           \/ job[s].op \notin {"mkdir", "create"}
           \/ found'[s][n].key = Target(s) /\ found'[s][n].id = nextId /\ nextId' = nextId + 1
  BY <1>7, <1>8
<1> QED BY <1>2, <1>9, <1>10, <1>12, <1>13, ParseStep

\* A write of a directory row keeps the types of those of the session.
LEMMA WriteDirTyped ==
    ASSUME PerSession, NEW s \in Sessions, NEW sv \in Servers, DOMAIN ddir[s] = Servers,
           \A x \in Servers : KeyedIds(ddir[s][x]),
           NEW k \in Keys, NEW id \in Ids \cup {Absent}, WriteDir(s, sv, k, id)
    PROVE  /\ \A x \in Servers : KeyedIds(ddir'[s][x])
           /\ \A t \in Sessions \ {s} : ddir'[t] = ddir[t]
<1>1. ddir'[s] = [ddir[s] EXCEPT ![sv] = Put(@, k, id)] /\ \A t \in Sessions \ {s} : ddir'[t] = ddir[t]
  BY DEF WriteDir, PerSession
<1>2. KeyedIds(Put(ddir[s][sv], k, id))
  BY DEF KeyedIds, Put
<1> QED BY <1>1, <1>2

\* A new directory.
LEMMA ParseNewDirectoryNames ==
    ASSUME ReplicaInv, NameInv, NEW s \in Sessions, ParseNewDirectory(s)
    PROVE  NameInv'
<1> DEFINE k == Target(s)
           sv == Site[s]
           old == SeesDir(s, sv, k)
           id == IF job[s].op = "rename" THEN known[s]
                 ELSE IF old # Absent THEN old ELSE nextId
           mode == IF job[s].op = "mkdir" THEN "CREATE" ELSE "EXCLUSIVE"
           remember == tree' = [tree EXCEPT ![s] = Put(@, Path(s), [id |-> id, mode |-> mode])]
<1>0. PerSession /\ ParseTyped(s) /\ TablesTyped /\ TxnTyped(s)
  BY EntriesThere DEF NameInv
<1>1. pc[s] = "parse" /\ turn[s] <= Len(job[s].paths) /\ TargetIsDirectory(s) /\ Creates(s)
  BY DEF ParseNewDirectory, AtTarget
<1>2. k \in Keys /\ sv \in Servers
  BY <1>1, AtPath
<1>3. old \in Ids \cup {Absent}
  BY <1>2, SeesDirTyped
<1>4. \/ job[s].op = "mkdir"
      \/ job[s].op = "rename" /\ RenamesDir(s) /\ known[s] \in Ids
  BY <1>0, <1>1 DEF TargetIsDirectory, Creates, RenamesDir, ParseTyped
<1>5. DOMAIN ddir[s] = Servers /\ \A x \in Servers : KeyedIds(ddir[s][x])
  BY <1>0 DEF TxnTyped, ReplicaInv, ShapeOK
<1>6. CASE PathFails(s, "PATH_EXISTS")
  BY <1>1, <1>6, PathFailsNames
<1>7. CASE Abort(s, "PATH_EXISTS")
  BY <1>1, <1>7, AbortNames DEF Undecided
<1>8. CASE /\ old # Absent /\ job[s].op = "mkdir"
           /\ LockExclusive(s, sv, k) /\ remember /\ NextPath(s)
           /\ UNCHANGED <<tables, pc, job, known, found, txn, faults>>
  <2>1. id \in Ids
    BY <1>3, <1>8
  <2>2. tree' = [tree EXCEPT ![s] = Put(@, Path(s), [id |-> id, mode |-> mode])]
    BY <1>8
  <2> HIDE DEF id, k, sv, old, mode, remember
  <2>3. /\ \A q \in DOMAIN tree'[s] : tree'[s][q].id \in Ids
        /\ DOMAIN tree' = Sessions /\ \A t \in Sessions \ {s} : tree'[t] = tree[t]
    BY <1>0, <2>1, <2>2, PutTree
  <2>4. /\ depth'[s] = 0 /\ at'[s] = Root /\ turn'[s] = turn[s] + 1
        /\ DOMAIN depth' = Sessions /\ DOMAIN at' = Sessions
        /\ \A t \in Sessions \ {s} : turn'[t] = turn[t] /\ depth'[t] = depth[t] /\ at'[t] = at[t]
    BY <1>0, <1>8 DEF NextPath, PerSession
  <2>5. UNCHANGED <<dir, inode, nextId, pc, job, known, found>>
    BY <1>8 DEF tables
  <2>6. UNCHANGED <<ddir, drow, script, moved, indoubt, errors, lost>>
    BY <1>8 DEF txn, faults
  <2>7. \A t \in Sessions \ {s} : SameAll(t)
    BY <2>3, <2>4, <2>5, <2>6 DEF SameAll
  <2>8. /\ shared' \subseteq Servers \X Keys \X Sessions
        /\ exclusive' \subseteq Servers \X Keys \X Sessions
    BY <1>0, <1>2, <1>8, LockTyped
  <2>9. TablesTyped'
    BY <1>0, <2>3, <2>4, <2>5, <2>6, <2>8 DEF TablesTyped
  <2>10. ParseTyped(s)'
    BY <1>0, <2>3, <2>4, <2>5, Typing DEF ParseTyped, RenamesDir
  <2>11. nextId <= nextId'
    BY <1>0, <2>5 DEF TablesTyped
  <2>12. \A x \in Servers : KeyedIds(ddir'[s][x])
    BY <1>5, <2>6
  <2> QED BY <1>1, <2>5, <2>6, <2>7, <2>9, <2>10, <2>11, <2>12, ParseStep
<1>9. CASE /\ old = Absent
           /\ LockExclusive(s, sv, k) /\ remember /\ NextPath(s) /\ Accept(s, id)
           /\ IF job[s].op = "mkdir"
              THEN /\ nextId <= MaxId /\ nextId' = nextId + 1 /\ WriteDir(s, sv, k, id)
              ELSE UNCHANGED <<nextId, ddir>>
           /\ UNCHANGED <<dir, inode, pc, job, known, drow, script, moved, result, faults>>
  <2>0. nextId \in 1..(MaxId + 1) /\ MaxId \in Nat
    BY <1>0, Typing DEF TablesTyped
  <2>1. id \in Ids /\ (job[s].op = "mkdir" => id = nextId)
    BY <1>4, <1>9, <2>0 DEF Ids
  <2>2. tree' = [tree EXCEPT ![s] = Put(@, Path(s), [id |-> id, mode |-> mode])]
    BY <1>9
  <2>3. job[s].op = "mkdir" =>
           nextId <= MaxId /\ nextId' = nextId + 1 /\ WriteDir(s, sv, k, id)
    BY <1>9
  <2>4. job[s].op # "mkdir" => nextId' = nextId /\ ddir' = ddir
    BY <1>9
  <2>5. Accept(s, id) /\ NextPath(s) /\ LockExclusive(s, sv, k)
    BY <1>9
  <2>6. UNCHANGED <<dir, inode, pc, job, known, drow, script, moved, indoubt, errors, lost>>
    BY <1>9 DEF faults
  <2> HIDE DEF id, k, sv, old, mode, remember
  <2>7. /\ \A q \in DOMAIN tree'[s] : tree'[s][q].id \in Ids
        /\ DOMAIN tree' = Sessions /\ \A t \in Sessions \ {s} : tree'[t] = tree[t]
    BY <1>0, <2>1, <2>2, PutTree
  <2>8. /\ shared' \subseteq Servers \X Keys \X Sessions
        /\ exclusive' \subseteq Servers \X Keys \X Sessions
    BY <1>0, <1>2, <2>5, LockTyped
  <2>9. (\A x \in Servers : KeyedIds(ddir'[s][x])) /\ (\A t \in Sessions \ {s} : ddir'[t] = ddir[t])
    <3>1. CASE job[s].op = "mkdir"
      BY <1>0, <1>2, <1>5, <2>1, <2>3, <3>1, WriteDirTyped
    <3>2. CASE job[s].op # "mkdir"
      BY <1>5, <2>4, <3>2
    <3> QED BY <3>1, <3>2
  <2>10. job[s].op \in {"mkdir", "create"} => job[s].op = "mkdir"
    BY <1>4
  <2>11. job[s].op \in {"mkdir", "create"} => id = nextId /\ nextId <= MaxId /\ nextId' = nextId + 1
    BY <2>1, <2>3, <2>10
  <2>12. job[s].op \notin {"mkdir", "create"} => nextId' = nextId
    BY <2>4
  <2> QED BY <1>1, <2>1, <2>5, <2>6, <2>7, <2>8, <2>9, <2>11, <2>12, AcceptNames
<1> QED BY <1>6, <1>7, <1>8, <1>9 DEF ParseNewDirectory

\* A directory to be deleted.
LEMMA ParseOldDirectoryNames ==
    ASSUME ReplicaInv, NameInv, NEW s \in Sessions, ParseOldDirectory(s)
    PROVE  NameInv'
<1> DEFINE k == Target(s)
           id == SeesDir(s, Site[s], k)
<1>0. PerSession /\ ParseTyped(s) /\ TablesTyped /\ TxnTyped(s)
  BY EntriesThere DEF NameInv
<1>1. pc[s] = "parse" /\ turn[s] <= Len(job[s].paths) /\ TargetIsDirectory(s) /\ ~ Creates(s)
  BY DEF ParseOldDirectory, AtTarget
<1>2. k \in Keys /\ Site[s] \in Servers
  BY <1>1, AtPath
<1>3. id \in Ids \cup {Absent}
  BY <1>2, SeesDirTyped
<1>4. job[s].op \notin {"mkdir", "create"}
  BY <1>1 DEF Creates
<1>5. DOMAIN ddir[s] = Servers /\ \A x \in Servers : KeyedIds(ddir[s][x])
  BY <1>0 DEF TxnTyped, ReplicaInv, ShapeOK
<1>6. CASE PathFails(s, "PATH_LOCK_CONFLICT")
  BY <1>1, <1>6, PathFailsNames
<1>7. CASE Abort(s, "PATH_NOT_EXISTS")
  BY <1>1, <1>7, AbortNames DEF Undecided
<1>8. CASE /\ id # Absent
           /\ LockExclusive(s, Site[s], k) /\ NextPath(s) /\ Accept(s, id)
           /\ tree' = [tree EXCEPT ![s] = Put(@, Path(s), [id |-> id, mode |-> "EXCLUSIVE"])]
           /\ IF job[s].op = "rmdir" THEN WriteDir(s, Site[s], k, Absent) ELSE UNCHANGED ddir
           /\ UNCHANGED <<tables, pc, job, known, drow, script, moved, result, faults>>
  <2>1. id \in Ids
    BY <1>3, <1>8
  <2> HIDE DEF id, k
  <2>2. UNCHANGED <<dir, inode, nextId, pc, job, known, drow, script, moved, indoubt, errors, lost>>
    BY <1>8 DEF tables, faults
  <2>3. /\ \A q \in DOMAIN tree'[s] : tree'[s][q].id \in Ids
        /\ DOMAIN tree' = Sessions /\ \A t \in Sessions \ {s} : tree'[t] = tree[t]
    BY <1>0, <1>8, <2>1, PutTree
  <2>4. /\ shared' \subseteq Servers \X Keys \X Sessions
        /\ exclusive' \subseteq Servers \X Keys \X Sessions
    BY <1>0, <1>2, <1>8, LockTyped
  <2>5. (\A x \in Servers : KeyedIds(ddir'[s][x])) /\ (\A t \in Sessions \ {s} : ddir'[t] = ddir[t])
    <3>1. CASE WriteDir(s, Site[s], k, Absent)
      BY <1>0, <1>2, <1>5, <3>1, WriteDirTyped
    <3>2. CASE UNCHANGED ddir
      BY <1>5, <3>2
    <3> QED BY <1>8, <3>1, <3>2
  <2> QED BY <1>1, <1>4, <1>8, <2>1, <2>2, <2>3, <2>4, <2>5, AcceptNames
<1> QED BY <1>6, <1>7, <1>8 DEF ParseOldDirectory

\* A file.
LEMMA ParseFileNames ==
    ASSUME ReplicaInv, NameInv, NEW s \in Sessions, ParseFile(s)
    PROVE  NameInv'
<1>0. PerSession /\ ParseTyped(s) /\ TablesTyped /\ TxnTyped(s)
  BY EntriesThere DEF NameInv
<1>1. pc[s] = "parse" /\ turn[s] <= Len(job[s].paths) /\ ~ TargetIsDirectory(s)
  BY DEF ParseFile, AtTarget
<1>2. job[s].op # "mkdir" /\ ~ RenamesDir(s)
  BY <1>1 DEF TargetIsDirectory
<1>6. CASE PathFails(s, "WRONG_WORKER")
  BY <1>1, <1>6, PathFailsNames
<1>8. CASE /\ Accept(s, nextId) /\ NextPath(s)
           /\ IF job[s].op = "create" THEN nextId <= MaxId /\ nextId' = nextId + 1
              ELSE UNCHANGED nextId
           /\ UNCHANGED <<dir, inode, locks, pc, job, known, tree, txn, result, faults>>
  <2>1. /\ UNCHANGED <<dir, inode, pc, job, known, drow, script, moved, indoubt, errors, lost>>
        /\ UNCHANGED <<ddir, shared, exclusive, tree>>
    BY <1>8 DEF txn, faults, locks
  <2>2. /\ \A q \in DOMAIN tree'[s] : tree'[s][q].id \in Ids
        /\ DOMAIN tree' = Sessions /\ \A t \in Sessions \ {s} : tree'[t] = tree[t]
    BY <1>0, <2>1 DEF ParseTyped, PerSession
  <2>3. /\ shared' \subseteq Servers \X Keys \X Sessions
        /\ exclusive' \subseteq Servers \X Keys \X Sessions
    BY <1>0, <2>1 DEF TablesTyped
  <2>4. (\A x \in Servers : KeyedIds(ddir'[s][x])) /\ (\A t \in Sessions \ {s} : ddir'[t] = ddir[t])
    BY <1>0, <2>1 DEF TxnTyped
  <2>5. job[s].op \in {"mkdir", "create"} => nextId <= MaxId /\ nextId' = nextId + 1
    BY <1>2, <1>8
  <2>6. job[s].op \notin {"mkdir", "create"} => nextId' = nextId
    BY <1>8
  <2> QED BY <1>1, <1>2, <1>8, <2>1, <2>2, <2>3, <2>4, <2>5, <2>6, AcceptNames
<1> QED BY <1>6, <1>8 DEF ParseFile

\* The paths of a request in order are its paths.
LEMMA InOrderTyped ==
    ASSUME NEW ps, ps \in UNION {[1..n -> Paths] : n \in 1..2}
    PROVE  /\ \A i \in 1..Len(InOrder(ps)) : InOrder(ps)[i] \in Paths
           /\ ps[1] \in Paths
<1>1. PICK n \in 1..2 : ps \in [1..n -> Paths]
  OBVIOUS
<1>2. Len(ps) = n /\ 1 \in 1..n
  BY <1>1
<1>3. CASE InOrder(ps) = ps
  BY <1>1, <1>2, <1>3
<1>4. CASE n = 2 /\ InOrder(ps) = <<ps[2], ps[1]>>
  <2>1. ps[1] \in Paths /\ ps[2] \in Paths
    BY <1>1, <1>4
  <2>2. <<ps[2], ps[1]>>[1] \in Paths /\ <<ps[2], ps[1]>>[2] \in Paths /\ Len(<<ps[2], ps[1]>>) = 2
    BY <2>1
  <2>3. 1..2 = {1, 2}
    OBVIOUS
  <2> HIDE DEF InOrder
  <2> QED BY <1>4, <2>1, <2>2, <2>3
<1> QED BY <1>2, <1>3, <1>4 DEF InOrder

\* A request arrives.
LEMMA BeginNames ==
    ASSUME ReplicaInv, NameInv, NEW s \in Sessions, Begin(s)
    PROVE  NameInv'
<1>0. PerSession /\ ParseTyped(s) /\ TablesTyped /\ TxnTyped(s) /\ RowsSound(s)
  BY EntriesThere DEF NameInv
<1>1. pc[s] = "start" /\ found[s] = <<>> /\ DOMAIN drow[s] = {}
  BY <1>0 DEF Begin, ReplicaInv, SessionOK, RequestOK, RowsSound
<1>2. PICK r \in Requests[s] :
        LET ps == InOrder(r.paths) IN
        /\ job' = [job EXCEPT ![s] = [op |-> r.op, paths |-> ps,
                     src |-> CHOOSE i \in 1..Len(ps) : ps[i] = r.paths[1]]]
        /\ known' = [known EXCEPT ![s] = IF r.op = "rename"
                     THEN CheckWhetherPathExistsInDirectoryTable(dir[Site[s]], r.paths[1])
                     ELSE Absent]
        /\ pc' = [pc EXCEPT ![s] = "done"] \/ pc' = [pc EXCEPT ![s] = "parse"]
  BY <1>1 DEF Begin
<1>3. r.op \in Ops /\ r.paths \in UNION {[1..n -> Paths] : n \in 1..2}
  BY NamespaceAssumptions DEF Request
<1>4. /\ \A i \in 1..Len(InOrder(r.paths)) : InOrder(r.paths)[i] \in Paths
      /\ r.paths[1] \in Paths
  BY <1>3, InOrderTyped
<1>5. CheckWhetherPathExistsInDirectoryTable(dir[Site[s]], r.paths[1]) \in Ids \cup {Absent}
  <2>1. Len(r.paths[1]) \in Nat
    BY <1>4, PathTyped
  <2>2. Site[s] \in Servers
    BY NamespaceAssumptions
  <2>3. \A k \in DOMAIN dir[Site[s]] : dir[Site[s]][k] \in Ids \cup {Absent}
    BY <1>0, <2>2 DEF TablesTyped
  <2> QED BY <2>1, <2>3, Typing, WalkTyped
<1>6. /\ job'[s].op = r.op /\ job'[s].paths = InOrder(r.paths)
      /\ known'[s] \in Ids \cup {Absent}
      /\ pc'[s] = "done" \/ pc'[s] = "parse"
      /\ \A t \in Sessions \ {s} : job'[t] = job[t] /\ known'[t] = known[t] /\ pc'[t] = pc[t]
  BY <1>0, <1>2, <1>5 DEF PerSession
<1>7. UNCHANGED <<dir, inode, nextId, shared, exclusive, turn, depth, at, tree, found>>
  BY DEF Begin, tables, locks, parse
<1>8. UNCHANGED <<ddir, drow, script, moved, indoubt, errors, lost>>
  BY DEF Begin, txn, faults
<1>9. \A t \in Sessions \ {s} : SameAll(t)
  BY <1>6, <1>7, <1>8 DEF SameAll
<1>10. TablesTyped'
  BY <1>0, <1>7, <1>8 DEF TablesTyped
<1>11. DOMAIN found'[s] = {}
  BY <1>1, <1>7, SeqEmpty
<1>12. ParseTyped(s)'
  BY <1>0, <1>3, <1>4, <1>6, <1>7, <1>11 DEF ParseTyped
<1>13. TxnTyped(s)'
  BY <1>0, <1>8 DEF TxnTyped
<1>14. DOMAIN drow'[s] = {}
  BY <1>1, <1>8
<1>15. RowsSound(s)'
  BY <1>6, <1>14 DEF RowsSound, RenameRows, RenameOrder
<1>16. \A k, id : ~ Pending(s, k, id)'
  BY <1>6, <1>11, <1>14 DEF Pending, Undecided
<1>17. nextId <= nextId'
  BY <1>0, <1>7 DEF TablesTyped
<1>18. pc[s] # "decided" /\ pc'[s] # "decided"
  BY <1>1, <1>6
<1> QED BY <1>7, <1>8, <1>9, <1>10, <1>12, <1>13, <1>14, <1>15, <1>16, <1>17, <1>18, NameStep

-----------------------------------------------------------------------------
(* The decision.                                                            *)

\* What a transaction's decision makes final.
LEMMA FinalAtDecision ==
    ASSUME NameInv, NEW s \in Sessions, \A t \in Sessions \ {s} : SameAll(t),
           inode' = inode, indoubt' = indoubt, drow'[s] = drow[s],
           pc[s] \in Undecided, pc'[s] = "decided", NEW k, NEW row
    PROVE  Final(k, row)' <=>
              IF k \in DOMAIN drow[s] THEN row # NoRow /\ drow[s][k] = row ELSE Final(k, row)
<1>1. \A t \in Sessions : drow'[t] = drow[t]
  BY DEF SameAll
<1>2. \A t \in Sessions : pc'[t] = "decided" <=> (pc[t] = "decided" \/ t = s)
  BY DEF SameAll
<1>3. CASE k \in DOMAIN drow[s]
  <2>1. \A t \in Sessions : k \in DOMAIN drow[t] => t = s
    BY <1>3 DEF NameInv, OneRowWriter
  <2>2. \A d \in indoubt : k \notin DOMAIN d.rows
    BY <1>3 DEF NameInv, OneRowWriter
  <2>3. Final(k, row)' => row # NoRow /\ drow[s][k] = row
    BY <1>1, <1>2, <1>3, <2>1, <2>2 DEF Final
  <2>4. row # NoRow /\ drow[s][k] = row => Final(k, row)'
    BY <1>1, <1>2, <1>3 DEF Final
  <2> QED BY <1>3, <2>3, <2>4
<1>4. CASE k \notin DOMAIN drow[s]
  <2>1. Final(k, row)' => Final(k, row)
    BY <1>1, <1>2, <1>4 DEF Final
  <2>2. Final(k, row) => Final(k, row)'
    BY <1>1, <1>2, <1>4 DEF Final
  <2> QED BY <1>4, <2>1, <2>2
<1> QED BY <1>3, <1>4

\* Such a row is of a pending name, or it is the row that a rename has taken.
LEMMA DecidedRow ==
    ASSUME NameInv, NEW s \in Sessions, pc[s] \in Undecided, job[s].op \in Ops,
           NEW k \in DOMAIN drow[s], drow[s][k] # NoRow
    PROVE  /\ k \in Keys /\ drow[s][k] \in Rows
           /\ \/ Pending(s, k, drow[s][k].id)
              \/ /\ job[s].op = "rename" /\ k = Dst(s).key
                 /\ Src(s).key \in Keys /\ Src(s).key \in DOMAIN drow[s]
                 /\ Final(Src(s).key, drow[s][k])
<1>0. RowsSound(s) /\ TxnTyped(s)
  BY DEF NameInv
<1>1. k \in Keys /\ drow[s][k] \in Rows
  BY <1>0 DEF TxnTyped, KeyedRows
<1>2. job[s].op \notin {"rmdir", "unlink"}
  BY <1>0 DEF RowsSound
<1>3. CASE job[s].op \in {"mkdir", "create"}
  BY <1>1, <1>3 DEF Pending
<1>4. CASE job[s].op = "rename"
  <2>1. pc[s] \in {"calls", "create"}
    BY <1>0, <1>4 DEF RowsSound, Undecided
  <2>2. RenameRows(s)
    BY <1>0 DEF RowsSound
  <2>3. /\ k = Dst(s).key /\ drow[s][k] = moved[s] /\ Src(s).key \in Keys
        /\ Src(s).key \in DOMAIN drow[s] /\ Src(s).key \in DOMAIN inode /\ moved[s] = inode[Src(s).key]
    BY <1>4, <2>1, <2>2 DEF RenameRows
  <2>4. \A t \in Sessions : pc[t] = "decided" => Src(s).key \notin DOMAIN drow[t]
    BY <2>1, <2>3 DEF NameInv, OneRowWriter
  <2>5. \A d \in indoubt : Src(s).key \notin DOMAIN d.rows
    BY <2>3 DEF NameInv, OneRowWriter
  <2>6. Final(Src(s).key, drow[s][k])
    BY <2>3, <2>4, <2>5 DEF Final
  <2> QED BY <1>1, <1>4, <2>3, <2>6
<1> QED BY <1>2, <1>3, <1>4 DEF Ops

\* A decision keeps the names apart.
LEMMA DecideNames ==
    ASSUME ReplicaInv, NameInv, NEW s \in Sessions, pc[s] \in Undecided,
           pc' = [pc EXCEPT ![s] = "decided"], TablesTyped',
           UNCHANGED <<inode, nextId, job, known, turn, depth, at, tree, found, drow, script, moved, indoubt>>,
           UNCHANGED ddir
    PROVE  NameInv'
<1>0. PerSession /\ job[s].op \in Ops
  BY EntriesThere DEF ReplicaInv, SessionOK, RequestOK, InProgress
<1>1. pc'[s] = "decided" /\ \A t \in Sessions \ {s} : SameAll(t)
  BY <1>0 DEF PerSession, SameAll
<1>2. \A k, row : Final(k, row)' <=>
          IF k \in DOMAIN drow[s] THEN row # NoRow /\ drow[s][k] = row ELSE Final(k, row)
  BY <1>1, FinalAtDecision
<1>3. \A t \in Sessions : \A k, id : Pending(t, k, id)' => t # s /\ Pending(t, k, id)
  <2>1. \A k, id : ~ Pending(s, k, id)'
    BY <1>1 DEF Pending, Undecided
  <2> QED BY <1>1, <2>1, PendingKept
<1>4. ASSUME NEW k \in DOMAIN drow[s], drow[s][k] # NoRow
      PROVE  /\ k \in Keys /\ drow[s][k] \in Rows
             /\ \/ Pending(s, k, drow[s][k].id)
                \/ /\ job[s].op = "rename" /\ k = Dst(s).key
                   /\ Src(s).key \in Keys /\ Src(s).key \in DOMAIN drow[s]
                   /\ Final(Src(s).key, drow[s][k])
  BY <1>0, <1>4, DecidedRow
<1>5. \A r \in Rows : r.id \in Ids
  BY Typing
<1>6. ASSUME NEW k \in Keys, NEW row \in Rows, Final(k, row)',
             NEW m \in Keys, NEW other \in Rows, Final(m, other)', other.id = row.id
      PROVE  m = k
  <2>1. ASSUME NEW a \in Keys, NEW x \in Rows, Final(a, x)', a \in DOMAIN drow[s],
               NEW b \in Keys, NEW y \in Rows, Final(b, y)', b \notin DOMAIN drow[s]
        PROVE  x.id # y.id
    <3>1. drow[s][a] = x /\ x # NoRow /\ Final(b, y)
      BY <1>2, <2>1
    <3>2. CASE Pending(s, a, x.id)
      BY <1>5, <3>1, <3>2 DEF NameInv, PendingApart
    <3>3. CASE Src(s).key \in Keys /\ Src(s).key \in DOMAIN drow[s] /\ Final(Src(s).key, x)
      BY <2>1, <3>1, <3>3 DEF NameInv, FinalApart
    <3> QED BY <1>4, <2>1, <3>1, <3>2, <3>3
  <2>2. CASE k \in DOMAIN drow[s] /\ m \in DOMAIN drow[s]
    <3>1. drow[s][k] = row /\ drow[s][m] = other /\ row # NoRow /\ other # NoRow
      BY <1>2, <1>6, <2>2
    <3>2. CASE job[s].op = "rename"
      <4>1. \A a, id : ~ Pending(s, a, id)
        BY <3>2 DEF Pending
      <4>2. k = Dst(s).key
        BY <1>4, <2>2, <3>1, <4>1
      <4>3. m = Dst(s).key
        BY <1>4, <2>2, <3>1, <4>1
      <4> QED BY <4>2, <4>3
    <3>3. CASE job[s].op # "rename"
      <4>1. Pending(s, k, row.id)
        BY <1>4, <2>2, <3>1, <3>3
      <4>2. Pending(s, m, other.id)
        BY <1>4, <2>2, <3>1, <3>3
      <4> QED BY <1>5, <1>6, <4>1, <4>2 DEF NameInv, PendingApart
    <3> QED BY <3>2, <3>3
  <2>3. CASE k \in DOMAIN drow[s] /\ m \notin DOMAIN drow[s]
    BY <1>6, <2>1, <2>3
  <2>4. CASE k \notin DOMAIN drow[s] /\ m \in DOMAIN drow[s]
    BY <1>6, <2>1, <2>4
  <2>5. CASE k \notin DOMAIN drow[s] /\ m \notin DOMAIN drow[s]
    <3>1. Final(k, row) /\ Final(m, other)
      BY <1>2, <1>6, <2>5
    <3> QED BY <1>6, <3>1 DEF NameInv, FinalApart
  <2> QED BY <2>2, <2>3, <2>4, <2>5
<1>7. ASSUME NEW k \in Keys, NEW row \in Rows, Final(k, row)'
      PROVE  row.id < nextId
  <2>1. CASE k \in DOMAIN drow[s]
    <3>1. drow[s][k] = row /\ row # NoRow
      BY <1>2, <1>7, <2>1
    <3>2. CASE Pending(s, k, row.id)
      BY <1>5, <3>2 DEF NameInv, PendingApart
    <3>3. CASE Src(s).key \in Keys /\ Final(Src(s).key, row)
      BY <3>3 DEF NameInv, FinalApart
    <3> QED BY <1>4, <2>1, <3>1, <3>2, <3>3
  <2>2. CASE k \notin DOMAIN drow[s]
    BY <1>2, <1>7, <2>2 DEF NameInv, FinalApart
  <2> QED BY <2>1, <2>2
<1>8. FinalApart'
  BY <1>6, <1>7 DEF FinalApart
<1>9. ASSUME NEW t \in Sessions PROVE PendingApart(t)'
  <2> SUFFICES ASSUME NEW k \in Keys, NEW id \in Ids, Pending(t, k, id)'
      PROVE  /\ id < nextId
             /\ \A m \in Keys : \A row \in Rows : Final(m, row)' => row.id # id
             /\ \A u \in Sessions : \A m \in Keys : Pending(u, m, id)' => u = t /\ m = k
    BY DEF PendingApart
  <2>1. t # s /\ Pending(t, k, id)
    BY <1>3
  <2>2. /\ id < nextId
        /\ \A m \in Keys : \A row \in Rows : Final(m, row) => row.id # id
        /\ \A u \in Sessions : \A m \in Keys : Pending(u, m, id) => u = t /\ m = k
    BY <2>1 DEF NameInv, PendingApart
  <2>3. ASSUME NEW m \in Keys, NEW row \in Rows, Final(m, row)' PROVE row.id # id
    <3>1. CASE m \in DOMAIN drow[s]
      <4>1. drow[s][m] = row /\ row # NoRow
        BY <1>2, <2>3, <3>1
      <4>2. CASE Pending(s, m, row.id)
        BY <2>1, <2>2, <4>2
      <4>3. CASE Src(s).key \in Keys /\ Final(Src(s).key, row)
        BY <2>2, <4>3
      <4> QED BY <1>4, <3>1, <4>1, <4>2, <4>3
    <3>2. CASE m \notin DOMAIN drow[s]
      BY <1>2, <2>2, <2>3, <3>2
    <3> QED BY <3>1, <3>2
  <2> QED BY <1>3, <2>2, <2>3
<1>10. OneRowWriter'
  BY DEF NameInv, OneRowWriter
<1>11. ASSUME NEW t \in Sessions PROVE ParseTyped(t)' /\ TxnTyped(t)' /\ RowsSound(t)'
  <2>1. CASE t = s
    <3>1. ParseTyped(s)'
      BY <1>1 DEF NameInv, ParseTyped, RenamesDir, Undecided
    <3>2. TxnTyped(s)'
      BY DEF NameInv, TxnTyped
    <3>3. RowsSound(s)'
      BY <1>1 DEF RowsSound, RenameRows, RenameOrder, Undecided
    <3> QED BY <2>1, <3>1, <3>2, <3>3
  <2>2. CASE t # s
    BY <1>1, <2>2, NamesKept DEF NameInv
  <2> QED BY <2>1, <2>2
<1> QED BY <1>8, <1>9, <1>10, <1>11 DEF NameInv

\* A part that takes effect leaves directory rows with ids.
LEMMA ApplyIds ==
    ASSUME NEW f, DOMAIN f \subseteq Keys, \A k \in DOMAIN f : f[k] \in Ids, NEW g, KeyedIds(g)
    PROVE  /\ DOMAIN Apply(f, g, Absent) \subseteq Keys
           /\ \A k \in DOMAIN Apply(f, g, Absent) : Apply(f, g, Absent)[k] \in Ids
BY DEF Apply, KeyedIds

\* And inode rows that are rows.
LEMMA ApplyRows ==
    ASSUME NEW f, DOMAIN f \subseteq Keys, \A k \in DOMAIN f : f[k] \in Rows, NEW g, KeyedRows(g)
    PROVE  /\ DOMAIN Apply(f, g, NoRow) \subseteq Keys
           /\ \A k \in DOMAIN Apply(f, g, NoRow) : Apply(f, g, NoRow)[k] \in Rows
BY DEF Apply, KeyedRows

\* A table of one server changes.
LEMMA DirTyped ==
    ASSUME TablesTyped, DOMAIN dir = Servers, NEW sv \in Servers, NEW g, KeyedIds(g),
           dir' = [dir EXCEPT ![sv] = Apply(@, g, Absent)]
    PROVE  \A x \in Servers : DOMAIN dir'[x] \subseteq Keys /\ \A k \in DOMAIN dir'[x] : dir'[x][k] \in Ids
<1>1. \A x \in Servers : dir'[x] = IF x = sv THEN Apply(dir[sv], g, Absent) ELSE dir[x]
  OBVIOUS
<1>2. \A x \in Servers : DOMAIN dir[x] \subseteq Keys /\ \A k \in DOMAIN dir[x] : dir[x][k] \in Ids
  BY DEF TablesTyped
<1>3. /\ DOMAIN Apply(dir[sv], g, Absent) \subseteq Keys
      /\ \A k \in DOMAIN Apply(dir[sv], g, Absent) : Apply(dir[sv], g, Absent)[k] \in Ids
  BY <1>2, ApplyIds
<1> QED BY <1>1, <1>2, <1>3

\* The CN's commit.
LEMMA DecideStepNames ==
    ASSUME ReplicaInv, NameInv, NEW s \in Sessions, Decide(s)
    PROVE  NameInv'
<1>1. pc[s] \in Undecided /\ pc' = [pc EXCEPT ![s] = "decided"]
  BY DEF Decide, Undecided
<1>2. UNCHANGED <<inode, nextId, shared, exclusive, job, known, turn, depth, at, tree, found>>
  BY DEF Decide, locks, parse
<1>3. UNCHANGED <<ddir, drow, script, moved, indoubt, errors, lost>>
  BY DEF Decide, txn, faults
<1>4. dir' = [dir EXCEPT ![CN] = Apply(@, ddir[s][CN], Absent)]
  BY DEF Decide
<1>5. KeyedIds(ddir[s][CN]) /\ TablesTyped /\ CN \in Servers /\ DOMAIN dir = Servers
  BY Typing DEF NameInv, TxnTyped, ReplicaInv, ShapeOK
<1>6. \A x \in Servers : DOMAIN dir'[x] \subseteq Keys /\ \A k \in DOMAIN dir'[x] : dir'[x][k] \in Ids
  BY <1>4, <1>5, DirTyped
<1>7. TablesTyped'
  BY <1>2, <1>3, <1>5, <1>6 DEF TablesTyped
<1> QED BY <1>1, <1>2, <1>3, <1>7, DecideNames

\* A decision that writes no table.
LEMMA DecideAtOnce ==
    ASSUME ReplicaInv, NameInv, NEW s \in Sessions, pc[s] = "parse",
           pc' = [pc EXCEPT ![s] = "decided"],
           UNCHANGED <<tables, locks, job, known, parse, txn, faults>>
    PROVE  NameInv'
<1>1. UNCHANGED <<dir, inode, nextId, shared, exclusive, job, known, turn, depth, at, tree, found>>
  BY DEF tables, locks, parse
<1>2. UNCHANGED <<ddir, drow, script, moved, indoubt, errors, lost>>
  BY DEF txn, faults
<1>3. TablesTyped'
  BY <1>1, <1>2 DEF NameInv, TablesTyped
<1> QED BY <1>1, <1>2, <1>3, DecideNames DEF Undecided

\* A row is written: the types of the session's rows.
LEMMA WriteRowTyped ==
    ASSUME PerSession, NEW s \in Sessions, KeyedRows(drow[s]), NEW k \in Keys,
           NEW row \in Rows \cup {NoRow}, WriteRow(s, k, row)
    PROVE  /\ drow'[s] = Put(drow[s], k, row) /\ KeyedRows(drow'[s])
           /\ DOMAIN drow'[s] = DOMAIN drow[s] \cup {k}
           /\ \A m \in DOMAIN drow'[s] : drow'[s][m] = IF m = k THEN row ELSE drow[s][m]
           /\ DOMAIN drow' = Sessions /\ \A t \in Sessions \ {s} : drow'[t] = drow[t]
<1>1. drow'[s] = Put(drow[s], k, row)
  BY DEF WriteRow, PerSession
<1>2. /\ DOMAIN Put(drow[s], k, row) = DOMAIN drow[s] \cup {k}
      /\ \A m \in DOMAIN drow[s] \cup {k} : Put(drow[s], k, row)[m] = IF m = k THEN row ELSE drow[s][m]
  BY DEF Put
<1>3. KeyedRows(Put(drow[s], k, row))
  BY <1>2 DEF KeyedRows
<1> QED BY <1>1, <1>2, <1>3 DEF WriteRow, PerSession

\* create and unlink take the next name, and may write its row.
LEMMA OwnRowStep ==
    ASSUME ReplicaInv, NameInv, NEW s \in Sessions, pc[s] = "parse", job[s].op \in {"create", "unlink"},
           found[s] # <<>>, found' = [found EXCEPT ![s] = Tail(@)],
           UNCHANGED <<pc, tables, locks, job, known, turn, depth, at, tree, ddir, script, moved, faults>>,
           \/ UNCHANGED drow
           \/ /\ RowIsFree(s, found[s][1].key)
              /\ \/ job[s].op = "unlink" /\ WriteRow(s, found[s][1].key, NoRow)
                 \/ /\ job[s].op = "create"
                    /\ WriteRow(s, found[s][1].key, [id |-> found[s][1].id, isDir |-> FALSE])
    PROVE  NameInv'
<1>0. PerSession /\ ParseTyped(s) /\ TablesTyped /\ TxnTyped(s) /\ RowsSound(s) /\ IsSeq(found[s])
  BY EntriesThere DEF NameInv, ReplicaInv, ShapeOK
<1>1. UNCHANGED <<dir, inode, nextId, shared, exclusive, indoubt, errors, lost>>
  BY DEF tables, locks, faults
<1>2. /\ found'[s] = Tail(found[s]) /\ \A t \in Sessions \ {s} : found'[t] = found[t]
      /\ 1 \in DOMAIN found[s]
      /\ \A n \in DOMAIN found'[s] : n + 1 \in DOMAIN found[s] /\ found'[s][n] = found[s][n + 1]
  BY <1>0, SeqTail DEF PerSession
<1> DEFINE f == found[s][1]
           row == IF job[s].op = "create" THEN [id |-> f.id, isDir |-> FALSE] ELSE NoRow
<1>3. f.key \in Keys /\ (job[s].op = "create" => f.id \in Ids \ {Root})
  BY <1>0, <1>2 DEF ParseTyped
<1>4. row \in Rows \cup {NoRow} /\ (job[s].op = "create" => row.id = f.id) /\ (job[s].op = "unlink" => row = NoRow)
  BY <1>3 DEF Rows
<1>5. UNCHANGED drow \/ (RowIsFree(s, f.key) /\ WriteRow(s, f.key, row))
  OBVIOUS
<1> HIDE DEF row
<1>6. /\ KeyedRows(drow'[s]) /\ DOMAIN drow' = Sessions /\ \A t \in Sessions \ {s} : drow'[t] = drow[t]
      /\ \A m \in DOMAIN drow'[s] :
           \/ m \in DOMAIN drow[s] /\ drow'[s][m] = drow[s][m]
           \/ m = f.key /\ drow'[s][m] = row /\ RowIsFree(s, m)
  <2>1. KeyedRows(drow[s])
    BY <1>0 DEF TxnTyped
  <2>2. CASE UNCHANGED drow
    BY <1>0, <2>1, <2>2 DEF PerSession
  <2>3. CASE RowIsFree(s, f.key) /\ WriteRow(s, f.key, row)
    BY <1>0, <1>3, <1>4, <2>1, <2>3, WriteRowTyped
  <2> QED BY <1>5, <2>2, <2>3
<1>7. \A t \in Sessions \ {s} : SameAll(t)
  BY <1>2, <1>6 DEF SameAll
<1>8. TablesTyped'
  BY <1>0, <1>1, <1>6 DEF TablesTyped
<1>9. ParseTyped(s)'
  <2>1. RenamesDir(s)' <=> RenamesDir(s)
    BY DEF RenamesDir
  <2>2. ~ RenamesDir(s)
    BY DEF RenamesDir
  <2> QED BY <1>0, <1>2, <2>1, <2>2 DEF ParseTyped
<1>10. TxnTyped(s)'
  BY <1>0, <1>6 DEF TxnTyped
<1>11. RowsSound(s)'
  <2>1. job[s].op = "unlink" => \A k \in DOMAIN drow'[s] : drow'[s][k] = NoRow
    BY <1>0, <1>4, <1>6 DEF RowsSound, Undecided
  <2> QED BY <2>1 DEF RowsSound, RenameRows, RenameOrder
<1>12. ASSUME NEW k, NEW id, Pending(s, k, id)' PROVE Pending(s, k, id)
  <2>1. job[s].op = "create"
    BY <1>12 DEF Pending
  <2>2. CASE \E n \in DOMAIN found'[s] : found'[s][n].key = k /\ found'[s][n].id = id
    BY <1>2, <2>1, <2>2 DEF Pending, Undecided
  <2>3. CASE k \in DOMAIN drow'[s] /\ drow'[s][k] # NoRow /\ drow'[s][k].id = id
    <3>1. CASE k \in DOMAIN drow[s] /\ drow'[s][k] = drow[s][k]
      BY <2>1, <2>3, <3>1 DEF Pending, Undecided
    <3>2. CASE k = f.key /\ drow'[s][k] = row
      <4>1. f.key = k /\ f.id = id
        BY <1>4, <2>1, <2>3, <3>2
      <4> QED BY <1>2, <2>1, <4>1 DEF Pending, Undecided
    <3> QED BY <1>6, <2>3, <3>1, <3>2
  <2> QED BY <1>12, <2>2, <2>3 DEF Pending
<1>13. nextId <= nextId'
  BY <1>0, <1>1 DEF TablesTyped
<1>14. \A k \in DOMAIN drow'[s] : k \in DOMAIN drow[s] \/ RowIsFree(s, k)
  BY <1>6
<1> QED BY <1>1, <1>7, <1>8, <1>9, <1>10, <1>11, <1>12, <1>13, <1>14, NameStep

\* create.
LEMMA CreateRowNames ==
    ASSUME ReplicaInv, NameInv, NEW s \in Sessions, CreateRow(s)
    PROVE  NameInv'
<1>1. pc[s] = "parse" /\ job[s].op = "create"
  BY DEF CreateRow, Parsed
<1>2. CASE found[s] = <<>> /\ pc' = [pc EXCEPT ![s] = "decided"] /\ UNCHANGED <<found, drow>>
  <2>1. UNCHANGED <<tables, locks, job, known, parse, txn, faults>>
    BY <1>2 DEF CreateRow, parse, txn
  <2> QED BY <1>1, <1>2, <2>1, DecideAtOnce
<1>3. CASE /\ found[s] # <<>> /\ found' = [found EXCEPT ![s] = Tail(@)] /\ UNCHANGED pc
           /\ \/ UNCHANGED drow
              \/ /\ RowIsFree(s, found[s][1].key)
                 /\ WriteRow(s, found[s][1].key, [id |-> found[s][1].id, isDir |-> FALSE])
  <2>1. UNCHANGED <<tables, locks, job, known, turn, depth, at, tree, ddir, script, moved, faults>>
    BY DEF CreateRow
  <2> QED BY <1>1, <1>3, <2>1, OwnRowStep
<1> QED BY <1>2, <1>3 DEF CreateRow

\* unlink.
LEMMA UnlinkRowNames ==
    ASSUME ReplicaInv, NameInv, NEW s \in Sessions, UnlinkRow(s)
    PROVE  NameInv'
<1>1. pc[s] = "parse" /\ job[s].op = "unlink"
  BY DEF UnlinkRow, Parsed
<1>2. CASE found[s] = <<>> /\ pc' = [pc EXCEPT ![s] = "decided"] /\ UNCHANGED <<found, drow>>
  <2>1. UNCHANGED <<tables, locks, job, known, parse, txn, faults>>
    BY <1>2 DEF UnlinkRow, parse, txn
  <2> QED BY <1>1, <1>2, <2>1, DecideAtOnce
<1>3. CASE /\ found[s] # <<>> /\ found' = [found EXCEPT ![s] = Tail(@)] /\ UNCHANGED pc
           /\ \/ UNCHANGED drow
              \/ RowIsFree(s, found[s][1].key) /\ WriteRow(s, found[s][1].key, NoRow)
  <2>1. UNCHANGED <<tables, locks, job, known, turn, depth, at, tree, ddir, script, moved, faults>>
    BY DEF UnlinkRow
  <2> QED BY <1>1, <1>3, <2>1, OwnRowStep
<1> QED BY <1>2, <1>3 DEF UnlinkRow

-----------------------------------------------------------------------------
(* What the workers are asked.                                              *)

\* A step from parsing to the calls: the scripts are typed, and they create nothing
\* but what is pending.
LEMMA CallsNames ==
    ASSUME ReplicaInv, NameInv, NEW s \in Sessions, pc[s] = "parse", job[s].op \in {"mkdir", "rmdir", "rename"},
           pc' = [pc EXCEPT ![s] = "calls"], NEW f, script' = [script EXCEPT ![s] = f],
           UNCHANGED <<tables, locks, job, known, parse, drow, moved, faults>>,
           \A sv \in Servers : KeyedIds(ddir'[s][sv]), \A t \in Sessions \ {s} : ddir'[t] = ddir[t],
           \A w \in Workers : \A n \in DOMAIN f[w] :
               /\ f[w][n].key \in Keys
               /\ f[w][n].do = "insert" => f[w][n].id \in Ids
               /\ f[w][n].do = "create" =>
                    \E i \in DOMAIN found[s] : f[w][n].key = found[s][i].key /\ f[w][n].id = found[s][i].id
               /\ job[s].op = "mkdir" => f[w][n].do \in {"insert", "create"}
               /\ job[s].op = "rmdir" => f[w][n].do \in {"delete", "empty", "unlink"}
               /\ job[s].op = "rename" => f[w][n].do \in {"insert", "delete", "take", "put"},
           job[s].op = "rename" => Src(s).key \in Keys /\ Dst(s).key \in Keys,
           RenameOrder(s)'
    PROVE  NameInv'
<1>0. PerSession /\ ParseTyped(s) /\ TablesTyped /\ TxnTyped(s) /\ RowsSound(s)
  BY EntriesThere DEF NameInv
<1>1. UNCHANGED <<dir, inode, nextId, shared, exclusive, turn, depth, at, tree, found, indoubt, errors, lost>>
  BY DEF tables, locks, parse, faults
<1>2. /\ pc'[s] = "calls" /\ script'[s] = f
      /\ \A t \in Sessions \ {s} : pc'[t] = pc[t] /\ script'[t] = script[t]
  BY <1>0 DEF PerSession
<1>3. \A t \in Sessions \ {s} : SameAll(t)
  BY <1>1, <1>2 DEF SameAll
<1>4. TablesTyped'
  BY <1>0, <1>1 DEF TablesTyped
<1>5. ParseTyped(s)'
  BY <1>0, <1>1, <1>2 DEF ParseTyped, RenamesDir, Undecided
<1>6. DOMAIN drow[s] = {}
  BY <1>0 DEF RowsSound
<1>7. \A w \in Workers : \A n \in DOMAIN f[w] :
        f[w][n].do = "create" => job[s].op = "mkdir" /\ f[w][n].id \in Ids \ {Root}
  <2> SUFFICES ASSUME NEW w \in Workers, NEW n \in DOMAIN f[w], f[w][n].do = "create"
      PROVE  job[s].op = "mkdir" /\ f[w][n].id \in Ids \ {Root}
    OBVIOUS
  <2>1. job[s].op = "mkdir"
    OBVIOUS
  <2>2. PICK i \in DOMAIN found[s] : f[w][n].id = found[s][i].id
    OBVIOUS
  <2>3. found[s][i].id \in Ids \ {Root}
    BY <1>0, <2>1 DEF ParseTyped
  <2> QED BY <2>1, <2>2, <2>3
<1>8. TxnTyped(s)'
  BY <1>0, <1>2, <1>7 DEF TxnTyped
<1>9. RowsSound(s)'
  <2>1. RenameRows(s)'
    <3>1. Src(s)' = Src(s) /\ Dst(s)' = Dst(s)
      BY <1>1 DEF Src, Dst
    <3> QED BY <1>6, <3>1 DEF RenameRows
  <2> QED BY <1>2, <1>6, <2>1 DEF RowsSound
<1>10. ASSUME NEW k, NEW id, Pending(s, k, id)' PROVE Pending(s, k, id)
  <2>1. PICK w \in Workers : \E n \in DOMAIN f[w] : f[w][n].do = "create" /\ f[w][n].key = k /\ f[w][n].id = id
    BY <1>2, <1>6, <1>10 DEF Pending
  <2>2. PICK i \in DOMAIN found[s] : k = found[s][i].key /\ id = found[s][i].id
    BY <2>1
  <2>3. job[s].op \in {"mkdir", "create"}
    BY <1>10 DEF Pending
  <2> QED BY <2>2, <2>3 DEF Pending, Undecided
<1>11. nextId <= nextId'
  BY <1>0, <1>1 DEF TablesTyped
<1>12. pc[s] # "decided" /\ pc'[s] # "decided"
  BY <1>2
<1> QED BY <1>1, <1>3, <1>4, <1>5, <1>8, <1>9, <1>10, <1>11, <1>12, NameStep

\* mkdir's statements are about what it has found.
LEMMA MkdirScriptNames ==
    ASSUME NEW s \in Sessions, IsSeq(found[s]), NEW w
    PROVE  \A n \in DOMAIN MkdirScript(s, w) : LET st == MkdirScript(s, w)[n] IN
             /\ st.do \in {"insert", "create"}
             /\ \E i \in DOMAIN found[s] : st.key = found[s][i].key /\ st.id = found[s][i].id
<1> DEFINE ins == [i \in 1..Len(found[s]) |-> Stmt("insert", found[s][i].key, found[s][i].id)]
           new == CreateStmts(found[s], w)
<1>1. Len(found[s]) \in Nat /\ DOMAIN found[s] = 1..Len(found[s])
  BY DEF IsSeq
<1>2. IsSeq(ins)
  BY <1>1, SeqOfFunction
<1>3. \A i \in DOMAIN ins : /\ ins[i].do = "insert" /\ i \in DOMAIN found[s]
                            /\ ins[i].key = found[s][i].key /\ ins[i].id = found[s][i].id
  BY <1>1 DEF Stmt
<1>4. new \in Seq(CreateSet(found[s]))
  BY <1>1, CreateStmtsSound
<1>5. \A st \in CreateSet(found[s]) :
        st.do = "create" /\ \E i \in DOMAIN found[s] : st.key = found[s][i].key /\ st.id = found[s][i].id
  BY <1>1 DEF CreateSet, Stmt
<1>6. MkdirScript(s, w) = ins \o new
  BY DEF MkdirScript
<1> HIDE DEF ins, new
<1>7. IsSeq(new) /\ \A n \in DOMAIN new : new[n] \in CreateSet(found[s])
  BY <1>4, SeqIsSeq
<1>8. Joined(ins, new, MkdirScript(s, w))
  BY <1>2, <1>6, <1>7, SeqConcat
<1> SUFFICES ASSUME NEW n \in DOMAIN MkdirScript(s, w)
    PROVE  /\ MkdirScript(s, w)[n].do \in {"insert", "create"}
           /\ \E i \in DOMAIN found[s] : /\ MkdirScript(s, w)[n].key = found[s][i].key
                                         /\ MkdirScript(s, w)[n].id = found[s][i].id
  OBVIOUS
<1> DEFINE c == MkdirScript(s, w)
<1> HIDE DEF c
<1>9. \/ n \in DOMAIN ins /\ c[n] = ins[n]
      \/ n - Len(ins) \in DOMAIN new /\ c[n] = new[n - Len(ins)]
  BY <1>8 DEF Joined, c
<1>10. c[n].do \in {"insert", "create"} /\ \E i \in DOMAIN found[s] : c[n].key = found[s][i].key /\ c[n].id = found[s][i].id
  <2>1. CASE n \in DOMAIN ins /\ c[n] = ins[n]
    BY <1>3, <2>1
  <2>2. CASE n - Len(ins) \in DOMAIN new /\ c[n] = new[n - Len(ins)]
    <3>1. c[n] \in CreateSet(found[s])
      BY <1>7, <2>2
    <3> QED BY <1>5, <3>1
  <2> QED BY <1>9, <2>1, <2>2
<1> QED BY <1>10 DEF c

\* mkdir.
LEMMA MkdirCallsNames ==
    ASSUME ReplicaInv, NameInv, NEW s \in Sessions, MkdirCalls(s)
    PROVE  NameInv'
<1>0. PerSession /\ ParseTyped(s) /\ TxnTyped(s) /\ IsSeq(found[s])
  BY EntriesThere DEF NameInv, ReplicaInv, ShapeOK
<1>1. pc[s] = "parse" /\ job[s].op = "mkdir"
  BY DEF MkdirCalls, Parsed
<1>2. UNCHANGED <<tables, locks, job, known, parse, ddir, drow, moved, faults>>
  BY DEF MkdirCalls
<1>3. CASE pc' = [pc EXCEPT ![s] = "decided"] /\ UNCHANGED script
  BY <1>1, <1>2, <1>3, DecideAtOnce DEF txn
<1> DEFINE f == [w \in Workers |-> MkdirScript(s, w)]
<1>4. CASE pc' = [pc EXCEPT ![s] = "calls"] /\ script' = [script EXCEPT ![s] = f]
  <2>1. ASSUME NEW w \in Workers, NEW n \in DOMAIN f[w]
        PROVE  /\ f[w][n].do \in {"insert", "create"}
               /\ \E i \in DOMAIN found[s] : f[w][n].key = found[s][i].key /\ f[w][n].id = found[s][i].id
    BY <1>0, <2>1, MkdirScriptNames
  <2> HIDE DEF f
  <2>2. \A i \in DOMAIN found[s] : found[s][i].key \in Keys /\ found[s][i].id \in Ids
    BY <1>0, <1>1 DEF ParseTyped
  <2>3. \A sv \in Servers : KeyedIds(ddir'[s][sv])
    BY <1>0, <1>2 DEF TxnTyped
  <2>4. RenameOrder(s)'
    BY <1>1, <1>2 DEF RenameOrder
  <2>5. ASSUME NEW w \in Workers, NEW n \in DOMAIN f[w]
        PROVE  /\ f[w][n].key \in Keys
               /\ f[w][n].do = "insert" => f[w][n].id \in Ids
               /\ f[w][n].do = "create" =>
                    \E i \in DOMAIN found[s] : f[w][n].key = found[s][i].key /\ f[w][n].id = found[s][i].id
               /\ f[w][n].do \in {"insert", "create"}
    <3>1. PICK i \in DOMAIN found[s] : f[w][n].key = found[s][i].key /\ f[w][n].id = found[s][i].id
      BY <2>1
    <3> QED BY <2>1, <2>2, <3>1
  <2> QED BY <1>1, <1>2, <1>4, <2>3, <2>4, <2>5, CallsNames
<1> QED BY <1>3, <1>4 DEF MkdirCalls

\* The elements of a concatenation, and what they have in common.
LEMMA ConcatElements ==
    ASSUME NEW q, IsSeq(q), NEW r, IsSeq(r), NEW S,
           \A i \in DOMAIN q : q[i] \in S, \A i \in DOMAIN r : r[i] \in S
    PROVE  IsSeq(q \o r) /\ \A i \in DOMAIN (q \o r) : (q \o r)[i] \in S
<1> DEFINE c == q \o r
<1>1. Joined(q, r, c)
  BY SeqConcat
<1> HIDE DEF c
<1>2. IsSeq(c) /\ \A i \in DOMAIN c : c[i] \in S
  BY <1>1 DEF Joined
<1> QED BY <1>2 DEF c

\* A sequence of two, and what they have in common.
LEMMA PairElements ==
    ASSUME NEW S, NEW x \in S, NEW y \in S
    PROVE  IsSeq(<<x, y>>) /\ \A i \in DOMAIN <<x, y>> : <<x, y>>[i] \in S
<1>1. IsSeq(<<x, y>>) /\ DOMAIN <<x, y>> = {1, 2} /\ <<x, y>>[1] = x /\ <<x, y>>[2] = y
  BY SmallSeqs
<1> QED BY <1>1

\* rmdir has found its one path.
LEMMA RmdirFound ==
    ASSUME ReplicaInv, NEW s \in Sessions, Parsed(s), job[s].op = "rmdir"
    PROVE  1 \in DOMAIN found[s]
<1>1. pc[s] = "parse" /\ IsSeq(found[s]) /\ RequestOK(s) /\ turn[s] > Len(job[s].paths)
  BY DEF Parsed, ReplicaInv, ShapeOK, SessionOK
<1>2. Len(job[s].paths) = 1 /\ turn[s] \in 1 .. Len(job[s].paths) + 1 /\ Len(found[s]) = turn[s] - 1
  BY <1>1 DEF RequestOK, InProgress, Undecided
<1>3. turn[s] \in 1..2 /\ turn[s] > 1
  BY <1>1, <1>2
<1>4. Len(found[s]) = 1
  BY <1>2, <1>3
<1> QED BY <1>1, <1>4 DEF IsSeq

\* rmdir.
LEMMA RmdirCallsNames ==
    ASSUME ReplicaInv, NameInv, NEW s \in Sessions, RmdirCalls(s)
    PROVE  NameInv'
<1>0. PerSession /\ ParseTyped(s) /\ TxnTyped(s) /\ IsSeq(found[s])
  BY EntriesThere DEF NameInv, ReplicaInv, ShapeOK
<1>1. pc[s] = "parse" /\ job[s].op = "rmdir" /\ Parsed(s)
  BY DEF RmdirCalls, Parsed
<1>2. UNCHANGED <<tables, locks, job, known, parse, ddir, drow, moved, faults>>
  BY DEF RmdirCalls
<1> DEFINE k == found[s][1].key
           del == Stmt("delete", k, found[s][1].id)
           emp == Stmt("empty", k, found[s][1].id)
           unl == Stmt("unlink", k, found[s][1].id)
           S == {del, emp, unl}
           f == [w \in Workers |-> RmdirScript(s, w)]
<1>3. k \in Keys
  BY <1>0, <1>1, RmdirFound DEF ParseTyped
<1>4. \A st \in S : st.key \in Keys /\ st.do \in {"delete", "empty", "unlink"}
  BY <1>3 DEF Stmt
<1>5. pc' = [pc EXCEPT ![s] = "calls"] /\ script' = [script EXCEPT ![s] = f]
  BY DEF RmdirCalls
<1>6. ASSUME NEW w \in Workers, NEW n \in DOMAIN f[w] PROVE f[w][n] \in S
  <2>1. f[w] = <<del, emp>> \o <<unl>> \/ f[w] = <<del, emp>> \o <<>>
    BY DEF RmdirScript
  <2> HIDE DEF f, del, emp, unl
  <2>2. IsSeq(<<del, emp>>) /\ \A i \in DOMAIN <<del, emp>> : <<del, emp>>[i] \in S
    <3>1. del \in S /\ emp \in S
      OBVIOUS
    <3> QED BY <3>1, PairElements
  <2>3. IsSeq(<<unl>>) /\ \A i \in DOMAIN <<unl>> : <<unl>>[i] \in S
    BY SmallSeqs
  <2>4. \A i \in DOMAIN (<<del, emp>> \o <<unl>>) : (<<del, emp>> \o <<unl>>)[i] \in S
    BY <2>2, <2>3, ConcatElements
  <2>5. \A i \in DOMAIN (<<del, emp>> \o <<>>) : (<<del, emp>> \o <<>>)[i] \in S
    BY <2>2, SeqEmpty, ConcatElements
  <2> QED BY <1>6, <2>1, <2>4, <2>5
<1> HIDE DEF f, S, k
<1>7. \A sv \in Servers : KeyedIds(ddir'[s][sv])
  BY <1>0, <1>2 DEF TxnTyped
<1>8. RenameOrder(s)'
  BY <1>1, <1>2 DEF RenameOrder
<1>9. ASSUME NEW w \in Workers, NEW n \in DOMAIN f[w]
      PROVE  f[w][n].key \in Keys /\ f[w][n].do \in {"delete", "empty", "unlink"}
  BY <1>4, <1>6
<1> QED BY <1>1, <1>2, <1>5, <1>7, <1>8, <1>9, CallsNames

\* rename has found its two paths.
LEMMA RenameFound ==
    ASSUME ReplicaInv, NameInv, NEW s \in Sessions, Parsed(s), job[s].op = "rename"
    PROVE  Src(s).key \in Keys /\ Dst(s).key \in Keys /\ (RenamesDir(s) => Dst(s).id \in Ids)
<1>1. pc[s] = "parse" /\ IsSeq(found[s]) /\ RequestOK(s) /\ turn[s] > Len(job[s].paths) /\ ParseTyped(s)
  BY DEF Parsed, ReplicaInv, ShapeOK, SessionOK, NameInv
<1>2. /\ Len(job[s].paths) = 2 /\ turn[s] \in 1 .. Len(job[s].paths) + 1 /\ Len(found[s]) = turn[s] - 1
      /\ job[s].src \in 1..2
  BY <1>1 DEF RequestOK, InProgress, Undecided
<1>3. turn[s] \in 1..3 /\ turn[s] > 2
  BY <1>1, <1>2
<1>4. Len(found[s]) = 2
  BY <1>2, <1>3
<1>5. DOMAIN found[s] = 1..2
  BY <1>1, <1>4 DEF IsSeq
<1>6. job[s].src \in DOMAIN found[s] /\ 3 - job[s].src \in DOMAIN found[s] /\ 3 - job[s].src # job[s].src
  BY <1>2, <1>5
<1> QED BY <1>1, <1>6 DEF ParseTyped, Src, Dst

\* What a worker is asked for a rename: the row is put only after it was taken.
LEMMA RenameScriptNames ==
    ASSUME NEW s \in Sessions, NEW w, RenamesDir(s) => Dst(s).id \in Ids
    PROVE  LET c == RenameScript(s, w) IN
           /\ \A n \in DOMAIN c :
                /\ c[n].do \in {"insert", "delete", "take", "put"}
                /\ c[n].key = Src(s).key \/ c[n].key = Dst(s).key
                /\ c[n].do = "insert" => c[n].id \in Ids
                /\ c[n].do = "take" => c[n].key = Src(s).key
                /\ c[n].do = "put" =>
                     c[n].key = Dst(s).key /\ \E i \in DOMAIN c : i < n /\ c[i].do = "take"
           /\ Home[Src(s).key[2]] = w => \E n \in DOMAIN c : c[n].do = "take"
<1> DEFINE k == Src(s).key
           m == Dst(s).key
           id == Dst(s).id
           del == Stmt("delete", k, id)
           ins == Stmt("insert", m, id)
           take == Stmt("take", k, id)
           put == Stmt("put", m, id)
           q == IF ~RenamesDir(s) THEN <<>> ELSE IF job[s].src = 1 THEN <<del, ins>> ELSE <<ins, del>>
           a == IF Home[k[2]] = w THEN <<take>> ELSE <<>>
           b == IF Home[k[2]] = w /\ Home[m[2]] = w THEN <<put>> ELSE <<>>
           S == IF RenamesDir(s) THEN {del, ins} ELSE {}
<1>1. RenameScript(s, w) = (q \o a) \o b
  BY DEF RenameScript
<1>2. /\ del.do = "delete" /\ del.key = k /\ ins.do = "insert" /\ ins.key = m /\ ins.id = id
      /\ take.do = "take" /\ take.key = k /\ put.do = "put" /\ put.key = m
  BY DEF Stmt
<1> HIDE DEF del, ins, take, put
<1>3. IsSeq(q) /\ \A i \in DOMAIN q : q[i] \in S
  <2>1. CASE ~ RenamesDir(s)
    BY <2>1, SeqEmpty
  <2>2. CASE RenamesDir(s)
    <3>1. del \in S /\ ins \in S /\ (q = <<del, ins>> \/ q = <<ins, del>>)
      BY <2>2
    <3> HIDE DEF S, q
    <3> QED BY <3>1, PairElements
  <2> QED BY <2>1, <2>2
<1>4. IsSeq(a) /\ (\A i \in DOMAIN a : a[i] = take) /\ (Home[k[2]] = w => 1 \in DOMAIN a)
  BY SeqEmpty, SmallSeqs
<1>5. IsSeq(b) /\ \A i \in DOMAIN b : b[i] = put /\ Home[k[2]] = w
  BY SeqEmpty, SmallSeqs
<1>6. \A st \in S : /\ st = del \/ st = ins
                    /\ RenamesDir(s)
  OBVIOUS
<1> DEFINE e == q \o a
           c == e \o b
<1> HIDE DEF q, a, b, S
<1>7. Joined(q, a, e)
  BY <1>3, <1>4, SeqConcat
<1>8. IsSeq(e)
  BY <1>7 DEF Joined
<1> HIDE DEF e
<1>9. Joined(e, b, c)
  BY <1>5, <1>8, SeqConcat
<1> HIDE DEF c
<1>10. /\ \A i \in DOMAIN e : e[i] \in S \/ e[i] = take
       /\ Home[k[2]] = w => \E i \in DOMAIN e : e[i] = take
  <2>1. \A i \in DOMAIN e : e[i] \in S \/ e[i] = take
    BY <1>3, <1>4, <1>7 DEF Joined
  <2>2. ASSUME Home[k[2]] = w PROVE \E i \in DOMAIN e : e[i] = take
    <3>1. 1 \in DOMAIN a /\ a[1] = take
      BY <1>4, <2>2
    <3> QED BY <1>7, <3>1 DEF Joined
  <2> QED BY <2>1, <2>2
<1>11. Len(e) \in Nat /\ DOMAIN e = 1..Len(e)
  BY <1>8 DEF IsSeq
<1>12. Len(b) \in Nat /\ DOMAIN b = 1..Len(b)
  BY <1>5 DEF IsSeq
<1>13. IsSeq(c)
  BY <1>9 DEF Joined
<1>14. Len(c) \in Nat /\ DOMAIN c = 1..Len(c)
  BY <1>13 DEF IsSeq
<1>15. ASSUME NEW n \in DOMAIN c
       PROVE  \/ c[n] \in S \/ c[n] = take
              \/ c[n] = put /\ \E i \in DOMAIN c : i < n /\ c[i] = take
  <2>1. CASE n \in DOMAIN e /\ c[n] = e[n]
    BY <1>10, <2>1
  <2>2. CASE n - Len(e) \in DOMAIN b /\ c[n] = b[n - Len(e)]
    <3>1. c[n] = put /\ Home[k[2]] = w
      BY <1>5, <2>2
    <3>2. PICK i \in DOMAIN e : e[i] = take
      BY <1>10, <3>1
    <3>3. i \in DOMAIN c /\ c[i] = take
      BY <1>9, <3>2 DEF Joined
    <3>4. n - Len(e) >= 1 /\ i <= Len(e) /\ n \in Nat /\ i \in Nat
      BY <1>11, <1>12, <1>14, <2>2
    <3>5. i < n
      BY <1>11, <3>4
    <3> QED BY <3>1, <3>3, <3>5
  <2> QED BY <1>9, <2>1, <2>2 DEF Joined
<1>16. Home[k[2]] = w => \E n \in DOMAIN c : c[n] = take
  BY <1>9, <1>10 DEF Joined
<1>17. RenameScript(s, w) = c
  BY <1>1 DEF c, e
<1>18. ASSUME NEW n \in DOMAIN c
       PROVE  /\ c[n].do \in {"insert", "delete", "take", "put"}
              /\ c[n].key = k \/ c[n].key = m
              /\ c[n].do = "insert" => c[n].id \in Ids
              /\ c[n].do = "take" => c[n].key = k
              /\ c[n].do = "put" => c[n].key = m /\ \E i \in DOMAIN c : i < n /\ c[i].do = "take"
  <2>1. CASE c[n] \in S
    <3>1. (c[n] = del \/ c[n] = ins) /\ id \in Ids
      BY <1>6, <2>1
    <3> QED BY <1>2, <3>1
  <2>2. CASE c[n] = take
    BY <1>2, <2>2
  <2>3. CASE c[n] = put /\ \E i \in DOMAIN c : i < n /\ c[i] = take
    BY <1>2, <2>3
  <2> QED BY <1>15, <2>1, <2>2, <2>3
<1>19. Home[k[2]] = w => \E n \in DOMAIN c : c[n].do = "take"
  BY <1>2, <1>16
<1> QED BY <1>17, <1>18, <1>19

\* rename.
LEMMA RenameCallsNames ==
    ASSUME ReplicaInv, NameInv, NEW s \in Sessions, RenameCalls(s)
    PROVE  NameInv'
<1>0. PerSession /\ ParseTyped(s) /\ TxnTyped(s) /\ IsSeq(found[s])
  BY EntriesThere DEF NameInv, ReplicaInv, ShapeOK
<1>1. pc[s] = "parse" /\ job[s].op = "rename" /\ Parsed(s)
  BY DEF RenameCalls, Parsed
<1>2. UNCHANGED <<tables, locks, job, known, parse, drow, moved, faults>>
  BY DEF RenameCalls
<1>3. Src(s).key \in Keys /\ Dst(s).key \in Keys /\ (RenamesDir(s) => Dst(s).id \in Ids)
  BY <1>1, RenameFound
<1> DEFINE f == [w \in Workers |-> RenameScript(s, w)]
<1>4. pc' = [pc EXCEPT ![s] = "calls"] /\ script' = [script EXCEPT ![s] = f]
  BY DEF RenameCalls
<1>5. ASSUME NEW w \in Workers
      PROVE  /\ \A n \in DOMAIN f[w] :
                  /\ f[w][n].do \in {"insert", "delete", "take", "put"}
                  /\ f[w][n].key = Src(s).key \/ f[w][n].key = Dst(s).key
                  /\ f[w][n].do = "insert" => f[w][n].id \in Ids
                  /\ f[w][n].do = "take" => f[w][n].key = Src(s).key
                  /\ f[w][n].do = "put" =>
                       f[w][n].key = Dst(s).key /\ \E i \in DOMAIN f[w] : i < n /\ f[w][i].do = "take"
             /\ Home[Src(s).key[2]] = w => \E n \in DOMAIN f[w] : f[w][n].do = "take"
  <2>1. f[w] = RenameScript(s, w)
    OBVIOUS
  <2> HIDE DEF f
  <2> QED BY <1>3, <2>1, RenameScriptNames
<1> HIDE DEF f
<1>6. script'[s] = f
  BY <1>0, <1>4 DEF PerSession
<1>7. RenameOrder(s)'
  <2>1. Src(s)' = Src(s) /\ Dst(s)' = Dst(s)
    BY <1>2 DEF Src, Dst, parse
  <2>2. Home[Src(s).key[2]] \in Workers
    BY <1>3, NamespaceAssumptions DEF Keys
  <2>3. \E w \in Workers : \E n \in DOMAIN f[w] : f[w][n].do = "take"
    BY <1>5, <2>2
  <2> QED BY <1>5, <1>6, <2>1, <2>3 DEF RenameOrder
<1>8. (\A sv \in Servers : KeyedIds(ddir'[s][sv])) /\ (\A t \in Sessions \ {s} : ddir'[t] = ddir[t])
  <2>1. DOMAIN ddir[s] = Servers /\ \A sv \in Servers : KeyedIds(ddir[s][sv])
    BY <1>0 DEF TxnTyped, ReplicaInv, ShapeOK
  <2>2. CASE ~ RenamesDir(s)
    <3>1. ddir' = ddir
      BY <2>2 DEF RenameCalls
    <3> QED BY <2>1, <3>1
  <2>3. CASE RenamesDir(s)
    <3> DEFINE g == Put(Put(ddir[s][CN], Src(s).key, Absent), Dst(s).key, Dst(s).id)
    <3>1. ddir' = [ddir EXCEPT ![s][CN] = g]
      BY <2>3 DEF RenameCalls
    <3>2. KeyedIds(ddir[s][CN])
      BY <2>1, Typing
    <3>3. KeyedIds(g)
      <4>1. KeyedIds(Put(ddir[s][CN], Src(s).key, Absent))
        BY <1>3, <3>2 DEF KeyedIds, Put
      <4> QED BY <1>3, <2>3, <4>1 DEF KeyedIds, Put
    <3> HIDE DEF g
    <3>4. ddir'[s] = [ddir[s] EXCEPT ![CN] = g] /\ \A t \in Sessions \ {s} : ddir'[t] = ddir[t]
      BY <1>0, <3>1 DEF PerSession
    <3>5. \A sv \in Servers : ddir'[s][sv] = IF sv = CN THEN g ELSE ddir[s][sv]
      BY <2>1, <3>4
    <3> QED BY <2>1, <3>3, <3>4, <3>5
  <2> QED BY <2>2, <2>3
<1>9. ASSUME NEW w \in Workers, NEW n \in DOMAIN f[w]
      PROVE  /\ f[w][n].key \in Keys /\ f[w][n].do \in {"insert", "delete", "take", "put"}
             /\ f[w][n].do = "insert" => f[w][n].id \in Ids
  BY <1>3, <1>5
<1> QED BY <1>1, <1>2, <1>3, <1>4, <1>7, <1>8, <1>9, CallsNames

\* A step of the calls: no statement is new but the second call of a rename, and a
\* mkdir writes what was pending.
LEMMA CallStep ==
    ASSUME ReplicaInv, NameInv, NEW s \in Sessions, \A t \in Sessions \ {s} : SameAll(t),
           pc[s] \in {"calls", "create"}, pc'[s] \in {"calls", "create"},
           UNCHANGED <<job, known, turn, depth, at, tree, found, inode, nextId, indoubt>>,
           TablesTyped', TxnTyped(s)', RenameRows(s)', RenameOrder(s)',
           \A w \in Workers : \A n \in DOMAIN script'[s][w] :
               \/ \E i \in DOMAIN script[s][w] : script'[s][w][n] = script[s][w][i]
               \/ job[s].op = "rename" /\ script'[s][w][n].do = "put",
           \A k \in DOMAIN drow'[s] :
               \/ k \in DOMAIN drow[s] /\ drow'[s][k] = drow[s][k]
               \/ /\ RowIsFree(s, k)
                  /\ job[s].op = "rmdir" => drow'[s][k] = NoRow
                  /\ job[s].op = "mkdir" => Pending(s, k, drow'[s][k].id)
    PROVE  NameInv'
<1>0. TablesTyped /\ ParseTyped(s) /\ RowsSound(s) /\ job[s].op \in {"mkdir", "rmdir", "rename"}
  BY DEF NameInv, RowsSound
<1>1. ParseTyped(s)'
  BY <1>0 DEF ParseTyped, RenamesDir, Undecided
<1>2. ASSUME NEW w \in Workers, NEW n \in DOMAIN script'[s][w]
      PROVE  LET do == script'[s][w][n].do IN
             /\ job[s].op = "mkdir" => do \in {"insert", "create"}
             /\ job[s].op = "rmdir" => do \in {"delete", "empty", "unlink"}
             /\ job[s].op = "rename" => do \in {"insert", "delete", "take", "put"}
  <2>1. CASE \E i \in DOMAIN script[s][w] : script'[s][w][n] = script[s][w][i]
    BY <1>0, <2>1 DEF RowsSound
  <2>2. CASE job[s].op = "rename" /\ script'[s][w][n].do = "put"
    BY <2>2
  <2> QED BY <2>1, <2>2
<1>3. job[s].op = "rmdir" => \A k \in DOMAIN drow'[s] : drow'[s][k] = NoRow
  BY <1>0 DEF RowsSound, Undecided
<1>4. RowsSound(s)'
  BY <1>0, <1>2, <1>3 DEF RowsSound
<1>5. ASSUME NEW k, NEW id, Pending(s, k, id)' PROVE Pending(s, k, id)
  <2>1. job[s].op = "mkdir" /\ pc[s] \in Undecided /\ pc[s] # "parse" /\ pc'[s] # "parse"
    BY <1>0, <1>5 DEF Pending, Undecided
  <2>2. CASE \E w \in Workers : \E n \in DOMAIN script'[s][w] : LET st == script'[s][w][n] IN
               st.do = "create" /\ st.key = k /\ st.id = id
    <3>0. PICK w \in Workers : \E n \in DOMAIN script'[s][w] :
            script'[s][w][n].do = "create" /\ script'[s][w][n].key = k /\ script'[s][w][n].id = id
      BY <2>2
    <3>1. PICK n \in DOMAIN script'[s][w] :
            script'[s][w][n].do = "create" /\ script'[s][w][n].key = k /\ script'[s][w][n].id = id
      BY <3>0
    <3>2. PICK i \in DOMAIN script[s][w] : script'[s][w][n] = script[s][w][i]
      BY <2>1
    <3> QED BY <2>1, <3>1, <3>2 DEF Pending
  <2>3. CASE k \in DOMAIN drow'[s] /\ drow'[s][k] # NoRow /\ drow'[s][k].id = id
    <3>1. CASE k \in DOMAIN drow[s] /\ drow'[s][k] = drow[s][k]
      BY <2>1, <2>3, <3>1 DEF Pending
    <3>2. CASE Pending(s, k, drow'[s][k].id)
      BY <2>3, <3>2
    <3> QED BY <2>1, <2>3, <3>1, <3>2
  <2> QED BY <1>5, <2>1, <2>2, <2>3 DEF Pending
<1>6. nextId <= nextId'
  BY <1>0 DEF TablesTyped
<1>7. pc[s] # "decided" /\ pc'[s] # "decided"
  OBVIOUS
<1> QED BY <1>1, <1>4, <1>5, <1>6, <1>7, NameStep

\* The second call of a rename puts the row on the destination's worker.
LEMMA RenameSecondCallNames ==
    ASSUME ReplicaInv, NameInv, NEW s \in Sessions, RenameSecondCall(s)
    PROVE  NameInv'
<1>0. PerSession /\ TablesTyped /\ TxnTyped(s) /\ RowsSound(s) /\ DOMAIN script[s] = Workers
  BY EntriesThere DEF NameInv, ReplicaInv, ShapeOK
<1>1. pc[s] = "calls" /\ Called(s) /\ job[s].op = "rename" /\ pc' = [pc EXCEPT ![s] = "create"]
  BY DEF RenameSecondCall
<1>2. UNCHANGED <<dir, inode, nextId, shared, exclusive, job, known, turn, depth, at, tree, found>>
  BY DEF RenameSecondCall, tables, locks, parse
<1>3. UNCHANGED <<ddir, drow, moved, indoubt, errors, lost>>
  BY DEF RenameSecondCall, faults
<1> DEFINE v == Home[Dst(s).key[2]]
           put == Stmt("put", Dst(s).key, Dst(s).id)
<1>4. put.do = "put" /\ put.key = Dst(s).key
  BY DEF Stmt
<1>5. script' = [script EXCEPT ![s][v] = <<put>>]
  BY DEF RenameSecondCall
<1> HIDE DEF v, put
<1>6. /\ \A t \in Sessions \ {s} : script'[t] = script[t]
      /\ script'[s] = [script[s] EXCEPT ![v] = <<put>>]
  BY <1>0, <1>5 DEF PerSession
<1>7. \A t \in Sessions \ {s} : SameAll(t)
  BY <1>0, <1>1, <1>2, <1>3, <1>6 DEF SameAll, PerSession
<1>8. \A w \in Workers : script'[s][w] = IF w = v THEN <<put>> ELSE <<>>
  BY <1>0, <1>1, <1>6 DEF Called
<1>9. ASSUME NEW w \in Workers, NEW n \in DOMAIN script'[s][w] PROVE script'[s][w][n] = put
  BY <1>8, SeqEmpty, SmallSeqs
<1>10. pc'[s] = "create"
  BY <1>0, <1>1 DEF PerSession
<1>11. Src(s)' = Src(s) /\ Dst(s)' = Dst(s)
  BY <1>2 DEF Src, Dst
<1>12. RenameRows(s) /\ RenameOrder(s)
  BY <1>0 DEF RowsSound
<1>13. RenameRows(s)'
  BY <1>1, <1>2, <1>3, <1>11, <1>12 DEF RenameRows
<1>14. Dst(s).key \in Keys
  BY <1>1, <1>12 DEF RenameRows
<1>15. Src(s).key \in DOMAIN drow[s]
  <2>1. \A w \in Workers : DOMAIN script[s][w] = {}
    BY <1>1, SeqEmpty DEF Called
  <2> QED BY <1>1, <1>12, <2>1 DEF RenameOrder
<1>16. RenameOrder(s)'
  BY <1>3, <1>4, <1>9, <1>11, <1>15 DEF RenameOrder
<1>17. TxnTyped(s)'
  BY <1>0, <1>3, <1>4, <1>9, <1>14 DEF TxnTyped
<1>18. TablesTyped'
  BY <1>0, <1>2, <1>3 DEF TablesTyped
<1> QED BY <1>1, <1>2, <1>3, <1>4, <1>7, <1>9, <1>10, <1>13, <1>16, <1>17, <1>18, CallStep

-----------------------------------------------------------------------------
(* The sub-handlers.                                                        *)

\* A statement that is done leaves the ones after it.
LEMMA TailScript ==
    ASSUME ReplicaInv, NameInv, NEW s \in Sessions, NEW w \in Workers, NEW do, Executes(s, w, do), StmtDone(s, w)
    PROVE  /\ \A t \in Sessions \ {s} : script'[t] = script[t]
           /\ \A v \in Workers \ {w} : script'[s][v] = script[s][v]
           /\ script'[s][w] = Tail(script[s][w]) /\ IsSeq(script[s][w]) /\ script[s][w] # <<>>
           /\ 1 \in DOMAIN script[s][w] /\ Head1(s, w).do = do /\ Head1(s, w).key \in Keys
           /\ \A n \in DOMAIN script'[s][w] :
                n + 1 \in DOMAIN script[s][w] /\ script'[s][w][n] = script[s][w][n + 1]
           /\ \A v \in Workers : \A n \in DOMAIN script'[s][v] :
                \E i \in DOMAIN script[s][v] : script'[s][v][n] = script[s][v][i]
<1>0. PerSession /\ DOMAIN script[s] = Workers /\ IsSeq(script[s][w])
  BY EntriesThere DEF ReplicaInv, ShapeOK
<1>1. /\ \A t \in Sessions \ {s} : script'[t] = script[t]
      /\ script'[s] = [script[s] EXCEPT ![w] = Tail(script[s][w])]
  BY <1>0 DEF StmtDone, PerSession
<1>2. /\ \A v \in Workers \ {w} : script'[s][v] = script[s][v]
      /\ script'[s][w] = Tail(script[s][w])
  BY <1>0, <1>1
<1>3. script[s][w] # <<>> /\ Head1(s, w).do = do
  BY DEF Executes
<1>4. /\ 1 \in DOMAIN script[s][w]
      /\ \A n \in DOMAIN script'[s][w] :
           n + 1 \in DOMAIN script[s][w] /\ script'[s][w][n] = script[s][w][n + 1]
  BY <1>0, <1>2, <1>3, SeqTail
<1>5. Head1(s, w).key \in Keys
  BY <1>4 DEF NameInv, TxnTyped, Head1
<1>6. ASSUME NEW v \in Workers, NEW n \in DOMAIN script'[s][v]
      PROVE  \E i \in DOMAIN script[s][v] : script'[s][v][n] = script[s][v][i]
  <2>1. CASE v = w
    BY <1>4, <2>1
  <2>2. CASE v # w
    BY <1>2, <2>2
  <2> QED BY <2>1, <2>2
<1> QED BY <1>0, <1>1, <1>2, <1>3, <1>4, <1>5, <1>6

\* A rename's statements stay in order: what was taken before a put has been taken,
\* or is still to be taken before it.
LEMMA OrderKept ==
    ASSUME ReplicaInv, NameInv, NEW s \in Sessions, NEW w \in Workers, NEW do, Executes(s, w, do), StmtDone(s, w),
           UNCHANGED <<pc, job, found>>, DOMAIN drow[s] \subseteq DOMAIN drow'[s],
           do = "take" => Head1(s, w).key \in DOMAIN drow'[s]
    PROVE  RenameOrder(s)'
<1> SUFFICES ASSUME job[s].op = "rename", pc[s] \in {"calls", "create"}
    PROVE  LET taken == Src(s).key \in DOMAIN drow'[s] IN
           /\ \A v \in Workers : \A n \in DOMAIN script'[s][v] : LET st == script'[s][v][n] IN
                /\ st.do = "take" => st.key = Src(s).key
                /\ st.do = "put" =>
                     /\ st.key = Dst(s).key
                     /\ taken \/ \E i \in DOMAIN script'[s][v] : i < n /\ script'[s][v][i].do = "take"
           /\ taken \/ \E v \in Workers : \E n \in DOMAIN script'[s][v] : script'[s][v][n].do = "take"
  <2>1. Src(s)' = Src(s) /\ Dst(s)' = Dst(s)
    BY DEF Src, Dst
  <2> QED BY <2>1 DEF RenameOrder
<1> DEFINE taken == Src(s).key \in DOMAIN drow'[s]
           q == script[s][w]
           r == script'[s][w]
<1>1. /\ \A v \in Workers \ {w} : script'[s][v] = script[s][v]
      /\ r = Tail(q) /\ IsSeq(q) /\ q # <<>>
      /\ 1 \in DOMAIN q /\ q[1].do = do
      /\ \A n \in DOMAIN r : n + 1 \in DOMAIN q /\ r[n] = q[n + 1]
      /\ \A v \in Workers : \A n \in DOMAIN script'[s][v] :
           \E i \in DOMAIN script[s][v] : script'[s][v][n] = script[s][v][i]
  BY TailScript DEF Head1
<1>2. /\ \A v \in Workers : \A n \in DOMAIN script[s][v] : LET st == script[s][v][n] IN
           /\ st.do = "take" => st.key = Src(s).key
           /\ st.do = "put" =>
                /\ st.key = Dst(s).key
                /\ taken \/ \E i \in DOMAIN script[s][v] : i < n /\ script[s][v][i].do = "take"
      /\ taken \/ \E v \in Workers : \E n \in DOMAIN script[s][v] : script[s][v][n].do = "take"
  <2>1. RenameOrder(s)
    BY DEF NameInv, RowsSound
  <2> QED BY <2>1 DEF RenameOrder
<1>3. do = "take" => taken
  BY <1>1, <1>2 DEF Head1
<1>4. \A i \in DOMAIN q : i = 1 \/ (i - 1 \in DOMAIN r /\ r[i - 1] = q[i])
  BY <1>1, SeqTail
<1>5. DOMAIN q \subseteq Nat /\ DOMAIN r \subseteq Nat
  <2>1. IsSeq(r)
    BY <1>1, SeqTail
  <2> QED BY <1>1, <2>1 DEF IsSeq
<1> HIDE DEF taken, q, r
<1>6. ASSUME NEW v \in Workers, NEW n \in DOMAIN script'[s][v]
      PROVE  LET st == script'[s][v][n] IN
             /\ st.do = "take" => st.key = Src(s).key
             /\ st.do = "put" => st.key = Dst(s).key
  <2>1. PICK i \in DOMAIN script[s][v] : script'[s][v][n] = script[s][v][i]
    BY <1>1
  <2> QED BY <1>2, <2>1
<1>7. ASSUME NEW n \in DOMAIN r, r[n].do = "put", ~taken
      PROVE  \E i \in DOMAIN r : i < n /\ r[i].do = "take"
  <2>1. n + 1 \in DOMAIN q /\ q[n + 1].do = "put"
    BY <1>1, <1>7
  <2>2. PICK i \in DOMAIN q : i < n + 1 /\ q[i].do = "take"
    BY <1>2, <1>7, <2>1 DEF q
  <2>3. i # 1
    BY <1>1, <1>3, <1>7, <2>2
  <2>4. i - 1 \in DOMAIN r /\ r[i - 1].do = "take"
    BY <1>4, <2>2, <2>3
  <2>5. i - 1 < n
    BY <1>5, <1>7, <2>2
  <2> QED BY <2>4, <2>5
<1>8. ASSUME NEW v \in Workers, NEW n \in DOMAIN script'[s][v], script'[s][v][n].do = "put", ~taken
      PROVE  \E i \in DOMAIN script'[s][v] : i < n /\ script'[s][v][i].do = "take"
  <2>1. CASE v = w
    BY <1>7, <1>8, <2>1 DEF r
  <2>2. CASE v # w
    <3>1. script'[s][v] = script[s][v]
      BY <1>1, <2>2
    <3> QED BY <1>2, <1>8, <3>1
  <2> QED BY <2>1, <2>2
<1>9. ASSUME ~taken PROVE \E v \in Workers : \E n \in DOMAIN script'[s][v] : script'[s][v][n].do = "take"
  <2>1. PICK v \in Workers : \E n \in DOMAIN script[s][v] : script[s][v][n].do = "take"
    BY <1>2, <1>9
  <2>2. CASE v = w
    <3>1. PICK n \in DOMAIN q : q[n].do = "take"
      BY <2>1, <2>2 DEF q
    <3>2. n # 1
      BY <1>1, <1>3, <1>9, <3>1
    <3>3. n - 1 \in DOMAIN r /\ r[n - 1].do = "take"
      BY <1>4, <3>1, <3>2
    <3> QED BY <3>3 DEF r
  <2>3. CASE v # w
    BY <1>1, <2>1, <2>3
  <2> QED BY <2>2, <2>3
<1> QED BY <1>6, <1>8, <1>9 DEF taken

\* A statement that a sub-handler has executed.
LEMMA StatementNames ==
    ASSUME ReplicaInv, NameInv, NEW s \in Sessions, NEW w \in Workers, NEW do, Executes(s, w, do), StmtDone(s, w),
           UNCHANGED <<tables, pc, job, known, parse, faults>>,
           shared' \subseteq Servers \X Keys \X Sessions, exclusive' \subseteq Servers \X Keys \X Sessions,
           \A sv \in Servers : KeyedIds(ddir'[s][sv]), \A t \in Sessions \ {s} : ddir'[t] = ddir[t],
           DOMAIN moved' = Sessions, \A t \in Sessions \ {s} : moved'[t] = moved[t],
           NEW row \in Rows \cup {NoRow},
           \/ drow' = drow
           \/ /\ RowIsFree(s, Head1(s, w).key) /\ WriteRow(s, Head1(s, w).key, row)
              /\ job[s].op = "rmdir" => row = NoRow
              /\ job[s].op = "mkdir" => do = "create" /\ row.id = Head1(s, w).id,
           do = "take" => Head1(s, w).key \in DOMAIN drow'[s],
           RenameRows(s)'
    PROVE  NameInv'
<1> DEFINE k == Head1(s, w).key
<1>0. PerSession /\ TablesTyped /\ TxnTyped(s) /\ pc[s] \in {"calls", "create"}
  BY EntriesThere DEF NameInv, Executes
<1>1. /\ \A t \in Sessions \ {s} : script'[t] = script[t]
      /\ 1 \in DOMAIN script[s][w] /\ Head1(s, w).do = do /\ k \in Keys
      /\ \A v \in Workers : \A n \in DOMAIN script'[s][v] :
           \E i \in DOMAIN script[s][v] : script'[s][v][n] = script[s][v][i]
  BY TailScript
<1>2. UNCHANGED <<dir, inode, nextId, turn, depth, at, tree, found, indoubt, errors, lost>>
  BY DEF tables, parse, faults
<1>3. /\ KeyedRows(drow'[s]) /\ DOMAIN drow' = Sessions /\ \A t \in Sessions \ {s} : drow'[t] = drow[t]
      /\ DOMAIN drow[s] \subseteq DOMAIN drow'[s]
      /\ \A m \in DOMAIN drow'[s] :
           \/ m \in DOMAIN drow[s] /\ drow'[s][m] = drow[s][m]
           \/ /\ m = k /\ drow'[s][m] = row /\ RowIsFree(s, m)
              /\ job[s].op = "rmdir" => row = NoRow
              /\ job[s].op = "mkdir" => do = "create" /\ row.id = Head1(s, w).id
  <2>1. KeyedRows(drow[s])
    BY <1>0 DEF TxnTyped
  <2>2. CASE drow' = drow
    BY <1>0, <2>1, <2>2 DEF PerSession
  <2>3. CASE /\ RowIsFree(s, k) /\ WriteRow(s, k, row)
             /\ job[s].op = "rmdir" => row = NoRow
             /\ job[s].op = "mkdir" => do = "create" /\ row.id = Head1(s, w).id
    BY <1>0, <1>1, <2>1, <2>3, WriteRowTyped
  <2> QED BY <2>2, <2>3
<1>4. \A t \in Sessions \ {s} : SameAll(t)
  BY <1>1, <1>2, <1>3 DEF SameAll
<1>5. TablesTyped'
  BY <1>0, <1>2, <1>3 DEF TablesTyped
<1>6. TxnTyped(s)'
  <2>1. ASSUME NEW v \in Workers, NEW n \in DOMAIN script'[s][v]
        PROVE  LET st == script'[s][v][n] IN
               /\ st.key \in Keys
               /\ st.do = "insert" => st.id \in Ids
               /\ st.do = "create" => st.id \in Ids \ {Root}
    <3>1. PICK i \in DOMAIN script[s][v] : script'[s][v][n] = script[s][v][i]
      BY <1>1
    <3> QED BY <1>0, <3>1 DEF TxnTyped
  <2> QED BY <1>3, <2>1 DEF TxnTyped
<1>7. RenameOrder(s)'
  BY <1>2, <1>3, OrderKept
<1>8. ASSUME NEW m \in DOMAIN drow'[s]
      PROVE  \/ m \in DOMAIN drow[s] /\ drow'[s][m] = drow[s][m]
             \/ /\ RowIsFree(s, m)
                /\ job[s].op = "rmdir" => drow'[s][m] = NoRow
                /\ job[s].op = "mkdir" => Pending(s, m, drow'[s][m].id)
  <2>1. do = "create" /\ job[s].op = "mkdir" => Pending(s, k, Head1(s, w).id)
    <3>1. script[s][w][1] = Head1(s, w)
      BY DEF Head1
    <3> QED BY <1>0, <1>1, <3>1 DEF Pending, Undecided
  <2> QED BY <1>3, <2>1
<1> QED BY <1>0, <1>1, <1>2, <1>4, <1>5, <1>6, <1>7, <1>8, CallStep

\* The rows of a rename are as they were when nothing of them is written.
LEMMA RowsKept ==
    ASSUME NameInv, NEW s \in Sessions, UNCHANGED <<tables, pc, job, parse, drow, moved>>
    PROVE  RenameRows(s)'
<1>1. RenameRows(s)
  BY DEF NameInv, RowsSound
<1>2. Src(s)' = Src(s) /\ Dst(s)' = Dst(s)
  BY DEF Src, Dst, parse
<1>3. inode' = inode
  BY DEF tables
<1> QED BY <1>1, <1>2, <1>3 DEF RenameRows

\* The statements on directories.
LEMMA DirStatementNames ==
    ASSUME ReplicaInv, NameInv, NEW s \in Sessions, NEW w \in Workers,
           SubInsertDirectory(s, w) \/ SubDeleteDirectory(s, w)
    PROVE  NameInv'
<1> DEFINE st == Head1(s, w)
<1>0. PerSession /\ TablesTyped /\ TxnTyped(s) /\ w \in Servers /\ DOMAIN ddir[s] = Servers
  BY EntriesThere, Typing DEF NameInv, ReplicaInv, ShapeOK
<1>1. PICK do \in {"insert", "delete"} : Executes(s, w, do)
  BY DEF SubInsertDirectory, SubDeleteDirectory
<1>2. pc[s] \in Undecided
  BY <1>1 DEF Executes, Undecided
<1>3. CASE Abort(s, "unexpected")
  BY <1>2, <1>3, AbortNames
<1>4. ASSUME NEW id \in Ids \cup {Absent}, LockExclusive(s, w, st.key), WriteDir(s, w, st.key, id),
             StmtDone(s, w), UNCHANGED <<CallRest, drow>>
      PROVE  NameInv'
  <2>1. UNCHANGED <<tables, pc, job, known, parse, moved, faults, drow>>
    BY <1>4 DEF CallRest
  <2>2. st.key \in Keys
    BY <1>1, <1>4, TailScript
  <2>3. /\ shared' \subseteq Servers \X Keys \X Sessions
        /\ exclusive' \subseteq Servers \X Keys \X Sessions
    BY <1>0, <1>4, <2>2, LockTyped
  <2>4. /\ \A x \in Servers : KeyedIds(ddir'[s][x])
        /\ \A t \in Sessions \ {s} : ddir'[t] = ddir[t]
    BY <1>0, <1>4, <2>2, WriteDirTyped DEF TxnTyped
  <2>5. RenameRows(s)'
    BY <2>1, RowsKept
  <2>6. DOMAIN moved' = Sessions /\ \A t \in Sessions \ {s} : moved'[t] = moved[t]
    BY <1>0, <2>1 DEF PerSession
  <2>7. do # "take"
    BY <1>1
  <2>8. NoRow \in Rows \cup {NoRow}
    OBVIOUS
  <2> QED BY <1>1, <1>4, <2>1, <2>3, <2>4, <2>5, <2>6, <2>7, <2>8, StatementNames
<1>5. CASE SubInsertDirectory(s, w)
  <2>1. ASSUME StmtDone(s, w) PROVE st.id \in Ids
    <3>1. 1 \in DOMAIN script[s][w] /\ st.do = "insert"
      BY <1>5, <2>1, TailScript DEF SubInsertDirectory
    <3> QED BY <1>0, <3>1 DEF TxnTyped, Head1
  <2> QED BY <1>3, <1>4, <1>5, <2>1 DEF SubInsertDirectory
<1>6. CASE SubDeleteDirectory(s, w)
  BY <1>3, <1>4, <1>6 DEF SubDeleteDirectory
<1> QED BY <1>5, <1>6

\* A statement that takes no lock and writes no directory row.
LEMMA RowStatementNames ==
    ASSUME ReplicaInv, NameInv, NEW s \in Sessions, NEW w \in Workers, NEW do, Executes(s, w, do), StmtDone(s, w),
           UNCHANGED <<tables, pc, job, known, parse, faults, locks, ddir>>,
           DOMAIN moved' = Sessions, \A t \in Sessions \ {s} : moved'[t] = moved[t],
           NEW row \in Rows \cup {NoRow},
           \/ drow' = drow
           \/ /\ RowIsFree(s, Head1(s, w).key) /\ WriteRow(s, Head1(s, w).key, row)
              /\ job[s].op = "rmdir" => row = NoRow
              /\ job[s].op = "mkdir" => do = "create" /\ row.id = Head1(s, w).id,
           do = "take" => Head1(s, w).key \in DOMAIN drow'[s],
           RenameRows(s)'
    PROVE  NameInv'
<1>1. /\ shared' \subseteq Servers \X Keys \X Sessions
      /\ exclusive' \subseteq Servers \X Keys \X Sessions
  BY DEF NameInv, TablesTyped, locks
<1>2. (\A sv \in Servers : KeyedIds(ddir'[s][sv])) /\ (\A t \in Sessions \ {s} : ddir'[t] = ddir[t])
  BY DEF NameInv, TxnTyped
<1> QED BY <1>1, <1>2, StatementNames

\* What a head statement says of the request.
LEMMA HeadOf ==
    ASSUME ReplicaInv, NameInv, NEW s \in Sessions, NEW w \in Workers, NEW do, Executes(s, w, do)
    PROVE  /\ 1 \in DOMAIN script[s][w] /\ script[s][w][1] = Head1(s, w) /\ Head1(s, w).do = do
           /\ Head1(s, w).key \in Keys /\ pc[s] \in Undecided
           /\ do = "create" => job[s].op = "mkdir" /\ Head1(s, w).id \in Ids \ {Root}
           /\ do \in {"empty", "unlink"} => job[s].op = "rmdir"
           /\ do \in {"take", "put"} => job[s].op = "rename"
<1>1. script[s][w] # <<>> /\ Head1(s, w).do = do /\ pc[s] \in {"calls", "create"} /\ IsSeq(script[s][w])
  BY DEF Executes, ReplicaInv, ShapeOK
<1>2. 1 \in DOMAIN script[s][w] /\ script[s][w][1] = Head1(s, w)
  BY <1>1, SeqEmpty DEF Head1
<1>3. TxnTyped(s) /\ RowsSound(s)
  BY DEF NameInv
<1>4. /\ Head1(s, w).key \in Keys
      /\ do = "create" => Head1(s, w).id \in Ids \ {Root}
  BY <1>1, <1>2, <1>3 DEF TxnTyped
<1>5. /\ job[s].op \in {"mkdir", "rmdir", "rename"}
      /\ job[s].op = "mkdir" => do \in {"insert", "create"}
      /\ job[s].op = "rmdir" => do \in {"delete", "empty", "unlink"}
      /\ job[s].op = "rename" => do \in {"insert", "delete", "take", "put"}
  BY <1>1, <1>2, <1>3 DEF RowsSound
<1> QED BY <1>1, <1>2, <1>4, <1>5 DEF Undecided

\* The check that a directory is empty writes nothing.
LEMMA SubCheckEmptyNames ==
    ASSUME ReplicaInv, NameInv, NEW s \in Sessions, NEW w \in Workers, SubCheckEmpty(s, w)
    PROVE  NameInv'
<1>1. Executes(s, w, "empty")
  BY DEF SubCheckEmpty
<1>2. CASE Abort(s, "NOT_EMPTY")
  BY <1>1, <1>2, HeadOf, AbortNames
<1>3. CASE StmtDone(s, w) /\ UNCHANGED <<CallRest, locks, ddir, drow>>
  <2>1. UNCHANGED <<tables, pc, job, known, parse, moved, faults, locks, ddir, drow>>
    BY <1>3 DEF CallRest
  <2>2. RenameRows(s)'
    BY <2>1, RowsKept
  <2>3. DOMAIN moved' = Sessions /\ \A t \in Sessions \ {s} : moved'[t] = moved[t]
    BY <2>1, EntriesThere DEF PerSession
  <2>4. NoRow \in Rows \cup {NoRow}
    OBVIOUS
  <2> QED BY <1>1, <1>3, <2>1, <2>2, <2>3, <2>4, RowStatementNames
<1> QED BY <1>2, <1>3 DEF SubCheckEmpty

\* The inode row of a directory is created, or deleted.
LEMMA SubRowNames ==
    ASSUME ReplicaInv, NameInv, NEW s \in Sessions, NEW w \in Workers,
           SubCreateRow(s, w) \/ SubUnlinkRow(s, w)
    PROVE  NameInv'
<1> DEFINE st == Head1(s, w)
<1>1. ASSUME NEW do \in {"create", "unlink"}, Executes(s, w, do), NEW row, RowIsFree(s, st.key),
             WriteRow(s, st.key, row), StmtDone(s, w), UNCHANGED <<CallRest, locks, ddir>>,
             do = "create" => row = [id |-> st.id, isDir |-> TRUE], do = "unlink" => row = NoRow
      PROVE  NameInv'
  <2>1. UNCHANGED <<tables, pc, job, known, parse, moved, faults, locks, ddir>>
    BY <1>1 DEF CallRest
  <2>2. /\ do = "create" => job[s].op = "mkdir" /\ st.id \in Ids \ {Root}
        /\ do \in {"empty", "unlink"} => job[s].op = "rmdir"
    BY <1>1, HeadOf
  <2>3. row \in Rows \cup {NoRow} /\ (do = "create" => row.id = st.id)
    <3>1. CASE do = "create"
      <4>1. st.id \in Ids \ {Root} /\ row = [id |-> st.id, isDir |-> TRUE]
        BY <1>1, <2>2, <3>1
      <4> HIDE DEF st
      <4> QED BY <4>1 DEF Rows
    <3>2. CASE do = "unlink"
      BY <1>1, <3>2
    <3> QED BY <3>1, <3>2
  <2>4. RenameRows(s)'
    BY <1>1, <2>1, <2>2 DEF RenameRows
  <2>5. DOMAIN moved' = Sessions /\ \A t \in Sessions \ {s} : moved'[t] = moved[t]
    BY <2>1, EntriesThere DEF PerSession
  <2>6. /\ job[s].op = "rmdir" => row = NoRow
        /\ job[s].op = "mkdir" => do = "create" /\ row.id = st.id
    BY <1>1, <2>2, <2>3
  <2>7. do # "take"
    BY <1>1
  <2> HIDE DEF st
  <2> QED BY <1>1, <2>1, <2>3, <2>4, <2>5, <2>6, <2>7, RowStatementNames DEF st
<1>2. CASE SubCreateRow(s, w)
  <2>1. Executes(s, w, "create") /\ RowIsFree(s, st.key)
    BY <1>2 DEF SubCreateRow
  <2>2. CASE Abort(s, "FILE_EXISTS")
    BY <2>1, <2>2, HeadOf, AbortNames
  <2>3. CASE /\ WriteRow(s, st.key, [id |-> st.id, isDir |-> TRUE])
             /\ StmtDone(s, w) /\ UNCHANGED <<CallRest, locks, ddir>>
    BY <1>1, <2>1, <2>3
  <2> QED BY <1>2, <2>2, <2>3 DEF SubCreateRow
<1>3. CASE SubUnlinkRow(s, w)
  <2>1. Executes(s, w, "unlink") /\ RowIsFree(s, st.key)
    BY <1>3 DEF SubUnlinkRow
  <2>2. CASE Abort(s, "unexpected")
    BY <2>1, <2>2, HeadOf, AbortNames
  <2>3. CASE /\ WriteRow(s, st.key, NoRow)
             /\ StmtDone(s, w) /\ UNCHANGED <<CallRest, locks, ddir>>
    BY <1>1, <2>1, <2>3
  <2> QED BY <1>3, <2>2, <2>3 DEF SubUnlinkRow
<1> QED BY <1>2, <1>3

\* A rename takes the row of its source.
LEMMA SubTakeRowNames ==
    ASSUME ReplicaInv, NameInv, NEW s \in Sessions, NEW w \in Workers, SubTakeRow(s, w)
    PROVE  NameInv'
<1> DEFINE k == Head1(s, w).key
<1>1. Executes(s, w, "take") /\ RowIsFree(s, k)
  BY DEF SubTakeRow
<1>2. CASE Abort(s, "FILE_NOT_EXISTS")
  BY <1>1, <1>2, HeadOf, AbortNames
<1>3. CASE /\ SeesRow(s, k) # NoRow /\ WriteRow(s, k, NoRow)
           /\ moved' = [moved EXCEPT ![s] = SeesRow(s, k)] /\ StmtDone(s, w)
           /\ UNCHANGED <<tables, pc, job, known, parse, result, faults, locks, ddir>>
  <2>0. PerSession /\ TxnTyped(s) /\ RowsSound(s) /\ NoRow \in Rows \cup {NoRow}
    BY EntriesThere DEF NameInv
  <2>1. /\ 1 \in DOMAIN script[s][w] /\ script[s][w][1].key = k /\ script[s][w][1].do = "take"
        /\ k \in Keys /\ job[s].op = "rename" /\ pc[s] \in {"calls", "create"}
    BY <1>1, HeadOf DEF Executes
  <2>2. k = Src(s).key
    BY <2>0, <2>1 DEF RowsSound, RenameOrder
  <2>3. /\ DOMAIN drow'[s] = DOMAIN drow[s] \cup {k}
        /\ \A m \in DOMAIN drow'[s] : drow'[s][m] = IF m = k THEN NoRow ELSE drow[s][m]
    BY <1>3, <2>0, <2>1, WriteRowTyped DEF TxnTyped
  <2>4. /\ moved'[s] = SeesRow(s, k) /\ DOMAIN moved' = Sessions
        /\ \A t \in Sessions \ {s} : moved'[t] = moved[t]
    BY <1>3, <2>0 DEF PerSession
  <2>5. UNCHANGED <<inode, found>>
    BY <1>3 DEF tables, parse
  <2>6. /\ Src(s).key \in Keys /\ Dst(s).key \in Keys
        /\ DOMAIN drow[s] \subseteq {Src(s).key, Dst(s).key}
        /\ DOMAIN drow[s] # {} => k \in DOMAIN drow[s] /\ k \in DOMAIN inode /\ moved[s] = inode[k]
        /\ \A m \in DOMAIN drow[s] : drow[s][m] = NoRow \/ (m = Dst(s).key /\ drow[s][m] = moved[s])
    BY <2>0, <2>1, <2>2 DEF RowsSound, RenameRows
  <2>7. k \in DOMAIN inode /\ moved'[s] = inode[k] /\ (DOMAIN drow[s] # {} => moved'[s] = moved[s])
    <3>1. CASE k \in DOMAIN drow[s]
      BY <1>3, <2>4, <2>6, <3>1 DEF SeesRow, Row
    <3>2. CASE k \notin DOMAIN drow[s]
      BY <1>3, <2>4, <2>6, <3>2 DEF SeesRow, Row
    <3> QED BY <3>1, <3>2
  <2>8. RenameRows(s)'
    <3>1. Src(s)' = Src(s) /\ Dst(s)' = Dst(s)
      BY <1>3, <2>5 DEF Src, Dst
    <3>2. \A m \in DOMAIN drow'[s] : drow'[s][m] = NoRow \/ (m = Dst(s).key /\ drow'[s][m] = moved'[s])
      BY <2>3, <2>6, <2>7
    <3>3. DOMAIN drow'[s] \subseteq {Src(s).key, Dst(s).key} /\ k \in DOMAIN drow'[s]
      BY <2>2, <2>3, <2>6
    <3> QED BY <2>2, <2>5, <2>6, <2>7, <3>1, <3>2, <3>3 DEF RenameRows
  <2>9. job[s].op # "mkdir"
    BY <2>1
  <2>10. k \in DOMAIN drow'[s]
    BY <2>3
  <2> HIDE DEF k
  <2> QED BY <1>1, <1>3, <2>0, <2>4, <2>8, <2>9, <2>10, RowStatementNames DEF k
<1> QED BY <1>2, <1>3 DEF SubTakeRow

\* It puts the row under its new name, once it has taken it.
LEMMA SubPutRowNames ==
    ASSUME ReplicaInv, NameInv, NEW s \in Sessions, NEW w \in Workers, SubPutRow(s, w)
    PROVE  NameInv'
<1> DEFINE k == Head1(s, w).key
<1>1. Executes(s, w, "put") /\ RowIsFree(s, k)
  BY DEF SubPutRow
<1>2. CASE Abort(s, "FILE_EXISTS")
  BY <1>1, <1>2, HeadOf, AbortNames
<1>3. CASE WriteRow(s, k, moved[s]) /\ StmtDone(s, w) /\ UNCHANGED <<CallRest, locks, ddir>>
  <2>0. PerSession /\ TxnTyped(s) /\ RowsSound(s) /\ TablesTyped /\ IsSeq(script[s][w])
    BY EntriesThere DEF NameInv, ReplicaInv, ShapeOK
  <2>1. /\ 1 \in DOMAIN script[s][w] /\ script[s][w][1].key = k /\ script[s][w][1].do = "put"
        /\ k \in Keys /\ job[s].op = "rename" /\ pc[s] \in {"calls", "create"}
    BY <1>1, HeadOf DEF Executes
  <2>2. k = Dst(s).key /\ Src(s).key \in DOMAIN drow[s]
    <3>1. \/ Src(s).key \in DOMAIN drow[s]
          \/ \E i \in DOMAIN script[s][w] : i < 1
      BY <2>0, <2>1 DEF RowsSound, RenameOrder
    <3>2. \A i \in DOMAIN script[s][w] : ~ (i < 1)
      BY <2>0 DEF IsSeq
    <3>3. k = Dst(s).key
      BY <2>0, <2>1 DEF RowsSound, RenameOrder
    <3> QED BY <3>1, <3>2, <3>3
  <2>3. /\ Src(s).key \in Keys /\ Dst(s).key \in Keys
        /\ DOMAIN drow[s] \subseteq {Src(s).key, Dst(s).key}
        /\ Src(s).key \in DOMAIN inode /\ moved[s] = inode[Src(s).key]
        /\ \A m \in DOMAIN drow[s] : drow[s][m] = NoRow \/ (m = Dst(s).key /\ drow[s][m] = moved[s])
    BY <2>0, <2>1, <2>2 DEF RowsSound, RenameRows
  <2>4. moved[s] \in Rows \cup {NoRow}
    BY <2>0, <2>3 DEF TablesTyped
  <2>5. /\ DOMAIN drow'[s] = DOMAIN drow[s] \cup {k}
        /\ \A m \in DOMAIN drow'[s] : drow'[s][m] = IF m = k THEN moved[s] ELSE drow[s][m]
    BY <1>3, <2>0, <2>1, <2>4, WriteRowTyped DEF TxnTyped
  <2>6. UNCHANGED <<tables, pc, job, known, parse, moved, faults, locks, ddir>>
    BY <1>3 DEF CallRest
  <2>7. UNCHANGED <<inode, found>>
    BY <2>6 DEF tables, parse
  <2>8. RenameRows(s)'
    <3>1. Src(s)' = Src(s) /\ Dst(s)' = Dst(s)
      BY <2>6, <2>7 DEF Src, Dst
    <3>2. \A m \in DOMAIN drow'[s] : drow'[s][m] = NoRow \/ (m = Dst(s).key /\ drow'[s][m] = moved[s])
      BY <2>2, <2>3, <2>5
    <3>3. DOMAIN drow'[s] \subseteq {Src(s).key, Dst(s).key} /\ Src(s).key \in DOMAIN drow'[s]
      BY <2>2, <2>3, <2>5
    <3> QED BY <2>3, <2>6, <2>7, <3>1, <3>2, <3>3 DEF RenameRows
  <2>9. job[s].op \notin {"mkdir", "rmdir"}
    BY <2>1
  <2>10. DOMAIN moved' = Sessions /\ \A t \in Sessions \ {s} : moved'[t] = moved[t]
    BY <2>0, <2>6 DEF PerSession
  <2> HIDE DEF k
  <2> QED BY <1>1, <1>3, <2>4, <2>6, <2>8, <2>9, <2>10, RowStatementNames DEF k
<1> QED BY <1>2, <1>3 DEF SubPutRow

\* A statement that fails.
LEMMA StatementFailsNames ==
    ASSUME ReplicaInv, NameInv, NEW s \in Sessions, StatementFails(s)
    PROVE  NameInv'
<1>1. Dropped(s) /\ pc[s] \in Undecided /\ errors < MaxErrors /\ errors' = errors + 1
  BY DEF StatementFails, Dropped, Undecided
<1>2. errors \in 0..MaxErrors /\ MaxErrors \in Nat
  BY NamespaceAssumptions DEF NameInv, TablesTyped
<1>3. errors' \in 0..MaxErrors
  BY <1>1, <1>2
<1> QED BY <1>1, <1>3, DroppedNames

\* Every step of a sub-handler.
LEMMA SubStepNames ==
    ASSUME ReplicaInv, NameInv, NEW s \in Sessions, NEW w \in Workers, SubStep(s, w)
    PROVE  NameInv'
BY DirStatementNames, SubCheckEmptyNames, SubRowNames, SubTakeRowNames, SubPutRowNames DEF SubStep

-----------------------------------------------------------------------------
(* The commits on the workers.                                              *)

\* A row of a table to which a part has been applied.
LEMMA RowAfterApply ==
    ASSUME NEW f, NEW g, NEW none, NEW k
    PROVE  /\ k \in DOMAIN g => /\ k \in DOMAIN Apply(f, g, none) <=> g[k] # none
                                /\ k \in DOMAIN Apply(f, g, none) => Apply(f, g, none)[k] = g[k]
           /\ k \notin DOMAIN g => /\ k \in DOMAIN Apply(f, g, none) <=> k \in DOMAIN f
                                   /\ k \in DOMAIN f => Apply(f, g, none)[k] = f[k]
BY DEF Apply

\* A key that a step does not touch has the same final row.
LEMMA FinalUntouched ==
    ASSUME NEW k, NEW row,
           \A t \in Sessions :
               /\ (pc'[t] = "decided" /\ k \in DOMAIN drow'[t]) <=> (pc[t] = "decided" /\ k \in DOMAIN drow[t])
               /\ pc[t] = "decided" /\ k \in DOMAIN drow[t] => drow'[t][k] = drow[t][k],
           k \in DOMAIN inode' <=> k \in DOMAIN inode, k \in DOMAIN inode => inode'[k] = inode[k],
           \A d \in indoubt : k \in DOMAIN d.rows => d \in indoubt',
           \A d \in indoubt' : k \in DOMAIN d.rows => d \in indoubt
    PROVE  Final(k, row)' <=> Final(k, row)
<1>1. (\E t \in Sessions : pc'[t] = "decided" /\ k \in DOMAIN drow'[t] /\ drow'[t][k] = row)
      <=> (\E t \in Sessions : pc[t] = "decided" /\ k \in DOMAIN drow[t] /\ drow[t][k] = row)
  OBVIOUS
<1>2. (\A t \in Sessions : pc'[t] = "decided" => k \notin DOMAIN drow'[t])
      <=> (\A t \in Sessions : pc[t] = "decided" => k \notin DOMAIN drow[t])
  OBVIOUS
<1>3. (\E d \in indoubt' : k \in DOMAIN d.rows /\ d.rows[k] = row)
      <=> (\E d \in indoubt : k \in DOMAIN d.rows /\ d.rows[k] = row)
  OBVIOUS
<1>4. (\A d \in indoubt' : k \notin DOMAIN d.rows) <=> (\A d \in indoubt : k \notin DOMAIN d.rows)
  OBVIOUS
<1>5. (k \in DOMAIN inode' /\ inode'[k] = row) <=> (k \in DOMAIN inode /\ inode[k] = row)
  OBVIOUS
<1> QED BY <1>1, <1>2, <1>3, <1>4, <1>5 DEF Final

\* A step of a decided transaction, or of none, that changes no final row.
LEMMA EffectNames ==
    ASSUME ReplicaInv, NameInv, NEW S \in SUBSET Sessions, \A t \in Sessions \ S : SameAll(t),
           \A t \in S : /\ pc[t] = "decided" /\ pc'[t] \in {"decided", "done"}
                        /\ TxnTyped(t)',
           UNCHANGED <<job, known, turn, depth, at, tree, found, nextId>>,
           TablesTyped', OneRowWriter', \A k, row : Final(k, row)' <=> Final(k, row),
           \A t \in Sessions \ S : \A k \in DOMAIN drow[t] :
               k \in DOMAIN inode => k \in DOMAIN inode' /\ inode'[k] = inode[k]
    PROVE  NameInv'
<1>1. \A t \in Sessions : \A k, id : Pending(t, k, id)' => Pending(t, k, id)
  <2>1. ASSUME NEW t \in Sessions \ S, NEW k, NEW id PROVE Pending(t, k, id)' => Pending(t, k, id)
    BY <2>1, PendingKept
  <2>2. ASSUME NEW t \in S, NEW k, NEW id PROVE ~ Pending(t, k, id)'
    BY <2>2 DEF Pending, Undecided
  <2> QED BY <2>1, <2>2
<1>2. nextId <= nextId'
  BY DEF NameInv, TablesTyped
<1>3. FinalApart' /\ \A t \in Sessions : PendingApart(t)'
  BY <1>1, <1>2, IdsStayApart
<1>4. ASSUME NEW t \in Sessions PROVE ParseTyped(t)' /\ TxnTyped(t)' /\ RowsSound(t)'
  <2>1. CASE t \in S
    <3>1. ParseTyped(t)'
      BY <2>1 DEF NameInv, ParseTyped, RenamesDir, Undecided
    <3>2. RowsSound(t)'
      BY <2>1 DEF RowsSound, RenameRows, RenameOrder, Undecided
    <3> QED BY <2>1, <3>1, <3>2
  <2>2. CASE t \notin S
    BY <2>2, NamesKept DEF NameInv
  <2> QED BY <2>1, <2>2
<1> QED BY <1>3, <1>4 DEF NameInv

\* The inode rows of a transaction on a worker.
LEMMA PartTyped ==
    ASSUME NameInv, NEW s \in Sessions, NEW w
    PROVE  /\ KeyedRows(PartRows(s, w)) /\ DOMAIN PartRows(s, w) \subseteq DOMAIN drow[s]
           /\ \A k \in DOMAIN PartRows(s, w) : PartRows(s, w)[k] = drow[s][k]
<1>1. KeyedRows(drow[s])
  BY DEF NameInv, TxnTyped
<1>2. /\ DOMAIN PartRows(s, w) = {x \in DOMAIN drow[s] : Home[x[2]] = w}
      /\ \A k \in DOMAIN PartRows(s, w) : PartRows(s, w)[k] = drow[s][k]
  BY DEF PartRows
<1> QED BY <1>1, <1>2 DEF KeyedRows

\* What is left of a transaction when a part of it has ended.
LEMMA ForgottenTyped ==
    ASSUME ReplicaInv, NameInv, NEW s \in Sessions, NEW w \in Workers, ForgetPart(s, w), script' = script
    PROVE  /\ TxnTyped(s)' /\ DOMAIN drow' = Sessions
           /\ \A t \in Sessions \ {s} : ddir'[t] = ddir[t] /\ drow'[t] = drow[t]
           /\ \A k : k \in DOMAIN drow'[s] <=> k \in DOMAIN drow[s] /\ k \notin DOMAIN PartRows(s, w)
           /\ \A k \in DOMAIN drow'[s] : drow'[s][k] = drow[s][k]
<1>0. PerSession /\ TxnTyped(s) /\ DOMAIN ddir[s] = Servers
  BY EntriesThere DEF NameInv, ReplicaInv, ShapeOK
<1> DEFINE P == DOMAIN PartRows(s, w)
<1>1. /\ ddir'[s] = [ddir[s] EXCEPT ![w] = NoFun]
      /\ drow'[s] = [k \in DOMAIN drow[s] \ P |-> drow[s][k]]
      /\ DOMAIN drow' = Sessions
      /\ \A t \in Sessions \ {s} : ddir'[t] = ddir[t] /\ drow'[t] = drow[t]
  BY <1>0 DEF ForgetPart, PerSession
<1> HIDE DEF P
<1>2. /\ DOMAIN drow'[s] = DOMAIN drow[s] \ P
      /\ \A k \in DOMAIN drow'[s] : drow'[s][k] = drow[s][k]
  BY <1>1
<1>3. KeyedRows(drow'[s])
  BY <1>0, <1>2 DEF TxnTyped, KeyedRows
<1>4. \A sv \in Servers : KeyedIds(ddir'[s][sv])
  BY <1>0, <1>1, EmptyTyped DEF TxnTyped
<1>5. TxnTyped(s)'
  BY <1>0, <1>3, <1>4 DEF TxnTyped
<1> QED BY <1>1, <1>2, <1>5 DEF P

\* A transaction's rows are its own.
LEMMA RowsOwned ==
    ASSUME NameInv, NEW s \in Sessions, NEW k \in DOMAIN drow[s]
    PROVE  (\A t \in Sessions : k \in DOMAIN drow[t] => t = s) /\ (\A d \in indoubt : k \notin DOMAIN d.rows)
BY DEF NameInv, OneRowWriter

\* COMMIT PREPARED on a worker.
LEMMA CommitOnNames ==
    ASSUME ReplicaInv, NameInv, NEW s \in Sessions, NEW w \in Workers, CommitOn(s, w)
    PROVE  NameInv'
<1> DEFINE P == PartRows(s, w)
<1>0. PerSession /\ TablesTyped /\ TxnTyped(s) /\ w \in Servers /\ DOMAIN dir = Servers
  BY EntriesThere, Typing DEF NameInv, ReplicaInv, ShapeOK
<1>1. pc[s] = "decided" /\ inode' = Apply(inode, P, NoRow) /\ ForgetPart(s, w)
  BY DEF CommitOn
<1>2. UNCHANGED <<nextId, pc, job, known, turn, depth, at, tree, found, script, moved, indoubt, errors, lost>>
  BY DEF CommitOn, parse, faults
<1>3. /\ TxnTyped(s)' /\ DOMAIN drow' = Sessions
      /\ \A t \in Sessions \ {s} : ddir'[t] = ddir[t] /\ drow'[t] = drow[t]
      /\ \A k : k \in DOMAIN drow'[s] <=> k \in DOMAIN drow[s] /\ k \notin DOMAIN P
      /\ \A k \in DOMAIN drow'[s] : drow'[s][k] = drow[s][k]
  BY <1>1, <1>2, ForgottenTyped
<1>4. /\ KeyedRows(P) /\ DOMAIN P \subseteq DOMAIN drow[s]
      /\ \A k \in DOMAIN P : P[k] = drow[s][k]
  BY PartTyped
<1> HIDE DEF P
<1>5. \A t \in Sessions \ {s} : SameAll(t)
  BY <1>2, <1>3 DEF SameAll
<1>6. TablesTyped'
  <2>1. \A x \in Servers : DOMAIN dir'[x] \subseteq Keys /\ \A k \in DOMAIN dir'[x] : dir'[x][k] \in Ids
    <3>1. KeyedIds(ddir[s][w])
      BY <1>0 DEF TxnTyped
    <3> QED BY <1>0, <3>1, DirTyped DEF CommitOn
  <2>2. DOMAIN inode' \subseteq Keys /\ \A k \in DOMAIN inode' : inode'[k] \in Rows
    BY <1>0, <1>1, <1>4, ApplyRows DEF TablesTyped
  <2>3. /\ shared' \subseteq Servers \X Keys \X Sessions
        /\ exclusive' \subseteq Servers \X Keys \X Sessions
    BY <1>0, ReleaseTyped DEF CommitOn
  <2> QED BY <1>0, <1>2, <1>3, <2>1, <2>2, <2>3 DEF TablesTyped
<1>7. \A t \in Sessions : \A k : k \in DOMAIN drow'[t] => k \in DOMAIN drow[t]
  BY <1>3
<1>8. OneRowWriter'
  BY <1>2, <1>7 DEF NameInv, OneRowWriter
<1>9. \A k : k \notin DOMAIN P => /\ k \in DOMAIN inode' <=> k \in DOMAIN inode
                                  /\ k \in DOMAIN inode => inode'[k] = inode[k]
  BY <1>1, RowAfterApply
<1>10. ASSUME NEW t \in Sessions \ {s}, NEW k \in DOMAIN drow[t]
       PROVE  k \in DOMAIN inode => k \in DOMAIN inode' /\ inode'[k] = inode[k]
  <2>1. k \notin DOMAIN P
    BY <1>4, RowsOwned
  <2> QED BY <1>9, <2>1
<1>11. ASSUME NEW k, NEW row PROVE Final(k, row)' <=> Final(k, row)
  <2>1. CASE k \notin DOMAIN P
    <3>1. ASSUME NEW t \in Sessions
          PROVE  /\ k \in DOMAIN drow'[t] <=> k \in DOMAIN drow[t]
                 /\ k \in DOMAIN drow[t] => drow'[t][k] = drow[t][k]
      <4>1. CASE t = s
        BY <1>3, <2>1, <4>1
      <4>2. CASE t # s
        BY <1>3, <4>2
      <4> QED BY <4>1, <4>2
    <3>2. \A t \in Sessions :
            /\ (pc'[t] = "decided" /\ k \in DOMAIN drow'[t]) <=> (pc[t] = "decided" /\ k \in DOMAIN drow[t])
            /\ pc[t] = "decided" /\ k \in DOMAIN drow[t] => drow'[t][k] = drow[t][k]
      BY <1>2, <3>1
    <3>3. indoubt' = indoubt
      BY <1>2
    <3>4. /\ k \in DOMAIN inode' <=> k \in DOMAIN inode
          /\ k \in DOMAIN inode => inode'[k] = inode[k]
      BY <1>9, <2>1
    <3> QED BY <3>2, <3>3, <3>4, FinalUntouched
  <2>2. CASE k \in DOMAIN P
    <3>1. /\ k \in DOMAIN drow[s] /\ P[k] = drow[s][k]
          /\ \A t \in Sessions : k \in DOMAIN drow[t] => t = s
          /\ \A d \in indoubt : k \notin DOMAIN d.rows
      BY <1>4, <2>2, RowsOwned
    <3>2. \A t \in Sessions : k \notin DOMAIN drow'[t]
      BY <1>3, <2>2, <3>1
    <3>3. /\ k \in DOMAIN inode' <=> P[k] # NoRow
          /\ k \in DOMAIN inode' => inode'[k] = P[k]
      BY <1>1, <2>2, RowAfterApply
    <3>4. Final(k, row) <=> row # NoRow /\ drow[s][k] = row
      BY <1>1, <3>1 DEF Final
    <3>5. Final(k, row)' <=> row # NoRow /\ k \in DOMAIN inode' /\ inode'[k] = row
      BY <1>2, <3>1, <3>2 DEF Final
    <3> QED BY <3>1, <3>3, <3>4, <3>5
  <2> QED BY <2>1, <2>2
<1>12. pc[s] = "decided" /\ pc'[s] \in {"decided", "done"} /\ {s} \in SUBSET Sessions
  BY <1>1, <1>2
<1> QED BY <1>2, <1>3, <1>5, <1>6, <1>8, <1>10, <1>11, <1>12, EffectNames

\* A COMMIT PREPARED that is lost: the part is in doubt.
LEMMA LoseCommitNames ==
    ASSUME ReplicaInv, NameInv, NEW s \in Sessions, NEW w \in Workers, LoseCommit(s, w)
    PROVE  NameInv'
<1> DEFINE P == PartRows(s, w)
           e == [w |-> w, dirs |-> ddir[s][w], rows |-> P]
<1>0. PerSession /\ TablesTyped /\ TxnTyped(s) /\ w \in Servers
  BY EntriesThere, Typing DEF NameInv
<1>1. pc[s] = "decided" /\ ForgetPart(s, w) /\ indoubt' = indoubt \cup {e}
  BY DEF LoseCommit
<1>2. UNCHANGED <<dir, inode, nextId, pc, job, known, turn, depth, at, tree, found, script, moved, errors>>
  BY DEF LoseCommit, tables, parse
<1>3. /\ TxnTyped(s)' /\ DOMAIN drow' = Sessions
      /\ \A t \in Sessions \ {s} : ddir'[t] = ddir[t] /\ drow'[t] = drow[t]
      /\ \A k : k \in DOMAIN drow'[s] <=> k \in DOMAIN drow[s] /\ k \notin DOMAIN P
      /\ \A k \in DOMAIN drow'[s] : drow'[s][k] = drow[s][k]
  BY <1>1, <1>2, ForgottenTyped
<1>4. /\ KeyedRows(P) /\ DOMAIN P \subseteq DOMAIN drow[s]
      /\ \A k \in DOMAIN P : P[k] = drow[s][k]
  BY PartTyped
<1> HIDE DEF P
<1>5. e.dirs = ddir[s][w] /\ e.rows = P
  OBVIOUS
<1> HIDE DEF e
<1>6. \A t \in Sessions \ {s} : SameAll(t)
  BY <1>2, <1>3 DEF SameAll
<1>7. TablesTyped'
  <2>1. KeyedIds(e.dirs) /\ KeyedRows(e.rows)
    BY <1>0, <1>4, <1>5 DEF TxnTyped
  <2>2. \A d \in indoubt' : KeyedIds(d.dirs) /\ KeyedRows(d.rows)
    BY <1>0, <1>1, <2>1 DEF TablesTyped
  <2>3. /\ shared' \subseteq Servers \X Keys \X Sessions
        /\ exclusive' \subseteq Servers \X Keys \X Sessions
    BY <1>0, ReleaseTyped DEF LoseCommit
  <2>4. lost' \in 0..MaxLost
    <3>1. lost \in 0..MaxLost /\ lost < MaxLost /\ lost' = lost + 1 /\ MaxLost \in Nat
      BY <1>0, NamespaceAssumptions DEF TablesTyped, LoseCommit
    <3> QED BY <3>1
  <2> QED BY <1>0, <1>2, <1>3, <2>2, <2>3, <2>4 DEF TablesTyped
<1>8. OneRowWriter'
  <2>1. \A t \in Sessions : \A k : k \in DOMAIN drow'[t] => k \in DOMAIN drow[t] /\ k \notin DOMAIN P
    <3>1. ASSUME NEW t \in Sessions, NEW k \in DOMAIN drow'[t] PROVE k \in DOMAIN drow[t] /\ k \notin DOMAIN P
      <4>1. CASE t = s
        BY <1>3, <3>1, <4>1
      <4>2. CASE t # s
        BY <1>3, <1>4, <3>1, <4>2, RowsOwned
      <4> QED BY <4>1, <4>2
    <3> QED BY <3>1
  <2>2. ASSUME NEW t \in Sessions, NEW u \in Sessions, NEW k \in DOMAIN drow'[t], k \in DOMAIN drow'[u] PROVE t = u
    BY <2>1, <2>2 DEF NameInv, OneRowWriter
  <2>3. \A k \in DOMAIN P : \A d \in indoubt : k \notin DOMAIN d.rows
    BY <1>4, RowsOwned
  <2>4. ASSUME NEW d \in indoubt', NEW k \in DOMAIN d.rows
        PROVE  /\ \A t \in Sessions : k \notin DOMAIN drow'[t]
               /\ \A x \in indoubt' : k \in DOMAIN x.rows => x = d
    <3>1. CASE d \in indoubt
      <4>1. k \notin DOMAIN P
        BY <2>3, <2>4, <3>1
      <4>2. /\ \A t \in Sessions : k \notin DOMAIN drow[t]
            /\ \A x \in indoubt : k \in DOMAIN x.rows => x = d
        BY <2>4, <3>1 DEF NameInv, OneRowWriter
      <4> QED BY <1>1, <1>5, <2>1, <4>1, <4>2
    <3>2. CASE d = e
      <4>1. k \in DOMAIN P
        BY <1>5, <2>4, <3>2
      <4> QED BY <1>1, <2>1, <2>3, <3>2, <4>1
    <3> QED BY <1>1, <3>1, <3>2
  <2> QED BY <2>2, <2>4 DEF OneRowWriter
<1>9. ASSUME NEW k, NEW row PROVE Final(k, row)' <=> Final(k, row)
  <2>1. CASE k \notin DOMAIN P
    <3>1. ASSUME NEW t \in Sessions
          PROVE  /\ k \in DOMAIN drow'[t] <=> k \in DOMAIN drow[t]
                 /\ k \in DOMAIN drow[t] => drow'[t][k] = drow[t][k]
      <4>1. CASE t = s
        BY <1>3, <2>1, <4>1
      <4>2. CASE t # s
        BY <1>3, <4>2
      <4> QED BY <4>1, <4>2
    <3>2. \A t \in Sessions :
            /\ (pc'[t] = "decided" /\ k \in DOMAIN drow'[t]) <=> (pc[t] = "decided" /\ k \in DOMAIN drow[t])
            /\ pc[t] = "decided" /\ k \in DOMAIN drow[t] => drow'[t][k] = drow[t][k]
      BY <1>2, <3>1
    <3>3. /\ \A d \in indoubt : k \in DOMAIN d.rows => d \in indoubt'
          /\ \A d \in indoubt' : k \in DOMAIN d.rows => d \in indoubt
      BY <1>1, <1>5, <2>1
    <3>4. inode' = inode
      BY <1>2
    <3> QED BY <3>2, <3>3, <3>4, FinalUntouched
  <2>2. CASE k \in DOMAIN P
    <3>1. /\ k \in DOMAIN drow[s] /\ P[k] = drow[s][k]
          /\ \A t \in Sessions : k \in DOMAIN drow[t] => t = s
          /\ \A d \in indoubt : k \notin DOMAIN d.rows
      BY <1>4, <2>2, RowsOwned
    <3>2. \A t \in Sessions : k \notin DOMAIN drow'[t]
      BY <1>3, <2>2, <3>1
    <3>3. Final(k, row) <=> row # NoRow /\ drow[s][k] = row
      BY <1>1, <3>1 DEF Final
    <3>4. e \in indoubt' /\ k \in DOMAIN e.rows /\ \A d \in indoubt' : k \in DOMAIN d.rows => d = e
      BY <1>1, <1>5, <2>2, <3>1
    <3>5. Final(k, row)' <=> row # NoRow /\ e.rows[k] = row
      BY <3>2, <3>4 DEF Final
    <3> QED BY <1>5, <3>1, <3>3, <3>5
  <2> QED BY <2>1, <2>2
<1>10. pc[s] = "decided" /\ pc'[s] \in {"decided", "done"} /\ {s} \in SUBSET Sessions
  BY <1>1, <1>2
<1>11. inode' = inode
  BY <1>2
<1> QED BY <1>2, <1>3, <1>6, <1>7, <1>8, <1>9, <1>10, <1>11, EffectNames

\* The daemon commits a part that was in doubt.
LEMMA CleanupNames ==
    ASSUME ReplicaInv, NameInv, NEW d \in indoubt, CleanupDaemonCommits(d)
    PROVE  NameInv'
<1>0. TablesTyped /\ d.w \in Servers /\ DOMAIN dir = Servers /\ KeyedIds(d.dirs) /\ KeyedRows(d.rows)
  BY Typing DEF NameInv, ReplicaInv, ShapeOK, TablesTyped
<1>1. inode' = Apply(inode, d.rows, NoRow) /\ indoubt' = indoubt \ {d}
  BY DEF CleanupDaemonCommits
<1>2. UNCHANGED <<nextId, shared, exclusive, pc, job, known, turn, depth, at, tree, found, errors, lost>>
  BY DEF CleanupDaemonCommits, locks, parse
<1>3. UNCHANGED <<ddir, drow, script, moved>>
  BY DEF CleanupDaemonCommits, txn
<1>4. \A t \in Sessions : SameAll(t)
  BY <1>2, <1>3 DEF SameAll
<1>5. TablesTyped'
  <2>1. \A x \in Servers : DOMAIN dir'[x] \subseteq Keys /\ \A k \in DOMAIN dir'[x] : dir'[x][k] \in Ids
    BY <1>0, DirTyped DEF CleanupDaemonCommits
  <2>2. DOMAIN inode' \subseteq Keys /\ \A k \in DOMAIN inode' : inode'[k] \in Rows
    BY <1>0, <1>1, ApplyRows DEF TablesTyped
  <2> QED BY <1>0, <1>1, <1>2, <1>3, <2>1, <2>2 DEF TablesTyped
<1>6. OneRowWriter'
  BY <1>1, <1>3 DEF NameInv, OneRowWriter
<1>7. \A k \in DOMAIN d.rows : /\ \A t \in Sessions : k \notin DOMAIN drow[t]
                               /\ \A x \in indoubt : k \in DOMAIN x.rows => x = d
  BY DEF NameInv, OneRowWriter
<1>8. \A k : k \notin DOMAIN d.rows => /\ k \in DOMAIN inode' <=> k \in DOMAIN inode
                                       /\ k \in DOMAIN inode => inode'[k] = inode[k]
  BY <1>1, RowAfterApply
<1>9. \A t \in Sessions : \A k \in DOMAIN drow[t] :
        k \in DOMAIN inode => k \in DOMAIN inode' /\ inode'[k] = inode[k]
  BY <1>7, <1>8
<1>10. ASSUME NEW k, NEW row PROVE Final(k, row)' <=> Final(k, row)
  <2>1. CASE k \notin DOMAIN d.rows
    <3>1. \A t \in Sessions :
            /\ (pc'[t] = "decided" /\ k \in DOMAIN drow'[t]) <=> (pc[t] = "decided" /\ k \in DOMAIN drow[t])
            /\ pc[t] = "decided" /\ k \in DOMAIN drow[t] => drow'[t][k] = drow[t][k]
      BY <1>2, <1>3
    <3>2. /\ \A x \in indoubt : k \in DOMAIN x.rows => x \in indoubt'
          /\ \A x \in indoubt' : k \in DOMAIN x.rows => x \in indoubt
      BY <1>1, <2>1
    <3>3. /\ k \in DOMAIN inode' <=> k \in DOMAIN inode
          /\ k \in DOMAIN inode => inode'[k] = inode[k]
      BY <1>8, <2>1
    <3> QED BY <3>1, <3>2, <3>3, FinalUntouched
  <2>2. CASE k \in DOMAIN d.rows
    <3>1. /\ k \in DOMAIN inode' <=> d.rows[k] # NoRow
          /\ k \in DOMAIN inode' => inode'[k] = d.rows[k]
      BY <1>1, <2>2, RowAfterApply
    <3>2. Final(k, row) <=> row # NoRow /\ d.rows[k] = row
      BY <1>7, <2>2 DEF Final
    <3>3. \A x \in indoubt' : k \notin DOMAIN x.rows
      BY <1>1, <1>7, <2>2
    <3>4. Final(k, row)' <=> row # NoRow /\ k \in DOMAIN inode' /\ inode'[k] = row
      BY <1>3, <1>7, <2>2, <3>3 DEF Final
    <3> QED BY <3>1, <3>2, <3>4
  <2> QED BY <2>1, <2>2
<1>11. {} \in SUBSET Sessions
  OBVIOUS
<1> QED BY <1>2, <1>4, <1>5, <1>6, <1>9, <1>10, <1>11, EffectNames

\* The end of a transaction: nothing of it is left to take effect.
LEMMA FinishNames ==
    ASSUME ReplicaInv, NameInv, NEW s \in Sessions, Finish(s)
    PROVE  NameInv'
<1>0. PerSession /\ TablesTyped /\ TxnTyped(s)
  BY EntriesThere DEF NameInv
<1>1. pc[s] = "decided" /\ pc' = [pc EXCEPT ![s] = "done"] /\ \A w \in Workers : NoPart(s, w)
  BY DEF Finish
<1>2. UNCHANGED <<dir, inode, nextId, job, known, turn, depth, at, tree, found, drow, script, moved>>
  BY DEF Finish, tables, parse
<1>3. UNCHANGED <<indoubt, errors, lost>>
  BY DEF Finish, faults
<1>4. DOMAIN drow[s] = {}
  <2> SUFFICES ASSUME NEW k \in DOMAIN drow[s] PROVE FALSE
    OBVIOUS
  <2>1. k \in Keys
    BY <1>0 DEF TxnTyped, KeyedRows
  <2>2. Home[k[2]] \in Workers
    BY <2>1, NamespaceAssumptions DEF Keys
  <2>3. DOMAIN PartRows(s, Home[k[2]]) = {}
    BY <1>1, <2>2 DEF NoPart
  <2>4. k \in DOMAIN PartRows(s, Home[k[2]])
    BY DEF PartRows
  <2> QED BY <2>3, <2>4
<1>5. /\ pc'[s] = "done" /\ ddir'[s] = [sv \in Servers |-> NoFun]
      /\ \A t \in Sessions \ {s} : pc'[t] = pc[t] /\ ddir'[t] = ddir[t]
  BY <1>0 DEF Finish, PerSession
<1>6. \A t \in Sessions \ {s} : SameAll(t)
  BY <1>2, <1>5 DEF SameAll
<1>7. TxnTyped(s)'
  BY <1>0, <1>2, <1>5, EmptyTyped DEF TxnTyped
<1>8. TablesTyped'
  <2>1. /\ shared' \subseteq Servers \X Keys \X Sessions
        /\ exclusive' \subseteq Servers \X Keys \X Sessions
    BY <1>0, ReleaseTyped DEF Finish
  <2> QED BY <1>0, <1>2, <1>3, <2>1 DEF TablesTyped
<1>9. OneRowWriter'
  BY <1>2, <1>3 DEF NameInv, OneRowWriter
<1>10. ASSUME NEW k, NEW row PROVE Final(k, row)' <=> Final(k, row)
  <2>1. \A t \in Sessions :
          /\ (pc'[t] = "decided" /\ k \in DOMAIN drow'[t]) <=> (pc[t] = "decided" /\ k \in DOMAIN drow[t])
          /\ pc[t] = "decided" /\ k \in DOMAIN drow[t] => drow'[t][k] = drow[t][k]
    BY <1>2, <1>4, <1>5
  <2> QED BY <1>2, <1>3, <2>1, FinalUntouched
<1>11. pc[s] = "decided" /\ pc'[s] \in {"decided", "done"} /\ {s} \in SUBSET Sessions
  BY <1>1, <1>5
<1> QED BY <1>2, <1>6, <1>7, <1>8, <1>9, <1>10, <1>11, EffectNames

-----------------------------------------------------------------------------
(* The theorem.                                                             *)

\* Initially every id has one name.
LEMMA InitNames == ASSUME Init PROVE NameInv
<1>1. PICK t \in Trees : dir = [sv \in Servers |-> t.dir] /\ inode = t.inode /\ nextId = t.next
  BY DEF Init
<1>2. TreeTyped(t)
  BY NamespaceAssumptions
<1>3. /\ shared = {} /\ exclusive = {} /\ indoubt = {} /\ errors = 0 /\ lost = 0
      /\ pc = [s \in Sessions |-> "start"] /\ job = [s \in Sessions |-> NoJob]
      /\ known = [s \in Sessions |-> Absent] /\ turn = [s \in Sessions |-> 1]
      /\ depth = [s \in Sessions |-> 0] /\ at = [s \in Sessions |-> Root]
      /\ tree = [s \in Sessions |-> NoFun] /\ found = [s \in Sessions |-> <<>>]
  BY DEF Init
<1>4. /\ ddir = [s \in Sessions |-> [sv \in Servers |-> NoFun]]
      /\ drow = [s \in Sessions |-> NoFun]
      /\ script = [s \in Sessions |-> [w \in Workers |-> <<>>]]
      /\ moved = [s \in Sessions |-> NoRow]
  BY DEF Init
<1>5. TablesTyped
  <2>1. 0 \in 0..MaxErrors /\ 0 \in 0..MaxLost
    BY NamespaceAssumptions
  <2>2. \A sv \in Servers : dir[sv] = t.dir
    BY <1>1
  <2>3. \A sv \in Servers : DOMAIN dir[sv] \subseteq Keys /\ \A k \in DOMAIN dir[sv] : dir[sv][k] \in Ids
    BY <1>2, <2>2 DEF TreeTyped
  <2>4. /\ DOMAIN inode \subseteq Keys /\ \A k \in DOMAIN inode : inode[k] \in Rows
        /\ nextId \in 1..(MaxId + 1)
    BY <1>1, <1>2 DEF TreeTyped
  <2> QED BY <1>3, <1>4, <2>1, <2>3, <2>4 DEF TablesTyped
<1>6. ASSUME NEW s \in Sessions PROVE DOMAIN drow[s] = {} /\ pc[s] = "start"
  BY <1>3, <1>4, EmptyTyped
<1>7. OneRowWriter
  BY <1>3, <1>6 DEF OneRowWriter
<1>8. \A k, row : Final(k, row) => k \in DOMAIN inode /\ inode[k] = row
  BY <1>3, <1>6 DEF Final
<1>9. \A s \in Sessions : \A k, id : ~ Pending(s, k, id)
  BY <1>6 DEF Pending, Undecided
<1>10. FinalApart
  <2>1. \A k \in DOMAIN inode : inode[k].id < nextId
    BY <1>1, <1>2 DEF TreeTyped
  <2>2. \A k, m \in DOMAIN inode : inode[k].id = inode[m].id => k = m
    BY <1>1, <1>2 DEF TreeTyped
  <2> QED BY <1>8, <2>1, <2>2 DEF FinalApart
<1>11. ASSUME NEW s \in Sessions PROVE ParseTyped(s) /\ TxnTyped(s) /\ RowsSound(s) /\ PendingApart(s)
  <2>1. ParseTyped(s)
    <3>1. /\ job[s] = NoJob /\ known[s] = Absent /\ at[s] = Root /\ turn[s] = 1 /\ depth[s] = 0
          /\ tree[s] = NoFun /\ found[s] = <<>> /\ pc[s] = "start"
      BY <1>3
    <3>2. DOMAIN tree[s] = {} /\ DOMAIN found[s] = {}
      BY <3>1, EmptyTyped, SeqEmpty
    <3> QED BY <3>1, <3>2, Typing DEF ParseTyped, Undecided
  <2>2. TxnTyped(s)
    <3>1. /\ ddir[s] = [sv \in Servers |-> NoFun] /\ drow[s] = NoFun
          /\ \A w \in Workers : DOMAIN script[s][w] = {}
      BY <1>4, SeqEmpty
    <3> QED BY <3>1, EmptyTyped DEF TxnTyped
  <2>3. RowsSound(s)
    BY <1>6 DEF RowsSound, RenameRows, RenameOrder, Undecided
  <2>4. PendingApart(s)
    BY <1>9 DEF PendingApart
  <2> QED BY <2>1, <2>2, <2>3, <2>4
<1> QED BY <1>5, <1>7, <1>10, <1>11 DEF NameInv

\* Every step keeps it so.
LEMMA NextNames == ASSUME ReplicaInv, NameInv, [Next]_vars PROVE NameInv'
<1>1. ASSUME NEW s \in Sessions, Step(s) PROVE NameInv'
  <2>1. ASSUME Parse(s) PROVE NameInv'
    BY <2>1, ParseComponentNames, ParseNewDirectoryNames, ParseOldDirectoryNames, ParseFileNames DEF Parse
  <2>2. ASSUME Calls(s) PROVE NameInv'
    BY <2>2, MkdirCallsNames, RmdirCallsNames, RenameCallsNames, RenameSecondCallNames DEF Calls
  <2>3. ASSUME NEW w \in Workers, SubStep(s, w) \/ CommitOn(s, w) PROVE NameInv'
    BY <2>3, SubStepNames, CommitOnNames
  <2> QED BY <1>1, <2>1, <2>2, <2>3, BeginNames, CreateRowNames, UnlinkRowNames, DecideStepNames,
             FinishNames DEF Step
<1>2. CASE UNCHANGED vars
  <2>1. UNCHANGED <<dir, inode, nextId, shared, exclusive, pc, job, known, turn, depth, at, tree, found>>
    BY <1>2 DEF vars, tables, locks, parse
  <2>2. UNCHANGED <<ddir, drow, script, moved, indoubt, errors, lost>>
    BY <1>2 DEF vars, txn, faults
  <2>3. \A t \in Sessions : SameAll(t)
    BY <2>1, <2>2 DEF SameAll
  <2>4. TablesTyped' /\ OneRowWriter'
    BY <2>1, <2>2 DEF NameInv, TablesTyped, OneRowWriter
  <2>5. \A k, row : Final(k, row)' <=> Final(k, row)
    BY <2>1, <2>2 DEF Final
  <2>6. {} \in SUBSET Sessions
    OBVIOUS
  <2> QED BY <2>1, <2>3, <2>4, <2>5, <2>6, EffectNames
<1> QED BY <1>1, <1>2, StatementFailsNames, LoseCommitNames, CleanupNames DEF Next

\* So an inode has one name, but while a rename commits.
LEMMA NamesFollow == ASSUME ReplicaInv, NameInv PROVE Inv
<1>1. ShapeOK /\ TablesTyped
  BY DEF ReplicaInv, NameInv
<1>2. TypeOK
  <2>1. ASSUME NEW s \in Sessions
        PROVE  /\ job[s] = NoJob \/ job[s].op \in Ops
               /\ known[s] \in Ids \cup {Absent} /\ at[s] \in Ids
               /\ DOMAIN ddir[s] = Servers /\ DOMAIN drow[s] \subseteq Keys
               /\ \A sv \in Servers : DOMAIN ddir[s][sv] \subseteq Keys
    <3>1. ParseTyped(s) /\ TxnTyped(s)
      BY DEF NameInv
    <3> QED BY <1>1, <3>1 DEF ParseTyped, TxnTyped, KeyedIds, KeyedRows, ShapeOK
  <2>2. shared \cup exclusive \subseteq Servers \X Keys \X Sessions
    BY <1>1 DEF TablesTyped
  <2>3. DOMAIN dir = Servers /\ pc \in [Sessions -> {"start", "parse", "calls", "create", "decided", "done"}]
    BY <1>1 DEF ShapeOK
  <2> QED BY <1>1, <2>1, <2>2, <2>3 DEF TypeOK, TablesTyped
<1>3. OneNamePerInode
  <2> SUFFICES ASSUME NEW k \in DOMAIN inode, NEW m \in DOMAIN inode, inode[k].id = inode[m].id,
                      ~ \E s \in Sessions : pc[s] = "decided" /\ {k, m} \cap DOMAIN drow[s] # {},
                      ~ \E d \in indoubt : {k, m} \cap DOMAIN d.rows # {}
      PROVE  k = m
    BY DEF OneNamePerInode
  <2>1. k \in Keys /\ m \in Keys /\ inode[k] \in Rows /\ inode[m] \in Rows
    BY <1>1 DEF TablesTyped
  <2>2. inode[k] # NoRow /\ inode[m] # NoRow
    BY <2>1, Typing
  <2>3. Final(k, inode[k])
    BY <2>2 DEF Final
  <2>4. Final(m, inode[m])
    BY <2>2 DEF Final
  <2> QED BY <2>1, <2>3, <2>4 DEF NameInv, FinalApart
<1> QED BY <1>2, <1>3 DEF Inv

\* The types of all variables, and one name for each inode: at any moment two rows have
\* the same id only while a rename that moves it from one worker to another commits.
THEOREM OneName == Spec => []Inv
<1>1. Init => NameInv
  BY InitNames
<1>2. ReplicaInv /\ NameInv /\ [Next]_vars => NameInv'
  BY NextNames
<1>3. ReplicaInv /\ NameInv => Inv
  BY NamesFollow
<1>4. Spec => []ReplicaInv
  BY ReplicaInvariance
<1> QED BY <1>1, <1>2, <1>3, <1>4, PTL DEF Spec
=============================================================================
