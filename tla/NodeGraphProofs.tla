--------------------------- MODULE NodeGraphProofs ---------------------------
(***************************************************************************)
(* Proofs about NodeGraph, for any nodes, names and pins: links are kept at *)
(* both ends, once, and a connection disturbs nobody else.  The helpers are *)
(* proved first for any lists of links (Links), for inside a call a link may *)
(* be kept at one end only; then for the net a call finds and leaves (Net); *)
(* then for the steps, which keep it (NetInv).  Last comes the clone of a    *)
(* context: which links it adds (Lists), and what they come to (Built).      *)
(***************************************************************************)
EXTENDS NodeGraph, FoldProofs, FiniteSetTheorems, SequenceTheorems, TLAPS

\* x is in the list s.
In(s, x) == \E k \in DOMAIN s : s[k] = x

(* A list without one of its elements.                                       *)
LEMMA RemovedPlace ==
  ASSUME NEW X, NEW s \in Seq(X), IsInjective(s), NEW k \in DOMAIN s
  PROVE  /\ RemoveAt(s, k) \in Seq(X)
         /\ Len(RemoveAt(s, k)) = Len(s) - 1
         /\ IsInjective(RemoveAt(s, k))
         /\ \A x : In(RemoveAt(s, k), x) <=> In(s, x) /\ x # s[k]
         /\ InOrderOf(s, RemoveAt(s, k))
<1> DEFINE n == Len(s)
           front == SubSeq(s, 1, k - 1)
           back == SubSeq(s, k + 1, n)
           t == front \o back
<1>1. n \in Nat /\ DOMAIN s = 1 .. n /\ k \in 1 .. n /\ \A j \in 1 .. n : s[j] \in X
  BY LenProperties, ElementOfSeq
<1>2. /\ front \in Seq(X) /\ Len(front) = k - 1
      /\ \A j \in 1 .. k - 1 : front[j] = s[j]
  <2>1. \A j \in 1 .. k - 1 : s[j] \in X
    BY <1>1
  <2>2. 1 \in Int /\ k - 1 \in Int
    BY <1>1
  <2> HIDE DEF n
  <2>3. /\ front \in Seq(X) /\ Len(front) = (IF 1 <= k - 1 THEN k - 1 - 1 + 1 ELSE 0)
        /\ \A j \in 1 .. k - 1 - 1 + 1 : front[j] = s[1 + j - 1]
    BY <2>1, <2>2, SubSeqProperties
  <2> HIDE DEF front
  <2>4. \A j \in 1 .. k - 1 : j \in 1 .. k - 1 - 1 + 1 /\ 1 + j - 1 = j
    BY <1>1
  <2>5. (IF 1 <= k - 1 THEN k - 1 - 1 + 1 ELSE 0) = k - 1
    BY <1>1
  <2>6. QED
    BY <2>3, <2>4, <2>5
<1>3. /\ back \in Seq(X) /\ Len(back) = n - k
      /\ \A j \in 1 .. n - k : back[j] = s[k + j]
  <2>1. \A j \in k + 1 .. n : s[j] \in X
    BY <1>1
  <2>2. n \in Int /\ k + 1 \in Int
    BY <1>1
  <2> HIDE DEF n
  <2>3. /\ back \in Seq(X)
        /\ Len(back) = (IF k + 1 <= n THEN n - (k + 1) + 1 ELSE 0)
        /\ \A j \in 1 .. n - (k + 1) + 1 : back[j] = s[k + 1 + j - 1]
    BY <2>1, <2>2, SubSeqProperties
  <2> HIDE DEF back
  <2>4. \A j \in 1 .. n - k : j \in 1 .. n - (k + 1) + 1 /\ k + 1 + j - 1 = k + j
    BY <1>1
  <2>5. (IF k + 1 <= n THEN n - (k + 1) + 1 ELSE 0) = n - k
    BY <1>1
  <2>6. QED
    BY <2>3, <2>4, <2>5
<1> HIDE DEF front, back
<1>4. /\ t \in Seq(X) /\ Len(t) = n - 1
      /\ \A j \in 1 .. n - 1 : t[j] = IF j < k THEN s[j] ELSE s[j + 1]
  <2>1. /\ t \in Seq(X) /\ Len(t) = Len(front) + Len(back)
        /\ \A j \in 1 .. Len(front) + Len(back) :
             t[j] = IF j <= Len(front) THEN front[j] ELSE back[j - Len(front)]
    BY <1>2, <1>3, ConcatProperties
  <2> HIDE DEF t, n
  <2>2. Len(t) = n - 1
    BY <1>1, <1>2, <1>3, <2>1
  <2>3. ASSUME NEW j \in 1 .. n - 1
        PROVE  t[j] = IF j < k THEN s[j] ELSE s[j + 1]
    <3>1. CASE j < k
      BY <1>1, <1>2, <1>3, <2>1, <3>1
    <3>2. CASE ~ (j < k)
      <4>1. j - (k - 1) \in 1 .. n - k /\ k + (j - (k - 1)) = j + 1
        BY <1>1, <3>2
      <4>2. t[j] = back[j - (k - 1)]
        BY <1>1, <1>2, <1>3, <2>1, <3>2
      <4>3. QED
        BY <1>3, <3>2, <4>1, <4>2
    <3>3. QED
      BY <3>1, <3>2
  <2>4. QED
    BY <2>1, <2>2, <2>3
<1>5. RemoveAt(s, k) = t
  BY DEF RemoveAt, t, front, back, n
<1> HIDE DEF t, n
<1>6. DOMAIN t = 1 .. n - 1
  BY <1>4, LenProperties
<1>7. \A i, j \in 1 .. n : s[i] = s[j] => i = j
  BY <1>1 DEF IsInjective
<1>8. IsInjective(t)
  <2> SUFFICES ASSUME NEW i \in 1 .. n - 1, NEW j \in 1 .. n - 1, t[i] = t[j]
               PROVE  i = j
    BY <1>6 DEF IsInjective
  <2>1. i \in 1 .. n /\ j \in 1 .. n /\ i + 1 \in 1 .. n /\ j + 1 \in 1 .. n
    BY <1>1
  <2>2. QED
    BY <1>1, <1>4, <1>7, <2>1
<1>9. ASSUME NEW x
      PROVE  In(t, x) <=> In(s, x) /\ x # s[k]
  <2>1. ASSUME NEW j \in 1 .. n - 1, t[j] = x
        PROVE  (\E i \in 1 .. n : s[i] = x) /\ x # s[k]
    <3>1. j \in 1 .. n /\ j + 1 \in 1 .. n
      BY <1>1
    <3>2. QED
      BY <1>1, <1>4, <1>7, <2>1, <3>1
  <2>2. ASSUME NEW i \in 1 .. n, s[i] = x, x # s[k]
        PROVE  \E j \in 1 .. n - 1 : t[j] = x
    <3>1. CASE i < k
      <4>1. i \in 1 .. n - 1 /\ t[i] = x
        BY <1>1, <1>4, <2>2, <3>1
      <4>2. QED
        BY <4>1
    <3>2. CASE i > k
      <4>1. i - 1 \in 1 .. n - 1 /\ ~ (i - 1 < k) /\ i - 1 + 1 = i
        BY <1>1, <3>2
      <4>2. t[i - 1] = x
        BY <1>4, <2>2, <4>1
      <4>3. QED
        BY <4>1, <4>2
    <3>3. QED
      BY <1>1, <2>2, <3>1, <3>2
  <2>3. QED
    BY <1>1, <1>6, <2>1, <2>2 DEF In
<1>10. InOrderOf(s, t)
  <2> SUFFICES ASSUME NEW i \in DOMAIN t, NEW j \in DOMAIN t, i < j
               PROVE  \E a, b \in DOMAIN s : a < b /\ s[a] = t[i] /\ s[b] = t[j]
    BY DEF InOrderOf
  <2> DEFINE a == IF i < k THEN i ELSE i + 1
             b == IF j < k THEN j ELSE j + 1
  <2>1. i \in 1 .. n - 1 /\ j \in 1 .. n - 1
    BY <1>6
  <2>2. a \in DOMAIN s /\ b \in DOMAIN s /\ a < b
    BY <1>1, <2>1
  <2>3. s[a] = t[i] /\ s[b] = t[j]
    BY <1>4, <2>1
  <2>4. QED
    BY <2>2, <2>3
<1>11. QED
  BY <1>4, <1>5, <1>8, <1>9, <1>10 DEF n

(* A list is in its own order.                                               *)
LEMMA InOrderReflexive ==
  ASSUME NEW X, NEW s \in Seq(X)
  PROVE  InOrderOf(s, s)
BY DEF InOrderOf

(* And a part of a part is a part.                                          *)
LEMMA InOrderTransitive ==
  ASSUME NEW s, NEW t, NEW u, InOrderOf(s, t), InOrderOf(t, u)
  PROVE  InOrderOf(s, u)
<1> SUFFICES ASSUME NEW j \in DOMAIN u, NEW k \in DOMAIN u, j < k
             PROVE  \E i, l \in DOMAIN s : i < l /\ s[i] = u[j] /\ s[l] = u[k]
  BY DEF InOrderOf
<1>1. PICK a \in DOMAIN t, b \in DOMAIN t : a < b /\ t[a] = u[j] /\ t[b] = u[k]
  BY DEF InOrderOf
<1>2. PICK i \in DOMAIN s, l \in DOMAIN s : i < l /\ s[i] = t[a] /\ s[l] = t[b]
  BY <1>1 DEF InOrderOf
<1>3. QED
  BY <1>1, <1>2

-----------------------------------------------------------------------------
(* Links, whether they are kept at both ends or not.                         *)

\* Lists of links, no link twice in a list.
Links(L) ==
  /\ L \in [Pin -> Seq(Pin)]
  /\ \A p \in Pin : IsInjective(L[p])

(* What the provers need to know of the links of a pin.                      *)
LEMMA LinksShape ==
  ASSUME NEW L, Links(L), NEW p \in Pin
  PROVE  /\ L[p] \in Seq(Pin) /\ Len(L[p]) \in Nat /\ DOMAIN L[p] = 1 .. Len(L[p])
         /\ \A k \in DOMAIN L[p] : L[p][k] \in Pin
         /\ \A q : Linked(L, p, q) => q \in Pin
         /\ L[p] = <<>> <=> Len(L[p]) = 0
<1>1. L[p] \in Seq(Pin)
  BY DEF Links
<1>2. /\ Len(L[p]) \in Nat /\ DOMAIN L[p] = 1 .. Len(L[p])
      /\ \A k \in DOMAIN L[p] : L[p][k] \in Pin
  BY <1>1, LenProperties, ElementOfSeq
<1>3. L[p] = <<>> <=> Len(L[p]) = 0
  BY <1>1, EmptySeq
<1>4. QED
  BY <1>1, <1>2, <1>3 DEF Linked

(* The links of a pin are the members of its list.                           *)
LEMMA LinkedIn == \A L, p, q : Linked(L, p, q) <=> In(L[p], q)
BY DEF Linked, In

(* be_disconnected: one link goes, at one end.                               *)
LEMMA ForgetsOne ==
  ASSUME NEW L, Links(L), NEW p \in Pin, NEW q
  PROVE  /\ Links(BeDisconnected(L, p, q))
         /\ \A r \in Pin : r # p => BeDisconnected(L, p, q)[r] = L[r]
         /\ \A r \in Pin : \A t : Linked(BeDisconnected(L, p, q), r, t)
                                    <=> Linked(L, r, t) /\ ~ (r = p /\ t = q)
         /\ \A r \in Pin : Len(BeDisconnected(L, p, q)[r]) <= Len(L[r])
         /\ Linked(L, p, q) => Len(BeDisconnected(L, p, q)[p]) = Len(L[p]) - 1
         /\ \A r \in Pin : InOrderOf(L[r], BeDisconnected(L, p, q)[r])
<1> DEFINE M == BeDisconnected(L, p, q)
<1>1. \A r \in Pin : Len(L[r]) \in Nat /\ L[r] \in Seq(Pin) /\ InOrderOf(L[r], L[r])
  BY LinksShape, InOrderReflexive
<1>2. CASE ~ Linked(L, p, q)
  <2>1. M = L
    BY <1>2 DEF BeDisconnected
  <2>2. QED
    BY <1>1, <1>2, <2>1
<1>3. CASE Linked(L, p, q)
  <2> DEFINE Place(k) == L[p][k] = q /\ \A j \in 1 .. k - 1 : L[p][j] # q
             at == CHOOSE k \in DOMAIN L[p] : Place(k)
             s == RemoveAt(L[p], at)
  <2>1. \E k \in DOMAIN L[p] : Place(k)
    <3>1. PICK k \in DOMAIN L[p] : L[p][k] = q
      BY <1>3 DEF Linked
    <3>2. k \in 1 .. Len(L[p]) /\ Len(L[p]) \in Nat /\ DOMAIN L[p] = 1 .. Len(L[p])
      BY LinksShape
    <3>3. \A j \in 1 .. k - 1 : j \in DOMAIN L[p] /\ j # k
      BY <3>2
    <3>4. \A j \in 1 .. k - 1 : L[p][j] # q
      BY <3>1, <3>3 DEF Links, IsInjective
    <3>5. QED
      BY <3>1, <3>4
  <2>2. at \in DOMAIN L[p] /\ L[p][at] = q
    <3> HIDE DEF Place
    <3>1. at \in DOMAIN L[p] /\ Place(at)
      BY <2>1
    <3>2. QED
      BY <3>1 DEF Place
  <2>3. M = [L EXCEPT ![p] = s]
    BY <1>3 DEF BeDisconnected
  <2> HIDE DEF at
  <2>4. /\ s \in Seq(Pin) /\ Len(s) = Len(L[p]) - 1 /\ IsInjective(s)
        /\ \A x : In(s, x) <=> In(L[p], x) /\ x # q
        /\ InOrderOf(L[p], s)
    BY <1>1, <2>2, RemovedPlace DEF Links
  <2> HIDE DEF s
  <2>5. M \in [Pin -> Seq(Pin)] /\ M[p] = s /\ \A r \in Pin : r # p => M[r] = L[r]
    BY <2>3, <2>4 DEF Links
  <2> HIDE DEF M
  <2>6. Links(M)
    BY <2>4, <2>5 DEF Links
  <2>7. \A r \in Pin : \A t : Linked(M, r, t) <=> Linked(L, r, t) /\ ~ (r = p /\ t = q)
    BY <2>4, <2>5, LinkedIn
  <2>8. ASSUME NEW r \in Pin
        PROVE  Len(M[r]) <= Len(L[r])
    <3>1. CASE r = p
      <4>1. Len(L[p]) - 1 <= Len(L[p])
        BY <1>1
      <4>2. QED
        BY <2>4, <2>5, <3>1, <4>1
    <3>2. CASE r # p
      BY <1>1, <2>5, <3>2
    <3>3. QED
      BY <3>1, <3>2
  <2>9. \A r \in Pin : InOrderOf(L[r], M[r])
    BY <1>1, <2>4, <2>5
  <2>10. QED
    BY <2>4, <2>5, <2>6, <2>7, <2>8, <2>9 DEF M
<1>4. QED
  BY <1>2, <1>3

(* disconnect: one link goes, at both ends.                                  *)
LEMMA ForgetBoth ==
  ASSUME NEW L, Links(L), NEW p \in Pin, NEW q \in Pin, p # q, Linked(L, p, q)
  PROVE  /\ Links(Disconnected(L, p, q))
         /\ \A r \in Pin : \A t : Linked(Disconnected(L, p, q), r, t)
              <=> Linked(L, r, t) /\ ~ (r = p /\ t = q) /\ ~ (r = q /\ t = p)
         /\ \A r \in Pin : Len(Disconnected(L, p, q)[r]) <= Len(L[r])
         /\ Len(Disconnected(L, p, q)[p]) = Len(L[p]) - 1
         /\ \A r \in Pin : r # p /\ r # q => Disconnected(L, p, q)[r] = L[r]
         /\ \A r \in Pin : InOrderOf(L[r], Disconnected(L, p, q)[r])
<1> DEFINE M == BeDisconnected(L, q, p)
           D == BeDisconnected(M, p, q)
<1>1. Disconnected(L, p, q) = D
  BY DEF Disconnected
<1>2. /\ Links(M) /\ M[p] = L[p]
      /\ \A r \in Pin : \A t : Linked(M, r, t) <=> Linked(L, r, t) /\ ~ (r = q /\ t = p)
      /\ \A r \in Pin : Len(M[r]) <= Len(L[r])
      /\ \A r \in Pin : r # q => M[r] = L[r]
      /\ \A r \in Pin : InOrderOf(L[r], M[r])
  BY ForgetsOne
<1>3. \A r \in Pin : Len(L[r]) \in Nat /\ Len(M[r]) \in Nat
  <2> HIDE DEF M
  <2>1. QED
    BY <1>2, LinksShape
<1> HIDE DEF M
<1>4. /\ Links(D)
      /\ \A r \in Pin : \A t : Linked(D, r, t) <=> Linked(M, r, t) /\ ~ (r = p /\ t = q)
      /\ \A r \in Pin : Len(D[r]) <= Len(M[r])
      /\ Linked(M, p, q) => Len(D[p]) = Len(M[p]) - 1
      /\ \A r \in Pin : r # p => D[r] = M[r]
      /\ \A r \in Pin : InOrderOf(M[r], D[r])
  BY <1>2, ForgetsOne
<1>5. \A r \in Pin : Len(D[r]) \in Nat
  <2> HIDE DEF D
  <2>1. QED
    BY <1>4, LinksShape
<1> HIDE DEF D
<1>6. Linked(M, p, q)
  BY <1>2
<1>7. \A r \in Pin : Len(D[r]) <= Len(L[r])
  BY <1>2, <1>3, <1>4, <1>5
<1>8. \A r \in Pin : InOrderOf(L[r], D[r])
  BY <1>2, <1>4, InOrderTransitive
<1>9. \A r \in Pin : r # p /\ r # q => D[r] = L[r]
  BY <1>2, <1>4
<1>10. QED
  BY <1>1, <1>2, <1>4, <1>6, <1>7, <1>8, <1>9

(* A link more, at one end.                                                  *)
LEMMA RemembersOne ==
  ASSUME NEW L, Links(L), NEW p \in Pin, NEW q \in Pin, ~ Linked(L, p, q)
  PROVE  LET A == [L EXCEPT ![p] = Append(@, q)]
         IN  /\ Links(A)
             /\ \A r \in Pin : r # p => A[r] = L[r]
             /\ \A r \in Pin : \A t : Linked(A, r, t)
                  <=> Linked(L, r, t) \/ (r = p /\ t = q)
             /\ Len(A[p]) = Len(L[p]) + 1
<1> DEFINE s == Append(L[p], q)
           n == Len(L[p])
           A == [L EXCEPT ![p] = s]
<1>1. L[p] \in Seq(Pin) /\ n \in Nat /\ DOMAIN L[p] = 1 .. n
  BY LinksShape
<1>2. /\ s \in Seq(Pin) /\ Len(s) = n + 1
      /\ \A k \in 1 .. n : s[k] = L[p][k]
      /\ s[n + 1] = q
  BY <1>1, AppendProperties
<1>3. DOMAIN s = 1 .. n + 1
  BY <1>2, LenProperties
<1> HIDE DEF s, n
<1>4. IsInjective(s)
  <2>1. \A i, j \in 1 .. n : L[p][i] = L[p][j] => i = j
    BY <1>1 DEF Links, IsInjective
  <2>2. \A i \in 1 .. n : L[p][i] # q
    BY <1>1 DEF Linked
  <2>3. \A i \in 1 .. n + 1 : i \in 1 .. n \/ i = n + 1
    BY <1>1
  <2>4. QED
    BY <1>2, <1>3, <2>1, <2>2, <2>3 DEF IsInjective
<1>5. \A t : In(s, t) <=> In(L[p], t) \/ t = q
  <2>1. \A i \in 1 .. n + 1 : i \in 1 .. n \/ i = n + 1
    BY <1>1
  <2>2. n + 1 \in 1 .. n + 1 /\ \A i \in 1 .. n : i \in 1 .. n + 1
    BY <1>1
  <2>3. QED
    BY <1>1, <1>2, <1>3, <2>1, <2>2 DEF In
<1>6. A \in [Pin -> Seq(Pin)] /\ A[p] = s /\ \A r \in Pin : r # p => A[r] = L[r]
  BY <1>2 DEF Links
<1>7. A = [L EXCEPT ![p] = Append(@, q)]
  BY DEF s
<1> HIDE DEF A
<1>8. Links(A)
  BY <1>4, <1>6 DEF Links
<1>9. \A r \in Pin : \A t : Linked(A, r, t) <=> Linked(L, r, t) \/ (r = p /\ t = q)
  BY <1>5, <1>6, LinkedIn
<1>10. Len(A[p]) = Len(L[p]) + 1
  BY <1>2, <1>6 DEF n
<1>11. QED
  BY <1>6, <1>7, <1>8, <1>9, <1>10

(* The link of a single pin makes room.                                      *)
LEMMA VacatedLinks ==
  ASSUME NEW L, Links(L), NEW p \in Pin, ~ Linked(L, p, p),
         p \in single => Len(L[p]) <= 1
  PROVE  /\ Links(Vacated(L, p))
         /\ \A r \in Pin : \A t : Linked(Vacated(L, p), r, t)
              <=> /\ Linked(L, r, t)
                  /\ ~ (p \in single /\ r = p)
                  /\ ~ (p \in single /\ t = p /\ Linked(L, p, r))
         /\ \A r \in Pin : Len(Vacated(L, p)[r]) <= Len(L[r])
         /\ p \in single => Len(Vacated(L, p)[p]) = 0
         /\ \A r \in Pin : ~ (p \in single /\ r = p) /\ ~ Linked(L, p, r)
              => Vacated(L, p)[r] = L[r]
         /\ \A r \in Pin : InOrderOf(L[r], Vacated(L, p)[r])
<1>1. /\ L[p] \in Seq(Pin) /\ Len(L[p]) \in Nat /\ DOMAIN L[p] = 1 .. Len(L[p])
      /\ L[p] = <<>> <=> Len(L[p]) = 0
      /\ \A r \in Pin : Len(L[r]) \in Nat
      /\ \A r \in Pin : InOrderOf(L[r], L[r])
  BY LinksShape, InOrderReflexive
<1>2. CASE ~ (p \in single /\ L[p] # <<>>)
  <2>1. Vacated(L, p) = L
    BY <1>2 DEF Vacated
  <2>2. p \in single => \A t : ~ Linked(L, p, t)
    BY <1>1, <1>2 DEF Linked
  <2>3. QED
    BY <1>1, <1>2, <2>1, <2>2
<1>3. CASE p \in single /\ L[p] # <<>>
  <2> DEFINE x == L[p][1]
  <2>1. Len(L[p]) = 1 /\ 1 \in DOMAIN L[p]
    <3>1. Len(L[p]) # 0 /\ Len(L[p]) <= 1 /\ Len(L[p]) \in Nat
      BY <1>1, <1>3
    <3>2. \A n \in Nat : n # 0 /\ n <= 1 => n = 1
      OBVIOUS
    <3>3. Len(L[p]) = 1
      BY <3>1, <3>2, Zenon
    <3>4. 1 \in 1 .. 1
      OBVIOUS
    <3>5. QED
      BY <1>1, <3>3, <3>4
  <2>2. \A t : Linked(L, p, t) <=> t = x
    BY <1>1, <2>1 DEF Linked
  <2>3. x \in Pin /\ Linked(L, p, x) /\ x # p
    BY <2>1, <2>2, LinksShape
  <2>4. Vacated(L, p) = Disconnected(L, p, x)
    BY <1>3 DEF Vacated
  <2> HIDE DEF x
  <2>5. /\ Links(Disconnected(L, p, x))
        /\ \A r \in Pin : \A t : Linked(Disconnected(L, p, x), r, t)
             <=> Linked(L, r, t) /\ ~ (r = p /\ t = x) /\ ~ (r = x /\ t = p)
        /\ \A r \in Pin : Len(Disconnected(L, p, x)[r]) <= Len(L[r])
        /\ Len(Disconnected(L, p, x)[p]) = Len(L[p]) - 1
        /\ \A r \in Pin : r # p /\ r # x => Disconnected(L, p, x)[r] = L[r]
        /\ \A r \in Pin : InOrderOf(L[r], Disconnected(L, p, x)[r])
    BY <2>3, ForgetBoth
  <2>6. Len(Disconnected(L, p, x)[p]) = 0
    BY <2>1, <2>5
  <2>7. QED
    BY <1>3, <2>2, <2>4, <2>5, <2>6
<1>4. QED
  BY <1>2, <1>3

-----------------------------------------------------------------------------
(* Links between the pins P, kept at both ends.                              *)

\* What the calls of the program leave behind: both ends of a link have it, no
\* pin is linked to itself or twice to another, a single pin has one link.
Net(L, P) ==
  /\ Links(L)
  /\ \A p, q \in Pin : Linked(L, p, q) => p \in P /\ Linked(L, q, p)
  /\ \A p \in Pin : ~ Linked(L, p, p)
  /\ \A p \in single : Len(L[p]) <= 1

(* Both ends of a link are pins of the net.                                  *)
LEMMA NetEnds ==
  ASSUME NEW L, NEW P, Net(L, P), NEW p \in Pin, NEW q, Linked(L, p, q)
  PROVE  p \in P /\ q \in P /\ q \in Pin /\ Linked(L, q, p)
<1>1. q \in Pin
  BY LinksShape DEF Net
<1>2. QED
  BY <1>1 DEF Net

(* The longer list begins with the shorter one.                              *)
LEMMA AppendPrefix ==
  ASSUME NEW X, NEW s \in Seq(X), NEW x \in X
  PROVE  IsPrefix(s, s) /\ IsPrefix(s, Append(s, x))
<1>1. /\ Len(s) \in Nat /\ Append(s, x) \in Seq(X) /\ Len(Append(s, x)) = Len(s) + 1
      /\ \A k \in 1 .. Len(s) : Append(s, x)[k] = s[k]
  BY LenProperties, AppendProperties
<1>2. SubSeq(s, 1, Len(s)) = SubSeq(Append(s, x), 1, Len(s))
  BY <1>1
<1>3. QED
  BY <1>1, <1>2 DEF IsPrefix

(* connect: whatever links make room for the new one, at either end, go at   *)
(* both of theirs, and the rest stays in order.                              *)
LEMMA ConnectedLinks ==
  ASSUME single \subseteq Pin, NEW P \in SUBSET Pin, NEW L, Net(L, P),
         NEW p \in P, NEW q \in P, NEW allow_replace, ~ Refused(L, p, q, allow_replace)
  PROVE  LET C == Connected(L, p, q, allow_replace)
         IN  /\ Net(C, P)
             /\ \A r, t \in Pin : Linked(C, r, t)
                  <=> \/ /\ Linked(L, r, t)
                         /\ ~ (p \in single /\ (r = p \/ t = p))
                         /\ ~ (q \in single /\ (r = q \/ t = q))
                      \/ r = p /\ t = q
                      \/ r = q /\ t = p
             /\ \A r \in Pin \ {p, q} : InOrderOf(L[r], C[r])
             /\ p \notin single => IsPrefix(L[p], C[p])
             /\ q \notin single => IsPrefix(L[q], C[q])
<1> DEFINE V == Vacated(L, p)
           A == [V EXCEPT ![p] = Append(@, q)]
           W == Vacated(A, q)
           C == [W EXCEPT ![q] = Append(@, p)]
<1>1. Connected(L, p, q, allow_replace) = C
  BY DEF Connected, BeConnected
<1>2. p # q /\ ~ Linked(L, p, q) /\ ~ Linked(L, q, p)
  BY DEF Refused, Net
<1>3. Links(L) /\ \A r \in Pin : Len(L[r]) \in Nat
  BY LinksShape DEF Net
<1>4. /\ Links(V)
      /\ \A r \in Pin : \A t : Linked(V, r, t)
           <=> /\ Linked(L, r, t)
               /\ ~ (p \in single /\ r = p)
               /\ ~ (p \in single /\ t = p /\ Linked(L, p, r))
      /\ \A r \in Pin : Len(V[r]) <= Len(L[r])
      /\ p \in single => Len(V[p]) = 0
      /\ \A r \in Pin : ~ (p \in single /\ r = p) /\ ~ Linked(L, p, r) => V[r] = L[r]
      /\ \A r \in Pin : InOrderOf(L[r], V[r])
  BY <1>3, VacatedLinks DEF Net
<1> HIDE DEF V
<1>5. \A r, t \in Pin : Linked(V, r, t)
        <=> Linked(L, r, t) /\ ~ (p \in single /\ (r = p \/ t = p))
  BY <1>4 DEF Net
<1>6. \A r \in Pin : Len(V[r]) \in Nat
  BY <1>4, LinksShape
<1>7. /\ Links(A)
      /\ \A r \in Pin : r # p => A[r] = V[r]
      /\ \A r \in Pin : \A t : Linked(A, r, t)
           <=> Linked(V, r, t) \/ (r = p /\ t = q)
      /\ Len(A[p]) = Len(V[p]) + 1
      /\ A[p] = Append(V[p], q)
  <2>1. A[p] = Append(V[p], q)
    BY <1>4 DEF Links
  <2>2. QED
    BY <1>2, <1>4, <1>5, <2>1, RemembersOne
<1> HIDE DEF A
<1>8. \A r \in Pin : Len(A[r]) \in Nat
  BY <1>7, LinksShape
<1>9. ~ Linked(A, q, q) /\ ~ Linked(A, q, p)
  BY <1>2, <1>5, <1>7 DEF Net
<1>10. q \in single => Len(A[q]) <= 1
  BY <1>2, <1>3, <1>4, <1>6, <1>7 DEF Net
<1>11. /\ Links(W)
       /\ \A r \in Pin : \A t : Linked(W, r, t)
            <=> /\ Linked(A, r, t)
                /\ ~ (q \in single /\ r = q)
                /\ ~ (q \in single /\ t = q /\ Linked(A, q, r))
       /\ \A r \in Pin : Len(W[r]) <= Len(A[r])
       /\ q \in single => Len(W[q]) = 0
       /\ \A r \in Pin : ~ (q \in single /\ r = q) /\ ~ Linked(A, q, r) => W[r] = A[r]
       /\ \A r \in Pin : InOrderOf(A[r], W[r])
  BY <1>7, <1>9, <1>10, VacatedLinks
<1> HIDE DEF W
<1>12. \A r \in Pin : Len(W[r]) \in Nat
  BY <1>11, LinksShape
<1>13. /\ Links(C)
       /\ \A r \in Pin : r # q => C[r] = W[r]
       /\ \A r \in Pin : \A t : Linked(C, r, t)
            <=> Linked(W, r, t) \/ (r = q /\ t = p)
       /\ Len(C[q]) = Len(W[q]) + 1
       /\ C[q] = Append(W[q], p)
  <2>1. C[q] = Append(W[q], p)
    BY <1>11 DEF Links
  <2>2. QED
    <3>1. /\ Links(C)
          /\ \A r \in Pin : r # q => C[r] = W[r]
          /\ \A r \in Pin : \A t : Linked(C, r, t)
               <=> Linked(W, r, t) \/ (r = q /\ t = p)
          /\ Len(C[q]) = Len(W[q]) + 1
      BY <1>9, <1>11, RemembersOne
    <3>2. QED
      BY <2>1, <3>1
<1> HIDE DEF C
<1>14. \A r, t \in Pin : Linked(A, r, t)
         <=> \/ Linked(L, r, t) /\ ~ (p \in single /\ (r = p \/ t = p))
             \/ r = p /\ t = q
  BY <1>5, <1>7
<1>15. \A r, t \in Pin : Linked(W, r, t)
         <=> \/ /\ Linked(L, r, t)
                /\ ~ (p \in single /\ (r = p \/ t = p))
                /\ ~ (q \in single /\ (r = q \/ t = q))
             \/ r = p /\ t = q
  BY <1>2, <1>11, <1>14 DEF Net
<1>16. \A r, t \in Pin : Linked(C, r, t)
         <=> \/ /\ Linked(L, r, t)
                /\ ~ (p \in single /\ (r = p \/ t = p))
                /\ ~ (q \in single /\ (r = q \/ t = q))
             \/ r = p /\ t = q
             \/ r = q /\ t = p
  BY <1>13, <1>15
<1>17. \A r, t \in Pin : Linked(C, r, t) => r \in P /\ Linked(C, t, r)
  BY <1>16 DEF Net
<1>18. \A r \in Pin : ~ Linked(C, r, r)
  BY <1>2, <1>16 DEF Net
<1>19. ASSUME NEW r \in single
       PROVE  Len(C[r]) <= 1
  <2>1. r \in Pin /\ Len(L[r]) <= 1
    BY DEF Net
  <2>2. CASE r = q
    BY <1>11, <1>13, <2>2
  <2>3. CASE r = p
    <3>1. Len(A[p]) = 1
      BY <1>4, <1>7, <2>3
    <3>2. QED
      <4>1. C[p] = W[p] /\ Len(W[p]) <= Len(A[p])
        BY <1>2, <1>11, <1>13, <2>1, <2>3
      <4>2. Len(C[p]) <= 1
        BY <3>1, <4>1
      <4>3. QED
        BY <2>3, <4>2
  <2>4. CASE r # p /\ r # q
    BY <1>3, <1>4, <1>6, <1>7, <1>11, <1>12, <1>13, <2>1, <2>4
  <2>5. QED
    BY <2>2, <2>3, <2>4
<1>20. Net(C, P)
  BY <1>13, <1>17, <1>18, <1>19 DEF Net
<1>21. \A r \in Pin \ {p, q} : InOrderOf(L[r], C[r])
  BY <1>4, <1>7, <1>11, <1>13, InOrderTransitive
<1>22. ASSUME p \notin single
       PROVE  IsPrefix(L[p], C[p])
  <2>1. C[p] = Append(L[p], q)
    BY <1>2, <1>4, <1>7, <1>9, <1>11, <1>13, <1>22 DEF Net
  <2>2. QED
    BY <1>3, <2>1, LinksShape, AppendPrefix
<1>23. ASSUME q \notin single
       PROVE  IsPrefix(L[q], C[q])
  <2>1. C[q] = Append(L[q], p)
    BY <1>2, <1>4, <1>7, <1>9, <1>11, <1>13, <1>23 DEF Net
  <2>2. QED
    BY <1>3, <2>1, LinksShape, AppendPrefix
<1>24. QED
  BY <1>1, <1>16, <1>20, <1>21, <1>22, <1>23

(* So the links are kept at both ends.                                       *)
LEMMA ConnectedNet ==
  ASSUME single \subseteq Pin, NEW P \in SUBSET Pin, NEW L, Net(L, P),
         NEW p \in P, NEW q \in P, NEW allow_replace
  PROVE  Net(Connected(L, p, q, allow_replace), P)
<1>1. CASE Refused(L, p, q, allow_replace)
  BY <1>1 DEF Connected
<1>2. CASE ~ Refused(L, p, q, allow_replace)
  BY <1>2, ConnectedLinks
<1>3. QED
  BY <1>1, <1>2

(* disconnect.                                                               *)
LEMMA DisconnectedNet ==
  ASSUME single \subseteq Pin, NEW P, NEW L, Net(L, P), NEW p \in Pin, NEW q \in Pin
  PROVE  Net(Disconnected(L, p, q), P)
<1>1. CASE ~ Linked(L, p, q)
  BY <1>1 DEF Disconnected
<1>2. CASE Linked(L, p, q)
  <2> DEFINE D == Disconnected(L, p, q)
  <2>1. p # q /\ Links(L) /\ \A r \in Pin : Len(L[r]) \in Nat
    BY <1>2, LinksShape DEF Net
  <2>2. /\ Links(D)
        /\ \A r \in Pin : \A t : Linked(D, r, t)
             <=> Linked(L, r, t) /\ ~ (r = p /\ t = q) /\ ~ (r = q /\ t = p)
        /\ \A r \in Pin : Len(D[r]) <= Len(L[r])
    BY <1>2, <2>1, ForgetBoth
  <2> HIDE DEF D
  <2>3. \A r \in Pin : Len(D[r]) \in Nat
    BY <2>2, LinksShape
  <2>4. \A r \in single : Len(D[r]) <= 1
    BY <2>1, <2>2, <2>3 DEF Net
  <2>5. \A r, t \in Pin : Linked(D, r, t) => r \in P /\ Linked(D, t, r)
    BY <2>2 DEF Net
  <2>6. \A r \in Pin : ~ Linked(D, r, r)
    BY <2>2 DEF Net
  <2>7. QED
    BY <2>2, <2>4, <2>5, <2>6 DEF Net, D
<1>3. QED
  BY <1>1, <1>2

-----------------------------------------------------------------------------
(* disconnect_all, and the destructors of pins.                              *)

(* The pin goes through its links from the first to the last.                *)
LEMMA CutRun ==
  ASSUME NEW L, Links(L), NEW p \in Pin
  PROVE  \E run \in [0 .. Len(L[p]) -> [Pin -> Seq(Pin)]] :
           /\ run[0] = L
           /\ \A k \in 0 .. Len(L[p]) : Links(run[k])
           /\ \A k \in 1 .. Len(L[p]) : run[k] = BeDisconnected(run[k - 1], L[p][k], p)
           /\ Cut(L, p) = [run[Len(L[p])] EXCEPT ![p] = <<>>]
<1> DEFINE s == L[p]
           n == Len(s)
           S == {M \in [Pin -> Seq(Pin)] : Links(M)}
           init == L
           Op(M, q) == BeDisconnected(M, q, p)
           step == [a \in (1 .. n) \X S |-> Op(a[2], s[a[1]])]
           Iter(f) == f = [T \in SUBSET DOMAIN s |->
                             IF T = {} THEN init ELSE Op(f[T \ {Max(T)}], s[Max(T)])]
           iter == CHOOSE f : Iter(f)
<1>1. n \in Nat /\ DOMAIN s = 1 .. n /\ \A k \in 1 .. n : s[k] \in Pin
  BY LinksShape
<1>2. Cut(L, p) = [iter[DOMAIN s] EXCEPT ![p] = <<>>]
  BY DEF Cut, FoldLeft, MapThenFoldSet
<1>3. init \in S /\ \A k \in 1 .. n, M \in S : Op(M, s[k]) \in S
  <2>1. init \in S
    BY DEF Links
  <2>2. ASSUME NEW k \in 1 .. n, NEW M \in S
        PROVE  Op(M, s[k]) \in S
    <3>1. s[k] \in Pin /\ Links(M)
      BY <1>1
    <3> HIDE DEF s
    <3>2. Links(BeDisconnected(M, s[k], p))
      BY <3>1, ForgetsOne
    <3>3. QED
      BY <3>2 DEF Links
  <2>3. QED
    BY <2>1, <2>2
<1>4. \A M \in S : Links(M) /\ M \in [Pin -> Seq(Pin)]
  OBVIOUS
<1> HIDE DEF n, S, init, Op
<1>5. /\ step \in [(1 .. n) \X S -> S]
      /\ \A k \in 1 .. n, M \in S : step[<<k, M>>] = Op(M, s[k])
  BY <1>3
<1> HIDE DEF step
<1>6. PICK f : FoldTable(S, n, init, step, f)
  BY <1>1, <1>3, <1>5, FoldTableExists
<1>7. Iter(f)
  BY <1>1, <1>5, <1>6 DEF FoldTable
<1>8. Iter(iter)
  <2> HIDE DEF Iter
  <2>1. QED
    BY <1>7
<1> HIDE DEF iter
<1>9. PICK run : FoldRun(S, n, init, step, run, iter[1 .. n])
  <2>1. iter[{}] = init
    BY <1>8
  <2>2. \A T \in SUBSET (1 .. n) : T # {} /\ iter[T \ {Max(T)}] \in S =>
           iter[T] = step[<<Max(T), iter[T \ {Max(T)}]>>]
    BY <1>1, <1>5, <1>6, <1>8 DEF FoldTable
  <2>3. QED
    BY <1>1, <1>3, <1>5, <2>1, <2>2, FoldRuns
<1>10. \A k \in 1 .. n : run[k] = Op(run[k - 1], s[k])
  <2>1. \A k \in 1 .. n : k - 1 \in 0 .. n
    BY <1>1
  <2>2. QED
    BY <1>5, <1>9, <2>1 DEF FoldRun
<1>11. run \in [0 .. n -> [Pin -> Seq(Pin)]] /\ \A k \in 0 .. n : Links(run[k])
  BY <1>4, <1>9 DEF FoldRun
<1>12. run[0] = L /\ run[n] = iter[DOMAIN s]
  BY <1>1, <1>9 DEF FoldRun, init
<1>13. QED
  BY <1>2, <1>10, <1>11, <1>12 DEF n, Op

(* The destructor of a pin: its links go, at both ends, and no others.       *)
LEMMA CutLinks ==
  ASSUME NEW L, NEW P, Net(L, P), NEW p \in Pin
  PROVE  /\ Links(Cut(L, p))
         /\ \A r, t \in Pin : Linked(Cut(L, p), r, t) <=> Linked(L, r, t) /\ r # p /\ t # p
         /\ \A r \in Pin : Len(Cut(L, p)[r]) <= Len(L[r])
<1> DEFINE s == L[p]
           n == Len(s)
<1>1. Links(L) /\ n \in Nat /\ DOMAIN s = 1 .. n /\ \A k \in 1 .. n : s[k] \in Pin
  BY LinksShape DEF Net
<1>2. \A r \in Pin : Linked(L, r, p) <=> \E k \in 1 .. n : s[k] = r
  <2>1. \A r \in Pin : Linked(L, r, p) <=> Linked(L, p, r)
    BY DEF Net
  <2>2. QED
    BY <1>1, <2>1 DEF Linked
<1>3. PICK run \in [0 .. n -> [Pin -> Seq(Pin)]] :
           /\ run[0] = L
           /\ \A k \in 0 .. n : Links(run[k])
           /\ \A k \in 1 .. n : run[k] = BeDisconnected(run[k - 1], s[k], p)
           /\ Cut(L, p) = [run[n] EXCEPT ![p] = <<>>]
  BY <1>1, CutRun
<1>4. \A r \in Pin : Len(L[r]) \in Nat
  BY <1>1, LinksShape
<1>5. \A k \in 0 .. n : \A r \in Pin : Len(run[k][r]) \in Nat
  BY <1>3, LinksShape
<1> HIDE DEF s, n
<1> DEFINE Fewer(k) == \A r \in Pin : Len(run[k][r]) <= Len(L[r])
           Left(k) == \A r, t \in Pin : Linked(run[k], r, t)
                        <=> Linked(L, r, t) /\ ~ (t = p /\ \E j \in 1 .. k : s[j] = r)
           Q == {k \in 0 .. n : Fewer(k) /\ Left(k)}
<1>6. 0 \in Q
  <2>1. Fewer(0)
    BY <1>3, <1>4
  <2>2. 1 .. 0 = {} /\ 0 \in 0 .. n
    BY <1>1
  <2>3. Left(0)
    BY <1>3, <2>2
  <2>4. QED
    BY <2>1, <2>2, <2>3
<1>7. ASSUME NEW k \in 1 .. n, k - 1 \in Q
      PROVE  k \in Q
  <2>1. /\ k \in 0 .. n /\ k - 1 \in 0 .. n
        /\ k \in 1 .. k /\ \A j \in 1 .. k - 1 : j \in 1 .. k
        /\ \A j \in 1 .. k : j \in 1 .. k - 1 \/ j = k
    BY <1>1
  <2>2. Fewer(k - 1) /\ Left(k - 1)
    BY <1>7
  <2>3. s[k] \in Pin /\ Links(run[k - 1]) /\ run[k] = BeDisconnected(run[k - 1], s[k], p)
    BY <1>1, <1>3, <2>1
  <2>4. /\ \A r \in Pin : \A t : Linked(run[k], r, t)
             <=> Linked(run[k - 1], r, t) /\ ~ (r = s[k] /\ t = p)
        /\ \A r \in Pin : Len(run[k][r]) <= Len(run[k - 1][r])
    BY <2>3, ForgetsOne
  <2>5. Fewer(k)
    BY <1>4, <1>5, <2>1, <2>2, <2>4
  <2>6. Left(k)
    BY <2>1, <2>2, <2>4
  <2>7. QED
    BY <2>1, <2>5, <2>6
<1>8. n \in Q
  <2> HIDE DEF Q
  <2>1. \A k \in 0 .. n : k \in Q
    BY <1>1, <1>6, <1>7, UpTo
  <2>2. n \in 0 .. n
    BY <1>1
  <2>3. QED
    BY <2>1, <2>2
<1>9. Fewer(n) /\ Left(n) /\ n \in 0 .. n
  BY <1>8
<1> DEFINE M == run[n]
           C == [M EXCEPT ![p] = <<>>]
<1>10. /\ \A r, t \in Pin : Linked(M, r, t) <=> Linked(L, r, t) /\ t # p
       /\ \A r \in Pin : Len(M[r]) <= Len(L[r])
       /\ Links(M) /\ M \in [Pin -> Seq(Pin)]
  BY <1>2, <1>3, <1>9
<1> HIDE DEF Fewer, Left, Q, M
<1>11. /\ C \in [Pin -> Seq(Pin)] /\ C[p] = <<>>
       /\ \A r \in Pin : r # p => C[r] = M[r]
  BY <1>10, EmptySeq
<1>12. Cut(L, p) = C
  BY <1>3 DEF M
<1> HIDE DEF C
<1>13. IsInjective(C[p]) /\ Len(C[p]) = 0 /\ \A t : ~ In(C[p], t)
  BY <1>11, EmptySeq DEF IsInjective, In
<1>14. Links(C)
  <2>1. \A r \in Pin : IsInjective(C[r])
    BY <1>10, <1>11, <1>13 DEF Links
  <2>2. QED
    BY <1>11, <2>1 DEF Links
<1>15. \A r, t \in Pin : Linked(C, r, t) <=> Linked(L, r, t) /\ r # p /\ t # p
  BY <1>10, <1>11, <1>13, LinkedIn
<1>16. ASSUME NEW r \in Pin
       PROVE  Len(C[r]) <= Len(L[r])
  <2>1. CASE r = p
    BY <1>4, <1>13, <2>1
  <2>2. CASE r # p
    BY <1>10, <1>11, <2>2
  <2>3. QED
    BY <2>1, <2>2
<1>17. QED
  BY <1>12, <1>14, <1>15, <1>16

(* So the others are left with links of their own.                           *)
LEMMA CutNet ==
  ASSUME single \subseteq Pin, NEW L, NEW P, Net(L, P), NEW p \in Pin
  PROVE  Net(Cut(L, p), P \ {p})
<1> DEFINE C == Cut(L, p)
<1>1. /\ Links(C)
      /\ \A r, t \in Pin : Linked(C, r, t) <=> Linked(L, r, t) /\ r # p /\ t # p
      /\ \A r \in Pin : Len(C[r]) <= Len(L[r])
  BY CutLinks
<1> HIDE DEF C
<1>2. \A r \in Pin : Len(C[r]) \in Nat /\ Len(L[r]) \in Nat
  BY <1>1, LinksShape DEF Net
<1>3. \A r \in single : Len(C[r]) <= 1
  BY <1>1, <1>2 DEF Net
<1>4. \A r, t \in Pin : Linked(C, r, t) => r \in P \ {p} /\ Linked(C, t, r)
  BY <1>1 DEF Net
<1>5. \A r \in Pin : ~ Linked(C, r, r)
  BY <1>1 DEF Net
<1>6. QED
  BY <1>1, <1>3, <1>4, <1>5 DEF Net, C

(* The list of a finite set has all its elements.                            *)
LEMMA SetListed ==
  ASSUME NEW D, IsFiniteSet(D)
  PROVE  /\ SetToSeq(D) \in Seq(D) /\ IsInjective(SetToSeq(D))
         /\ \A x \in D : In(SetToSeq(D), x)
<1> DEFINE n == Cardinality(D)
           s == SetToSeq(D)
<1>1. n \in Nat
  BY FS_CardinalityType
<1>2. IsFiniteSet(1 .. n) /\ Cardinality(1 .. n) = n
  BY <1>1, FS_Interval
<1>3. s \in [1 .. n -> D] /\ IsInjective(s)
  <2>1. PICK f : f \in Bijection(1 .. n, D)
    BY <1>2, FS_SameCardinalityBij DEF ExistsBijection
  <2>2. f \in [1 .. n -> D] /\ IsInjective(f)
    BY <2>1 DEF Bijection, Injection, IsInjective
  <2>3. QED
    BY <2>2 DEF SetToSeq
<1> HIDE DEF s
<1>4. s \in Injection(1 .. n, D)
  BY <1>3 DEF Injection, IsInjective
<1>5. s \in Surjection(1 .. n, D)
  BY <1>2, <1>4, FS_Injection
<1>6. \A x \in D : \E k \in 1 .. n : s[k] = x
  BY <1>5 DEF Surjection
<1>7. s \in Seq(D)
  BY <1>1, <1>3
<1>8. QED
  BY <1>3, <1>6, <1>7 DEF In, s

(* The destructors run one after the other.                                  *)
LEMMA CutAllRun ==
  ASSUME single \subseteq Pin, NEW L, NEW P, Net(L, P),
         NEW D \in SUBSET Pin, SetToSeq(D) \in Seq(D)
  PROVE  \E run \in [0 .. Len(SetToSeq(D)) -> [Pin -> Seq(Pin)]] :
           /\ run[0] = L
           /\ \A k \in 0 .. Len(SetToSeq(D)) : Net(run[k], P)
           /\ \A k \in 1 .. Len(SetToSeq(D)) : run[k] = Cut(run[k - 1], SetToSeq(D)[k])
           /\ CutAll(L, D) = run[Len(SetToSeq(D))]
<1> DEFINE s == SetToSeq(D)
           n == Len(s)
           S == {M \in [Pin -> Seq(Pin)] : Net(M, P)}
           init == L
           Op(M, q) == Cut(M, q)
           step == [a \in (1 .. n) \X S |-> Op(a[2], s[a[1]])]
           Iter(f) == f = [T \in SUBSET DOMAIN s |->
                             IF T = {} THEN init ELSE Op(f[T \ {Max(T)}], s[Max(T)])]
           iter == CHOOSE f : Iter(f)
<1>1. n \in Nat /\ DOMAIN s = 1 .. n /\ \A k \in 1 .. n : s[k] \in Pin
  BY LenProperties, ElementOfSeq
<1>2. CutAll(L, D) = iter[DOMAIN s]
  BY DEF CutAll, FoldLeft, MapThenFoldSet
<1>3. init \in S /\ \A k \in 1 .. n, M \in S : Op(M, s[k]) \in S
  <2>1. init \in S
    BY DEF Net, Links
  <2>2. ASSUME NEW k \in 1 .. n, NEW M \in S
        PROVE  Op(M, s[k]) \in S
    <3>1. s[k] \in Pin /\ Net(M, P)
      BY <1>1
    <3> HIDE DEF s
    <3>2. Net(Cut(M, s[k]), P \ {s[k]})
      BY <3>1, CutNet
    <3>3. QED
      BY <3>2 DEF Net, Links
  <2>3. QED
    BY <2>1, <2>2
<1>4. \A M \in S : Net(M, P) /\ M \in [Pin -> Seq(Pin)]
  OBVIOUS
<1> HIDE DEF n, S, init, Op, s
<1>5. /\ step \in [(1 .. n) \X S -> S]
      /\ \A k \in 1 .. n, M \in S : step[<<k, M>>] = Op(M, s[k])
  BY <1>3
<1> HIDE DEF step
<1>6. PICK f : FoldTable(S, n, init, step, f)
  BY <1>1, <1>3, <1>5, FoldTableExists
<1>7. Iter(f)
  BY <1>1, <1>5, <1>6 DEF FoldTable
<1>8. Iter(iter)
  <2> HIDE DEF Iter
  <2>1. QED
    BY <1>7
<1> HIDE DEF iter
<1>9. PICK run : FoldRun(S, n, init, step, run, iter[1 .. n])
  <2>1. iter[{}] = init
    BY <1>8
  <2>2. \A T \in SUBSET (1 .. n) : T # {} /\ iter[T \ {Max(T)}] \in S =>
           iter[T] = step[<<Max(T), iter[T \ {Max(T)}]>>]
    BY <1>1, <1>5, <1>6, <1>8 DEF FoldTable
  <2>3. QED
    BY <1>1, <1>3, <1>5, <2>1, <2>2, FoldRuns
<1>10. \A k \in 1 .. n : run[k] = Op(run[k - 1], s[k])
  <2>1. \A k \in 1 .. n : k - 1 \in 0 .. n
    BY <1>1
  <2>2. QED
    BY <1>5, <1>9, <2>1 DEF FoldRun
<1>11. run \in [0 .. n -> [Pin -> Seq(Pin)]] /\ \A k \in 0 .. n : Net(run[k], P)
  BY <1>4, <1>9 DEF FoldRun
<1>12. run[0] = L /\ run[n] = iter[DOMAIN s]
  BY <1>1, <1>9 DEF FoldRun, init
<1>13. QED
  BY <1>2, <1>10, <1>11, <1>12 DEF n, Op, s

(* And when all have run, no link leads to a pin that is gone.               *)
LEMMA CutAllNet ==
  ASSUME single \subseteq Pin, NEW L, NEW P, Net(L, P),
         NEW D \in SUBSET Pin, IsFiniteSet(D)
  PROVE  Net(CutAll(L, D), P \ D)
<1> DEFINE s == SetToSeq(D)
           n == Len(s)
<1>1. s \in Seq(D) /\ \A x \in D : In(s, x)
  BY SetListed
<1>2. PICK run \in [0 .. n -> [Pin -> Seq(Pin)]] :
           /\ run[0] = L
           /\ \A k \in 0 .. n : Net(run[k], P)
           /\ \A k \in 1 .. n : run[k] = Cut(run[k - 1], s[k])
           /\ CutAll(L, D) = run[n]
  BY <1>1, CutAllRun
<1> HIDE DEF s
<1>3. n \in Nat /\ DOMAIN s = 1 .. n /\ \A k \in 1 .. n : s[k] \in Pin
  BY <1>1, LenProperties, ElementOfSeq
<1> HIDE DEF n
<1> DEFINE Q == {k \in 0 .. n : \A r, t \in Pin : Linked(run[k], r, t) =>
                                  \A j \in 1 .. k : r # s[j]}
<1>4. 0 \in Q
  <2>1. 1 .. 0 = {} /\ 0 \in 0 .. n
    BY <1>3
  <2>2. QED
    BY <2>1
<1>5. ASSUME NEW k \in 1 .. n, k - 1 \in Q
      PROVE  k \in Q
  <2>1. /\ k \in 0 .. n /\ k - 1 \in 0 .. n
        /\ \A j \in 1 .. k : j \in 1 .. k - 1 \/ j = k
    BY <1>3
  <2>2. Net(run[k - 1], P) /\ s[k] \in Pin /\ run[k] = Cut(run[k - 1], s[k])
    BY <1>2, <1>3, <2>1
  <2>3. \A r, t \in Pin : Linked(run[k], r, t) => Linked(run[k - 1], r, t) /\ r # s[k]
    BY <2>2, CutLinks
  <2>4. QED
    BY <1>5, <2>1, <2>3
<1>6. n \in Q
  <2> HIDE DEF Q
  <2>1. \A k \in 0 .. n : k \in Q
    BY <1>3, <1>4, <1>5, UpTo
  <2>2. n \in 0 .. n
    BY <1>3
  <2>3. QED
    BY <2>1, <2>2
<1> DEFINE C == run[n]
<1>7. Net(C, P) /\ n \in 0 .. n
  BY <1>2, <1>3
<1>8. \A r, t \in Pin : Linked(C, r, t) => r \notin D
  BY <1>1, <1>3, <1>6 DEF In
<1> HIDE DEF C
<1>9. Net(C, P \ D)
  BY <1>7, <1>8 DEF Net
<1>10. QED
  BY <1>2, <1>9 DEF C

-----------------------------------------------------------------------------
(* The invariant: the pins that exist, of nodes that exist, and their net.   *)

\* The nodes, and the names by which the context has them.
PlacesInv ==
  /\ place \in [Node -> {"dead", "own", "context"}]
  /\ name_of \in [Node -> Name]
  /\ \A m, n \in InContext : name_of[m] = name_of[n] => m = n
  /\ IsFiniteSet(InContext)

PinsInv ==
  /\ single \subseteq pins /\ pins \subseteq Pin /\ IsFiniteSet(pins)
  /\ Net(connected, pins)

NetInv ==
  /\ PlacesInv
  /\ PinsInv
  /\ \A p \in pins : Live(ParentOf(p))

(* Where the node of a pin is.                                               *)
LEMMA PinShape ==
  \A p \in Pin : ParentOf(p) \in Node /\ SideOf(p) \in {"out", "in"} /\ p[3] \in PinName
BY DEF Pin, ParentOf, SideOf

(* Pins cease to exist.                                                      *)
LEMMA DropPins ==
  ASSUME PinsInv, NEW D \in SUBSET pins, Drop(D)
  PROVE  PinsInv' /\ pins' = pins \ D
<1>1. /\ single \subseteq Pin /\ D \subseteq Pin /\ IsFiniteSet(D)
      /\ IsFiniteSet(pins \ D)
  BY FS_Subset DEF PinsInv
<1>2. pins' = pins \ D /\ single' = single \ D /\ connected' = CutAll(connected, D)
  BY DEF Drop
<1>3. Net(CutAll(connected, D), pins \ D)
  BY <1>1, CutAllNet DEF PinsInv
<1>4. Net(connected, pins)'
  BY <1>2, <1>3 DEF Net
<1>5. QED
  BY <1>1, <1>2, <1>4 DEF PinsInv

(* Links are made or broken.                                                 *)
LEMMA LinkPins ==
  ASSUME PinsInv, Net(connected', pins), UNCHANGED <<pins, single>>
  PROVE  PinsInv'
<1>1. Net(connected, pins)'
  BY DEF Net
<1>2. QED
  BY <1>1 DEF PinsInv

(* Pins come to exist, with no links.                                        *)
LEMMA MorePins ==
  ASSUME PinsInv, NEW D \in SUBSET Pin, IsFiniteSet(D), D \intersect pins = {},
         pins' = pins \union D, single \subseteq single', single' \subseteq single \union D,
         UNCHANGED connected
  PROVE  PinsInv'
<1>1. IsFiniteSet(pins')
  BY FS_Union DEF PinsInv
<1>2. \A p \in D : Len(connected[p]) = 0
  <2>1. \A p \in D : \A q : ~ Linked(connected, p, q)
    BY NetEnds DEF PinsInv
  <2>2. ASSUME NEW p \in D
        PROVE  Len(connected[p]) = 0
    <3>1. Len(connected[p]) \in Nat /\ DOMAIN connected[p] = 1 .. Len(connected[p])
      BY LinksShape DEF PinsInv, Net
    <3>2. \A k \in 1 .. Len(connected[p]) : FALSE
      BY <2>1, <3>1 DEF Linked
    <3>3. ~ (Len(connected[p]) >= 1)
      BY <3>1, <3>2
    <3>4. QED
      BY <3>1, <3>3
  <2>3. QED
    BY <2>2
<1>3. \A p \in D : Len(connected[p]) <= 1
  BY <1>2
<1>4. Net(connected, pins)'
  <2>1. Net(connected, pins)
    BY DEF PinsInv
  <2>2. \A p \in single' : Len(connected[p]) <= 1
    BY <1>3, <2>1 DEF Net
  <2>3. QED
    BY <2>1, <2>2 DEF Net
<1>5. QED
  BY <1>1, <1>4 DEF PinsInv

(* A node leaves: it dies.                                                   *)
LEMMA NodeDies ==
  ASSUME NetInv, NEW n \in Node, place' = [place EXCEPT ![n] = "dead"],
         Drop(PinsOf(n)), UNCHANGED name_of
  PROVE  NetInv'
<1>1. PinsOf(n) \subseteq pins
  BY DEF PinsOf
<1>2. PinsInv' /\ pins' = pins \ PinsOf(n)
  BY <1>1, DropPins DEF NetInv
<1>3. PlacesInv'
  <2>1. InContext' \subseteq InContext
    BY DEF NetInv, PlacesInv, InContext
  <2>2. IsFiniteSet(InContext')
    BY <2>1, FS_Subset DEF NetInv, PlacesInv
  <2>3. QED
    BY <2>1, <2>2 DEF NetInv, PlacesInv
<1>4. \A p \in pins' : Live(ParentOf(p))'
  BY <1>2, PinShape DEF NetInv, PlacesInv, PinsInv, PinsOf, Live
<1>5. QED
  BY <1>2, <1>3, <1>4 DEF NetInv

(* A node takes its place in the context, under a name that is free.         *)
LEMMA NodeEnters ==
  ASSUME PlacesInv, NEW n \in Node, NEW name \in Name,
         place[n] # "context", ~ Taken(name),
         place' = [place EXCEPT ![n] = "context"], name_of' = [name_of EXCEPT ![n] = name]
  PROVE  PlacesInv' /\ \A m \in Node : Live(m) => Live(m)'
<1>1. InContext' = InContext \union {n} /\ n \notin InContext
  BY DEF PlacesInv, InContext
<1>2. \A m \in InContext : name_of'[m] = name_of[m] /\ name_of[m] # name
  BY <1>1 DEF PlacesInv, InContext, Taken
<1>3. name_of'[n] = name
  BY DEF PlacesInv
<1>4. \A m, k \in InContext' : name_of'[m] = name_of'[k] => m = k
  BY <1>1, <1>2, <1>3 DEF PlacesInv
<1>5. \A m \in Node : Live(m) => Live(m)'
  BY DEF Live, PlacesInv
<1>6. IsFiniteSet(InContext')
  BY <1>1, FS_AddElement DEF PlacesInv
<1>7. QED
  BY <1>4, <1>5, <1>6 DEF PlacesInv

(* The clone of a node has as many pins as the node, and no links.           *)
LEMMA CloneNet ==
  ASSUME NetInv, NEW m \in Node, NEW n \in Node, NEW name \in Name,
         AddNodeWithClone(m, n, name)
  PROVE  NetInv'
<1> DEFINE copy(p) == <<n, SideOf(p), p[3]>>
           D == {copy(p) : p \in PinsOf(m)}
           E == {copy(p) : p \in PinsOf(m) \intersect single}
<1>1. /\ pins' = pins \union D /\ single' = single \union E
      /\ place' = [place EXCEPT ![n] = "context"]
      /\ name_of' = [name_of EXCEPT ![n] = name]
      /\ ~ Live(n) /\ ~ Taken(name) /\ UNCHANGED connected
  BY DEF AddNodeWithClone
<1>2. PinsOf(m) \subseteq pins /\ IsFiniteSet(PinsOf(m)) /\ PinsOf(m) \subseteq Pin
  BY FS_Subset DEF PinsOf, NetInv, PinsInv
<1>3. \A p \in PinsOf(m) : copy(p) \in Pin /\ ParentOf(copy(p)) = n
  BY <1>2, PinShape DEF Pin, ParentOf
<1>4. D \subseteq Pin /\ E \subseteq D /\ \A q \in D : ParentOf(q) = n
  BY <1>3
<1>5. IsFiniteSet(D)
  <2> DEFINE f == [p \in PinsOf(m) |-> copy(p)]
  <2>1. f \in Surjection(PinsOf(m), D)
    BY DEF Surjection
  <2> HIDE DEF f, D
  <2>2. QED
    BY <1>2, <2>1, FS_Surjection
<1>6. D \intersect pins = {}
  BY <1>1, <1>4 DEF NetInv
<1> HIDE DEF D, E
<1>7. PinsInv'
  <2>1. single \subseteq single' /\ single' \subseteq single \union D
    BY <1>1, <1>4
  <2>2. QED
    BY <1>1, <1>4, <1>5, <1>6, <2>1, MorePins DEF NetInv
<1>8. PlacesInv' /\ \A k \in Node : Live(k) => Live(k)'
  BY <1>1, NodeEnters DEF NetInv, Live
<1>9. Live(n)'
  BY <1>1 DEF Live, NetInv, PlacesInv
<1>10. \A p \in pins' : Live(ParentOf(p))'
  BY <1>1, <1>4, <1>8, <1>9, PinShape DEF NetInv, PinsInv
<1>11. QED
  BY <1>7, <1>8, <1>10 DEF NetInv

(* A node is made by the program, or added.                                  *)
LEMMA NodeNet ==
  ASSUME NetInv, NEW n \in Node, NEW name \in Name,
         MakeNode(n, name) \/ AddNode(n, name) \/ AddNodeWithMove(n, name)
  PROVE  NetInv'
<1>1. CASE MakeNode(n, name)
  <2>1. PinsInv'
    BY <1>1, LinkPins DEF MakeNode, NetInv, PinsInv
  <2>2. PlacesInv'
    <3>1. /\ ~ Live(n) /\ place' = [place EXCEPT ![n] = "own"]
          /\ name_of' = [name_of EXCEPT ![n] = name]
      BY <1>1 DEF MakeNode
    <3>2. InContext' = InContext /\ n \notin InContext
      BY <3>1 DEF InContext, Live, NetInv, PlacesInv
    <3>3. \A m \in InContext : name_of'[m] = name_of[m]
      BY <3>1, <3>2 DEF InContext, NetInv, PlacesInv
    <3>4. QED
      BY <3>1, <3>2, <3>3 DEF NetInv, PlacesInv
  <2>3. \A p \in pins' : Live(ParentOf(p))'
    BY <1>1, PinShape DEF MakeNode, NetInv, PlacesInv, PinsInv, Live
  <2>4. QED
    BY <2>1, <2>2, <2>3 DEF NetInv
<1>2. CASE AddNode(n, name)
  <2>1. PinsInv'
    BY <1>2, LinkPins DEF AddNode, NetInv, PinsInv
  <2>2. PlacesInv' /\ \A m \in Node : Live(m) => Live(m)'
    BY <1>2, NodeEnters DEF AddNode, NetInv, Live
  <2>3. \A p \in pins' : Live(ParentOf(p))'
    BY <1>2, <2>2, PinShape DEF AddNode, NetInv, PinsInv
  <2>4. QED
    BY <2>1, <2>2, <2>3 DEF NetInv
<1>3. CASE AddNodeWithMove(n, name)
  <2>1. CASE Taken(name)
    BY <1>3, <2>1, NodeDies DEF AddNodeWithMove
  <2>2. CASE ~ Taken(name)
    <3>1. /\ place[n] # "context" /\ UNCHANGED <<pins, single, connected>>
          /\ place' = [place EXCEPT ![n] = "context"]
          /\ name_of' = [name_of EXCEPT ![n] = name]
      BY <1>3, <2>2 DEF AddNodeWithMove
    <3>2. PinsInv'
      BY <3>1, LinkPins DEF NetInv, PinsInv
    <3>3. PlacesInv' /\ \A m \in Node : Live(m) => Live(m)'
      BY <2>2, <3>1, NodeEnters DEF NetInv
    <3>4. \A p \in pins' : Live(ParentOf(p))'
      BY <3>1, <3>3, PinShape DEF NetInv, PinsInv
    <3>5. QED
      BY <3>2, <3>3, <3>4 DEF NetInv
  <2>3. QED
    BY <2>1, <2>2
<1>4. QED
  BY <1>1, <1>2, <1>3

(* A pin is added or removed.                                                *)
LEMMA PinNet ==
  ASSUME NetInv,
         \/ \E p \in Pin, isSingle \in BOOLEAN : AddPin(p, isSingle)
         \/ \E p \in Pin : RemovePin(p)
         \/ \E n \in Node, side \in {"out", "in"} : ClearPins(n, side)
  PROVE  NetInv'
<1>1. UNCHANGED <<place, name_of>>
  BY DEF AddPin, RemovePin, ClearPins
<1>2. PlacesInv' /\ \A n \in Node : Live(n)' = Live(n)
  BY <1>1 DEF NetInv, PlacesInv, InContext, Live
<1>3. ASSUME NEW p \in Pin, NEW isSingle \in BOOLEAN, AddPin(p, isSingle)
      PROVE  PinsInv' /\ \A q \in pins' : Live(ParentOf(q))
  <2>1. /\ Live(ParentOf(p)) /\ p \notin pins /\ pins' = pins \union {p}
        /\ single \subseteq single' /\ single' \subseteq single \union {p}
        /\ UNCHANGED connected
    BY <1>3 DEF AddPin
  <2>2. IsFiniteSet({p}) /\ {p} \in SUBSET Pin /\ {p} \intersect pins = {}
    BY <2>1, FS_Singleton
  <2>3. PinsInv'
    BY <2>1, <2>2, MorePins DEF NetInv
  <2>4. QED
    BY <2>1, <2>3 DEF NetInv
<1>4. ASSUME NEW D \in SUBSET pins, Drop(D)
      PROVE  PinsInv' /\ \A q \in pins' : Live(ParentOf(q))
  <2>1. PinsInv' /\ pins' = pins \ D
    BY <1>4, DropPins DEF NetInv
  <2>2. QED
    BY <2>1 DEF NetInv
<1>5. ASSUME NEW p \in Pin, RemovePin(p)
      PROVE  PinsInv' /\ \A q \in pins' : Live(ParentOf(q))
  BY <1>4, <1>5 DEF RemovePin
<1>6. ASSUME NEW n \in Node, NEW side \in {"out", "in"}, ClearPins(n, side)
      PROVE  PinsInv' /\ \A q \in pins' : Live(ParentOf(q))
  BY <1>4, <1>6 DEF ClearPins, PinsOf
<1>7. PinsInv' /\ \A q \in pins' : Live(ParentOf(q))
  BY <1>3, <1>5, <1>6
<1>8. \A q \in pins' : Live(ParentOf(q))'
  BY <1>2, <1>7, PinShape DEF PinsInv
<1>9. QED
  BY <1>2, <1>7, <1>8 DEF NetInv

(* A link is made or broken.                                                 *)
LEMMA LinkNet ==
  ASSUME NetInv,
         \/ \E p, q \in Pin, allow_replace \in BOOLEAN : Connect(p, q, allow_replace)
         \/ \E p, q \in Pin : AddEdge(p, q) \/ RemoveEdge(p, q)
         \/ \E p \in Pin : DisconnectAll(p)
         \/ \E p \in Pin : \E k \in DOMAIN connected[p] : DisconnectAt(p, k)
  PROVE  NetInv'
<1>1. /\ UNCHANGED <<place, name_of, pins, single>>
      /\ single \subseteq Pin /\ pins \subseteq Pin /\ Net(connected, pins)
  BY DEF NetInv, PinsInv, AddEdge, Connect, RemoveEdge, DisconnectAll, DisconnectAt
<1>2. ASSUME NEW p \in Pin, NEW q \in Pin, NEW allow_replace, Connect(p, q, allow_replace)
      PROVE  Net(connected', pins)
  BY <1>1, <1>2, ConnectedNet DEF Connect
<1>3. ASSUME NEW p \in Pin, NEW q \in Pin, RemoveEdge(p, q)
      PROVE  Net(connected', pins)
  BY <1>1, <1>3, DisconnectedNet DEF RemoveEdge
<1>4. ASSUME NEW p \in Pin, DisconnectAll(p)
      PROVE  Net(connected', pins)
  <2>1. Net(Cut(connected, p), pins \ {p})
    BY <1>1, CutNet
  <2>2. QED
    BY <1>4, <2>1 DEF DisconnectAll, Net
<1>5. ASSUME NEW p \in Pin, NEW k \in DOMAIN connected[p], DisconnectAt(p, k)
      PROVE  Net(connected', pins)
  <2> DEFINE q == connected[p][k]
             M == BeDisconnected(connected, q, p)
             D == [M EXCEPT ![p] = RemoveAt(M[p], k)]
  <2>1. connected' = D
    BY <1>5 DEF DisconnectAt
  <2>2. Links(connected) /\ Linked(connected, p, q) /\ q \in Pin /\ p # q
    BY <1>1, LinksShape DEF Net, Linked
  <2>3. /\ Links(M) /\ M[p] = connected[p]
        /\ \A r \in Pin : \A t : Linked(M, r, t)
             <=> Linked(connected, r, t) /\ ~ (r = q /\ t = p)
        /\ \A r \in Pin : Len(M[r]) <= Len(connected[r])
    <3> HIDE DEF q
    <3>1. QED
      BY <2>2, ForgetsOne
  <2>4. M[p][k] = q /\ k \in DOMAIN M[p]
    BY <2>3
  <2> HIDE DEF M, q
  <2> DEFINE s == RemoveAt(M[p], k)
  <2>5. /\ s \in Seq(Pin) /\ Len(s) = Len(M[p]) - 1 /\ IsInjective(s)
        /\ \A x : In(s, x) <=> In(M[p], x) /\ x # q
    <3>1. M[p] \in Seq(Pin) /\ IsInjective(M[p])
      BY <2>3 DEF Links
    <3>2. QED
      BY <2>4, <3>1, RemovedPlace
  <2>6. D = [M EXCEPT ![p] = s]
    OBVIOUS
  <2> HIDE DEF s
  <2>7. D \in [Pin -> Seq(Pin)] /\ D[p] = s /\ \A r \in Pin : r # p => D[r] = M[r]
    BY <2>3, <2>5, <2>6 DEF Links
  <2> HIDE DEF D
  <2>8. Links(D)
    BY <2>3, <2>5, <2>7 DEF Links
  <2>9. \A r \in Pin : \A t : Linked(D, r, t)
          <=> Linked(connected, r, t) /\ ~ (r = q /\ t = p) /\ ~ (r = p /\ t = q)
    BY <2>2, <2>3, <2>5, <2>7, LinkedIn
  <2>10. \A r \in Pin : Len(M[r]) \in Nat /\ Len(connected[r]) \in Nat
    BY <2>2, <2>3, LinksShape
  <2>11. ASSUME NEW r \in single
         PROVE  Len(D[r]) <= 1
    <3>1. r \in Pin /\ Len(connected[r]) <= 1
      BY <1>1 DEF Net
    <3>2. CASE r = p
      <4>1. Len(D[p]) <= Len(M[p]) /\ Len(D[p]) \in Int
        BY <2>5, <2>7, <2>10
      <4>2. Len(D[p]) <= 1
        BY <2>3, <3>1, <3>2, <4>1
      <4>3. QED
        BY <3>2, <4>2
    <3>3. CASE r # p
      <4>1. D[r] = M[r] /\ Len(M[r]) <= Len(connected[r])
        BY <2>3, <2>7, <3>1, <3>3
      <4>2. QED
        BY <2>10, <3>1, <4>1
    <3>4. QED
      BY <3>2, <3>3
  <2>12. \A r, t \in Pin : Linked(D, r, t) => r \in pins /\ Linked(D, t, r)
    BY <1>1, <2>9 DEF Net
  <2>13. \A r \in Pin : ~ Linked(D, r, r)
    BY <1>1, <2>9 DEF Net
  <2>14. QED
    BY <2>1, <2>8, <2>11, <2>12, <2>13 DEF Net
<1>6. Net(connected', pins)
  BY <1>2, <1>3, <1>4, <1>5 DEF AddEdge
<1>7. PinsInv'
  BY <1>1, <1>6, LinkPins DEF NetInv
<1>8. PlacesInv' /\ \A p \in pins' : Live(ParentOf(p))'
  BY <1>1 DEF NetInv, PlacesInv, InContext, Live
<1>9. QED
  BY <1>7, <1>8 DEF NetInv

(* At the start there are no pins.                                           *)
LEMMA NetInit ==
  ASSUME NodeInit
  PROVE  NetInv
<1>1. /\ connected = [p \in Pin |-> <<>>] /\ pins = {} /\ single = {}
      /\ place = [n \in Node |-> "dead"] /\ name_of \in [Node -> Name]
  BY DEF NodeInit
<1>2. <<>> \in Seq(Pin) /\ IsInjective(<<>>) /\ DOMAIN <<>> = {}
  BY EmptySeq DEF IsInjective
<1>3. connected \in [Pin -> Seq(Pin)] /\ \A p \in Pin : connected[p] = <<>>
  BY <1>1, <1>2
<1>4. Links(connected) /\ \A p \in Pin : \A q : ~ Linked(connected, p, q)
  BY <1>2, <1>3 DEF Links, Linked
<1>5. PinsInv
  BY <1>1, <1>4, FS_EmptySet DEF PinsInv, Net
<1>6. PlacesInv
  <2>1. InContext = {}
    BY <1>1 DEF InContext
  <2>2. QED
    BY <1>1, <2>1, FS_EmptySet DEF PlacesInv
<1>7. QED
  BY <1>1, <1>5, <1>6 DEF NetInv

(* Every call keeps the net whole.                                           *)
LEMMA NetStep ==
  ASSUME NetInv, [NodeNext]_nodeVars
  PROVE  NetInv'
<1>1. ASSUME NEW n \in Node, RemoveNode(n)
      PROVE  NetInv'
  BY <1>1, NodeDies DEF RemoveNode
<1>2. CASE UNCHANGED nodeVars
  <2>1. PinsInv'
    BY <1>2, LinkPins DEF nodeVars, NetInv, PinsInv
  <2>2. PlacesInv' /\ \A p \in pins' : Live(ParentOf(p))'
    BY <1>2 DEF nodeVars, NetInv, PlacesInv, InContext, Live
  <2>3. QED
    BY <2>1, <2>2 DEF NetInv
<1>3. QED
  BY <1>1, <1>2, NodeNet, CloneNet, PinNet, LinkNet DEF NodeNext

(* So it always is.                                                          *)
LEMMA NetInvariant == NodeSpec => []NetInv
<1>1. NodeInit => NetInv
  BY NetInit
<1>2. NetInv /\ [NodeNext]_nodeVars => NetInv'
  BY NetStep
<1>3. QED
  BY <1>1, <1>2, PTL DEF NodeSpec

\* Both ends know of a link and no pin points to one that is gone, for any
\* nodes and pins and whatever is connected, replaced, cloned, moved and
\* destroyed in whatever order.
THEOREM LinksSymmetricCorrect == NodeSpec => []LinksSymmetric
<1>1. NetInv => LinksSymmetric
  <2> SUFFICES ASSUME NetInv
               PROVE  LinksSymmetric
    OBVIOUS
  <2>1. NodeTypeOK
    BY DEF NodeTypeOK, NetInv, PlacesInv, PinsInv, Net, Links
  <2>2. \A p, q \in Pin :
          Linked(connected, p, q) => p \in pins /\ Linked(connected, q, p)
    BY DEF NetInv, PinsInv, Net
  <2>3. QED
    BY <2>1, <2>2 DEF LinksSymmetric, NetInv
<1>2. QED
  BY <1>1, NetInvariant, PTL

\* No two pins are linked twice, none to itself, and a single pin has at most
\* one link, whichever end a connection or a replacement came from.
THEOREM LinkedOnceCorrect == NodeSpec => []LinkedOnce
<1>1. NetInv => LinkedOnce
  BY DEF LinkedOnce, NetInv, PinsInv, Net, Links
<1>2. QED
  BY <1>1, NetInvariant, PTL

\* A connection disturbs nobody else, for any pins: a pin that is connected to
\* keeps its links unless it is single, and every other pin keeps its links in
\* their order, except those to the single pins that were connected.
THEOREM ConnectIsLocalCorrect == NodeSpec => ConnectIsLocal
<1> DEFINE Local(p, q, r) ==
             IF r \in {p, q}
             THEN r \in single \/ IsPrefix(connected[r], connected'[r])
             ELSE /\ ToSet(connected'[r]) \in
                       {ToSet(connected[r]),
                        ToSet(connected[r]) \ ({p, q} \intersect single)}
                  /\ InOrderOf(connected[r], connected'[r])
           A == \A p, q \in pins, allow_replace \in BOOLEAN :
                  Connect(p, q, allow_replace) => \A r \in pins : Local(p, q, r)
<1>1. NetInv /\ [NodeNext]_nodeVars => [A]_nodeVars
  <2> SUFFICES ASSUME NetInv, NEW p \in pins, NEW q \in pins,
                      NEW allow_replace \in BOOLEAN, Connect(p, q, allow_replace),
                      NEW r \in pins
               PROVE  Local(p, q, r)
    OBVIOUS
  <2> DEFINE C == Connected(connected, p, q, allow_replace)
  <2> HIDE DEF Local, A
  <2>1. /\ single \subseteq Pin /\ pins \in SUBSET Pin /\ Net(connected, pins)
        /\ connected' = C
    BY DEF NetInv, PinsInv, Connect
  <2>2. r \in Pin /\ connected[r] \in Seq(Pin)
    BY <2>1, LinksShape DEF Net
  <2>3. CASE Refused(connected, p, q, allow_replace)
    <3>1. connected' = connected
      BY <2>1, <2>3 DEF Connected
    <3>2. IsPrefix(connected[r], connected[r]) /\ InOrderOf(connected[r], connected[r])
      BY <2>2, AppendPrefix, InOrderReflexive
    <3>3. QED
      BY <3>1, <3>2 DEF Local
  <2>4. CASE ~ Refused(connected, p, q, allow_replace)
    <3>1. /\ Net(C, pins)
          /\ \A s, t \in Pin : Linked(C, s, t)
               <=> \/ /\ Linked(connected, s, t)
                      /\ ~ (p \in single /\ (s = p \/ t = p))
                      /\ ~ (q \in single /\ (s = q \/ t = q))
                   \/ s = p /\ t = q
                   \/ s = q /\ t = p
          /\ \A s \in Pin \ {p, q} : InOrderOf(connected[s], C[s])
          /\ p \notin single => IsPrefix(connected[p], C[p])
          /\ q \notin single => IsPrefix(connected[q], C[q])
      BY <2>1, <2>4, ConnectedLinks
    <3> HIDE DEF C
    <3>2. CASE r \in {p, q}
      BY <2>1, <3>1, <3>2 DEF Local
    <3>3. CASE r \notin {p, q}
      <4>1. ToSet(connected[r]) = {t \in Pin : Linked(connected, r, t)}
        BY <2>1, <2>2, LinksShape DEF Net, ToSet, Linked
      <4>2. ToSet(C[r]) = {t \in Pin : Linked(C, r, t)}
        BY <2>2, <3>1, LinksShape DEF Net, ToSet, Linked
      <4>3. ToSet(C[r]) = ToSet(connected[r]) \ ({p, q} \intersect single)
        BY <2>2, <3>1, <3>3, <4>1, <4>2
      <4>4. InOrderOf(connected[r], C[r])
        BY <2>2, <3>1, <3>3
      <4>5. QED
        BY <2>1, <3>3, <4>3, <4>4 DEF Local
    <3>4. QED
      BY <3>2, <3>3
  <2>5. QED
    BY <2>3, <2>4
<1>2. QED
  BY <1>1, NetInvariant, PTL DEF NodeSpec, ConnectIsLocal

-----------------------------------------------------------------------------
(* clone.                                                                    *)

\* The k-th link of p, as a clone adds it.
LinkAt(p, k) == <<connected[p][k], p>>

\* s is a list of the links of the pins P: every link once, and those of one pin
\* in the order they have there.
Lists(s, P) ==
  /\ s \in Seq(Pin \X Pin)
  /\ \A i \in DOMAIN s : \E p \in P : \E k \in DOMAIN connected[p] : s[i] = LinkAt(p, k)
  /\ \A p \in P : \A k \in DOMAIN connected[p] : \E i \in DOMAIN s : s[i] = LinkAt(p, k)
  /\ \A p \in P : \A k, l \in DOMAIN connected[p] : \A i, j \in DOMAIN s :
       i < j /\ s[i] = LinkAt(p, k) /\ s[j] = LinkAt(p, l) => k < l

(* No pins have no links.                                                    *)
LEMMA ListsNone == Lists(<<>>, {})
BY EmptySeq DEF Lists

(* The links of one pin.                                                     *)
LEMMA ListsOne ==
  ASSUME Links(connected), NEW p \in Pin
  PROVE  Lists([k \in DOMAIN connected[p] |-> <<connected[p][k], p>>], {p})
<1> DEFINE n == Len(connected[p])
           s == [k \in DOMAIN connected[p] |-> <<connected[p][k], p>>]
<1>1. /\ n \in Nat /\ DOMAIN connected[p] = 1 .. n
      /\ \A k \in 1 .. n : connected[p][k] \in Pin
  BY LinksShape
<1>2. \A k, l \in 1 .. n : connected[p][k] = connected[p][l] => k = l
  BY <1>1 DEF Links, IsInjective
<1>3. s \in Seq(Pin \X Pin) /\ DOMAIN s = 1 .. n
  BY <1>1
<1>4. \A k \in 1 .. n : s[k] = LinkAt(p, k)
  BY <1>1 DEF LinkAt
<1> HIDE DEF s, n
<1>5. \A k, l \in 1 .. n : LinkAt(p, k) = LinkAt(p, l) => k = l
  BY <1>2 DEF LinkAt
<1>6. Lists(s, {p})
  BY <1>1, <1>3, <1>4, <1>5 DEF Lists
<1>7. QED
  BY <1>6 DEF s

(* The links of some pins and then those of others.                          *)
LEMMA ListsBoth ==
  ASSUME NEW P, NEW Q, P \intersect Q = {}, NEW s, NEW t, Lists(s, P), Lists(t, Q)
  PROVE  Lists(s \o t, P \union Q)
<1> DEFINE m == Len(s)
           n == Len(t)
           u == s \o t
           X == Pin \X Pin
<1>1. s \in Seq(X) /\ t \in Seq(X)
  BY DEF Lists
<1> HIDE DEF X
<1>2. /\ m \in Nat /\ n \in Nat /\ DOMAIN s = 1 .. m /\ DOMAIN t = 1 .. n
      /\ u \in Seq(X) /\ Len(u) = m + n
      /\ \A i \in 1 .. m + n : u[i] = IF i <= m THEN s[i] ELSE t[i - m]
  BY <1>1, LenProperties, ConcatProperties
<1>3. DOMAIN u = 1 .. m + n
  BY <1>2, LenProperties
<1> HIDE DEF m, n, u
<1>4. \A i \in 1 .. m : i \in 1 .. m + n /\ u[i] = s[i]
  BY <1>2
<1>5. \A i \in 1 .. n : m + i \in 1 .. m + n /\ u[m + i] = t[i]
  <2> TAKE i \in 1 .. n
  <2>1. m + i \in 1 .. m + n /\ ~ (m + i <= m) /\ (m + i) - m = i
    BY <1>2
  <2>2. QED
    BY <1>2, <2>1
<1>6. \A i \in 1 .. m + n :
        \/ i \in 1 .. m
        \/ i > m /\ i - m \in 1 .. n /\ u[i] = t[i - m]
  BY <1>2
<1>7. ASSUME NEW i \in 1 .. m + n
      PROVE  \E p \in P \union Q : \E k \in DOMAIN connected[p] : u[i] = LinkAt(p, k)
  <2>1. CASE i \in 1 .. m
    <3>1. PICK p \in P : \E k \in DOMAIN connected[p] : s[i] = LinkAt(p, k)
      BY <1>2, <2>1 DEF Lists
    <3>2. p \in P \union Q /\ u[i] = s[i]
      BY <1>4, <2>1
    <3>3. QED
      BY <3>1, <3>2
  <2>2. CASE i > m /\ i - m \in 1 .. n /\ u[i] = t[i - m]
    <3>1. PICK p \in Q : \E k \in DOMAIN connected[p] : t[i - m] = LinkAt(p, k)
      BY <1>2, <2>2 DEF Lists
    <3>2. p \in P \union Q
      OBVIOUS
    <3>3. QED
      BY <2>2, <3>1, <3>2
  <2>3. QED
    BY <1>6, <2>1, <2>2
<1>8. ASSUME NEW p \in P \union Q, NEW k \in DOMAIN connected[p]
      PROVE  \E i \in 1 .. m + n : u[i] = LinkAt(p, k)
  <2>1. CASE p \in P
    <3>1. PICK i \in 1 .. m : s[i] = LinkAt(p, k)
      BY <1>2, <2>1 DEF Lists
    <3>2. QED
      BY <1>4, <3>1
  <2>2. CASE p \in Q
    <3>1. PICK i \in 1 .. n : t[i] = LinkAt(p, k)
      BY <1>2, <2>2 DEF Lists
    <3>2. QED
      BY <1>5, <3>1
  <2>3. QED
    BY <2>1, <2>2
<1>9. ASSUME NEW i \in 1 .. m, NEW p, NEW k, s[i] = LinkAt(p, k)
      PROVE  p \in P
  <2>1. PICK q \in P : \E l \in DOMAIN connected[q] : s[i] = LinkAt(q, l)
    BY <1>2 DEF Lists
  <2>2. p = q
    BY <1>9, <2>1 DEF LinkAt
  <2>3. QED
    BY <2>2
<1>10. ASSUME NEW i \in 1 .. n, NEW p, NEW k, t[i] = LinkAt(p, k)
       PROVE  p \in Q
  <2>1. PICK q \in Q : \E l \in DOMAIN connected[q] : t[i] = LinkAt(q, l)
    BY <1>2 DEF Lists
  <2>2. p = q
    BY <1>10, <2>1 DEF LinkAt
  <2>3. QED
    BY <2>2
<1>11. ASSUME NEW p \in P \union Q, NEW k \in DOMAIN connected[p], NEW l \in DOMAIN connected[p],
              NEW i \in 1 .. m + n, NEW j \in 1 .. m + n,
              i < j, u[i] = LinkAt(p, k), u[j] = LinkAt(p, l)
       PROVE  k < l
  <2>1. CASE i \in 1 .. m /\ j \in 1 .. m
    <3>1. s[i] = LinkAt(p, k) /\ s[j] = LinkAt(p, l)
      BY <1>4, <1>11, <2>1
    <3>2. p \in P
      BY <1>9, <2>1, <3>1
    <3>3. QED
      BY <1>2, <1>11, <2>1, <3>1, <3>2 DEF Lists
  <2>2. CASE i \in 1 .. m /\ j - m \in 1 .. n /\ u[j] = t[j - m]
    <3>1. p \in P
      BY <1>4, <1>9, <1>11, <2>2
    <3>2. p \in Q
      BY <1>10, <1>11, <2>2
    <3>3. QED
      BY <3>1, <3>2
  <2>3. CASE /\ i - m \in 1 .. n /\ u[i] = t[i - m]
             /\ j - m \in 1 .. n /\ u[j] = t[j - m]
    <3>1. i - m < j - m /\ t[i - m] = LinkAt(p, k) /\ t[j - m] = LinkAt(p, l)
      BY <1>2, <1>11, <2>3
    <3>2. p \in Q
      BY <1>10, <2>3, <3>1
    <3>3. QED
      BY <1>2, <2>3, <3>1, <3>2 DEF Lists
  <2>4. CASE i > m /\ j \in 1 .. m
    BY <1>2, <1>11, <2>4
  <2>5. QED
    BY <1>6, <2>1, <2>2, <2>3, <2>4
<1>12. u \in Seq(Pin \X Pin)
  BY <1>2 DEF X
<1>13. Lists(u, P \union Q)
  <2>1. \A p \in P \union Q : \A k, l \in DOMAIN connected[p] : \A i, j \in DOMAIN u :
          i < j /\ u[i] = LinkAt(p, k) /\ u[j] = LinkAt(p, l) => k < l
    BY <1>3, <1>11
  <2> HIDE DEF u
  <2>2. \A i \in DOMAIN u : \E p \in P \union Q :
          \E k \in DOMAIN connected[p] : u[i] = LinkAt(p, k)
    BY <1>3, <1>7
  <2>3. \A p \in P \union Q : \A k \in DOMAIN connected[p] :
          \E i \in DOMAIN u : u[i] = LinkAt(p, k)
    BY <1>3, <1>8
  <2>4. QED
    BY <1>12, <2>1, <2>2, <2>3 DEF Lists
<1>14. QED
  BY <1>13 DEF u

\* The input pins of a node.
Inputs(n) == {p \in PinsOf(n) : SideOf(p) = "in"}

(* The input pins of a node are gone through one after the other.            *)
LEMMA InputLinksRun ==
  ASSUME Links(connected), NEW n, SetToSeq(Inputs(n)) \in Seq(Inputs(n)),
         Inputs(n) \subseteq Pin
  PROVE  LET s == SetToSeq(Inputs(n))
         IN  \E run \in [0 .. Len(s) -> Seq(Pin \X Pin)] :
               /\ run[0] = <<>>
               /\ \A k \in 1 .. Len(s) :
                    run[k] = run[k - 1] \o
                               [l \in DOMAIN connected[s[k]] |-> <<connected[s[k]][l], s[k]>>]
               /\ InputLinks(n) = run[Len(s)]
<1> DEFINE s == SetToSeq(Inputs(n))
           N == Len(s)
           S == Seq(Pin \X Pin)
           init == <<>>
           Op(M, p) == M \o [l \in DOMAIN connected[p] |-> <<connected[p][l], p>>]
           step == [a \in (1 .. N) \X S |-> Op(a[2], s[a[1]])]
           Iter(f) == f = [T \in SUBSET DOMAIN s |->
                             IF T = {} THEN init ELSE Op(f[T \ {Max(T)}], s[Max(T)])]
           iter == CHOOSE f : Iter(f)
<1>1. N \in Nat /\ DOMAIN s = 1 .. N /\ \A k \in 1 .. N : s[k] \in Pin
  BY LenProperties, ElementOfSeq
<1>2. InputLinks(n) = iter[DOMAIN s]
  BY DEF InputLinks, FoldLeft, MapThenFoldSet, Inputs
<1>3. init \in S /\ \A k \in 1 .. N, M \in S : Op(M, s[k]) \in S
  <2>1. init \in S
    OBVIOUS
  <2>2. ASSUME NEW k \in 1 .. N, NEW M \in S
        PROVE  Op(M, s[k]) \in S
    <3> DEFINE b == [l \in DOMAIN connected[s[k]] |-> <<connected[s[k]][l], s[k]>>]
    <3>1. s[k] \in Pin
      BY <1>1
    <3> HIDE DEF s
    <3>2. b \in S
      BY <3>1, ListsOne DEF Lists
    <3> HIDE DEF b, S
    <3>3. M \o b \in S
      BY <2>2, <3>2, ConcatProperties DEF S
    <3>4. QED
      BY <3>3 DEF b
  <2>3. QED
    BY <2>1, <2>2
<1> HIDE DEF N, S, init, Op, s
<1>5. /\ step \in [(1 .. N) \X S -> S]
      /\ \A k \in 1 .. N, M \in S : step[<<k, M>>] = Op(M, s[k])
  BY <1>3
<1> HIDE DEF step
<1>6. PICK f : FoldTable(S, N, init, step, f)
  BY <1>1, <1>3, <1>5, FoldTableExists
<1>7. Iter(f)
  BY <1>1, <1>5, <1>6 DEF FoldTable
<1>8. Iter(iter)
  <2> HIDE DEF Iter
  <2>1. QED
    BY <1>7
<1> HIDE DEF iter
<1>9. PICK run : FoldRun(S, N, init, step, run, iter[1 .. N])
  <2>1. iter[{}] = init
    BY <1>8
  <2>2. \A T \in SUBSET (1 .. N) : T # {} /\ iter[T \ {Max(T)}] \in S =>
           iter[T] = step[<<Max(T), iter[T \ {Max(T)}]>>]
    BY <1>1, <1>5, <1>6, <1>8 DEF FoldTable
  <2>3. QED
    BY <1>1, <1>3, <1>5, <2>1, <2>2, FoldRuns
<1>10. \A k \in 1 .. N : run[k] = Op(run[k - 1], s[k])
  <2>1. \A k \in 1 .. N : k - 1 \in 0 .. N
    BY <1>1
  <2>2. QED
    BY <1>5, <1>9, <2>1 DEF FoldRun
<1>11. run \in [0 .. N -> S] /\ run[0] = init /\ run[N] = iter[DOMAIN s]
  BY <1>1, <1>9 DEF FoldRun
<1>12. QED
  BY <1>2, <1>10, <1>11 DEF N, Op, s, S, init

(* So InputLinks lists the links of a node's input pins.                     *)
LEMMA InputLinksList ==
  ASSUME Links(connected), NEW n, Inputs(n) \subseteq Pin, IsFiniteSet(Inputs(n))
  PROVE  Lists(InputLinks(n), Inputs(n))
<1> DEFINE s == SetToSeq(Inputs(n))
           N == Len(s)
           Done(k) == {s[j] : j \in 1 .. k}
<1>1. /\ s \in Seq(Inputs(n)) /\ IsInjective(s)
      /\ \A p \in Inputs(n) : In(s, p)
  BY SetListed
<1>2. /\ N \in Nat /\ DOMAIN s = 1 .. N
      /\ \A k \in 1 .. N : s[k] \in Inputs(n) /\ s[k] \in Pin
  BY <1>1, LenProperties, ElementOfSeq
<1>3. PICK run \in [0 .. N -> Seq(Pin \X Pin)] :
        /\ run[0] = <<>>
        /\ \A k \in 1 .. N :
             run[k] = run[k - 1] \o
                        [l \in DOMAIN connected[s[k]] |-> <<connected[s[k]][l], s[k]>>]
        /\ InputLinks(n) = run[N]
  BY <1>1, InputLinksRun
<1> HIDE DEF s, N
<1> DEFINE Q == {k \in 0 .. N : Lists(run[k], Done(k))}
<1>4. 0 \in Q
  <2>1. Done(0) = {} /\ 0 \in 0 .. N
    BY <1>2
  <2> HIDE DEF Done
  <2>2. QED
    BY <1>3, <2>1, ListsNone
<1>5. ASSUME NEW k \in 1 .. N, k - 1 \in Q
      PROVE  k \in Q
  <2>1. Done(k) = Done(k - 1) \union {s[k]}
    <3>1. \A j \in 1 .. k : j = k \/ j \in 1 .. k - 1
      BY <1>2
    <3>2. \A j \in 1 .. k - 1 : j \in 1 .. k
      BY <1>2
    <3>3. k \in 1 .. k
      BY <1>2
    <3>4. QED
      BY <3>1, <3>2, <3>3
  <2>2. s[k] \notin Done(k - 1)
    <3> SUFFICES ASSUME NEW j \in 1 .. k - 1, s[j] = s[k]
                 PROVE  FALSE
      OBVIOUS
    <3>1. j \in 1 .. N /\ j # k
      BY <1>2
    <3>2. QED
      BY <1>1, <1>2, <3>1 DEF IsInjective
  <2> DEFINE b == [l \in DOMAIN connected[s[k]] |-> <<connected[s[k]][l], s[k]>>]
  <2>3. Lists(b, {s[k]}) /\ Lists(run[k - 1], Done(k - 1)) /\ run[k] = run[k - 1] \o b
    BY <1>2, <1>3, <1>5, ListsOne
  <2>4. Done(k - 1) \intersect {s[k]} = {}
    BY <2>2
  <2> HIDE DEF b, Done
  <2>5. Lists(run[k - 1] \o b, Done(k - 1) \union {s[k]})
    BY <2>3, <2>4, ListsBoth
  <2>6. Lists(run[k], Done(k)) /\ k \in 0 .. N
    BY <1>2, <2>1, <2>3, <2>5
  <2>7. QED
    BY <2>6
<1>6. N \in Q
  <2> HIDE DEF Q
  <2>1. \A k \in 0 .. N : k \in Q
    BY <1>2, <1>4, <1>5, UpTo
  <2>2. QED
    BY <1>2, <2>1
<1>7. Done(N) = Inputs(n)
  BY <1>1, <1>2 DEF In
<1>8. QED
  <2> HIDE DEF Done
  <2>1. QED
    BY <1>3, <1>6, <1>7

\* The input pins a clone gives its links to.
ContextInputs == {p \in pins : SideOf(p) = "in" /\ ParentOf(p) \in InContext}

\* The links of a clone in the order they are added in.
LinksOf(order) == FoldLeft(LAMBDA s, n : s \o InputLinks(n), <<>>, order)

(* An order of the map has every node of the context once.                   *)
LEMMA OrderShape ==
  ASSUME NetInv, NEW order \in Orders
  PROVE  /\ order \in Seq(InContext) /\ IsInjective(order)
         /\ \A n \in InContext : In(order, n)
<1> DEFINE N == Cardinality(InContext)
<1>1. N \in Nat /\ IsFiniteSet(InContext)
  BY FS_CardinalityType DEF NetInv, PlacesInv
<1>2. IsFiniteSet(1 .. N) /\ Cardinality(1 .. N) = N
  BY <1>1, FS_Interval
<1>3. /\ order \in [1 .. N -> InContext]
      /\ \A i, j \in 1 .. N : i # j => order[i] # order[j]
  BY DEF Orders, SetToSeqs
<1>4. order \in Injection(1 .. N, InContext) /\ IsInjective(order)
  BY <1>3 DEF Injection, IsInjective
<1>5. order \in Surjection(1 .. N, InContext)
  BY <1>1, <1>2, <1>4, FS_Injection
<1> HIDE DEF N
<1>6. order \in Seq(InContext) /\ DOMAIN order = 1 .. N
  BY <1>1, <1>3
<1>7. \A n \in InContext : \E i \in 1 .. N : order[i] = n
  BY <1>5 DEF Surjection
<1>8. QED
  BY <1>4, <1>6, <1>7 DEF In

(* What the provers need to know of the input pins.                          *)
LEMMA InputsShape ==
  ASSUME NetInv, NEW n
  PROVE  /\ Inputs(n) \subseteq Pin /\ IsFiniteSet(Inputs(n))
         /\ Lists(InputLinks(n), Inputs(n))
<1>1. Inputs(n) \subseteq pins /\ pins \subseteq Pin /\ IsFiniteSet(pins) /\ Links(connected)
  BY DEF Inputs, PinsOf, NetInv, PinsInv, Net
<1>2. Inputs(n) \subseteq Pin /\ IsFiniteSet(Inputs(n))
  BY <1>1, FS_Subset
<1>3. QED
  BY <1>1, <1>2, InputLinksList

(* The nodes are gone through one after the other.                           *)
LEMMA LinksOfRun ==
  ASSUME NetInv, NEW order \in Seq(InContext)
  PROVE  \E run \in [0 .. Len(order) -> Seq(Pin \X Pin)] :
           /\ run[0] = <<>>
           /\ \A k \in 1 .. Len(order) : run[k] = run[k - 1] \o InputLinks(order[k])
           /\ LinksOf(order) = run[Len(order)]
<1> DEFINE s == order
           N == Len(s)
           S == Seq(Pin \X Pin)
           init == <<>>
           Op(M, n) == M \o InputLinks(n)
           step == [a \in (1 .. N) \X S |-> Op(a[2], s[a[1]])]
           Iter(f) == f = [T \in SUBSET DOMAIN s |->
                             IF T = {} THEN init ELSE Op(f[T \ {Max(T)}], s[Max(T)])]
           iter == CHOOSE f : Iter(f)
<1>1. N \in Nat /\ DOMAIN s = 1 .. N
  BY LenProperties
<1>2. LinksOf(order) = iter[DOMAIN s]
  BY DEF LinksOf, FoldLeft, MapThenFoldSet
<1>3. init \in S /\ \A k \in 1 .. N, M \in S : Op(M, s[k]) \in S
  <2>1. init \in S
    OBVIOUS
  <2>2. \A n : InputLinks(n) \in S
    BY InputsShape DEF Lists
  <2> HIDE DEF S
  <2>3. ASSUME NEW k \in 1 .. N, NEW M \in S
        PROVE  Op(M, s[k]) \in S
    <3>1. InputLinks(s[k]) \in S
      BY <2>2
    <3>2. QED
      BY <3>1, ConcatProperties DEF S
  <2>4. QED
    BY <2>1, <2>3
<1> HIDE DEF N, S, init, Op, s
<1>5. /\ step \in [(1 .. N) \X S -> S]
      /\ \A k \in 1 .. N, M \in S : step[<<k, M>>] = Op(M, s[k])
  BY <1>3
<1> HIDE DEF step
<1>6. PICK f : FoldTable(S, N, init, step, f)
  BY <1>1, <1>3, <1>5, FoldTableExists
<1>7. Iter(f)
  BY <1>1, <1>5, <1>6 DEF FoldTable
<1>8. Iter(iter)
  <2> HIDE DEF Iter
  <2>1. QED
    BY <1>7
<1> HIDE DEF iter
<1>9. PICK run : FoldRun(S, N, init, step, run, iter[1 .. N])
  <2>1. iter[{}] = init
    BY <1>8
  <2>2. \A T \in SUBSET (1 .. N) : T # {} /\ iter[T \ {Max(T)}] \in S =>
           iter[T] = step[<<Max(T), iter[T \ {Max(T)}]>>]
    BY <1>1, <1>5, <1>6, <1>8 DEF FoldTable
  <2>3. QED
    BY <1>1, <1>3, <1>5, <2>1, <2>2, FoldRuns
<1>10. \A k \in 1 .. N : run[k] = Op(run[k - 1], s[k])
  <2>1. \A k \in 1 .. N : k - 1 \in 0 .. N
    BY <1>1
  <2>2. QED
    BY <1>5, <1>9, <2>1 DEF FoldRun
<1>11. run \in [0 .. N -> S] /\ run[0] = init /\ run[N] = iter[DOMAIN s]
  BY <1>1, <1>9 DEF FoldRun
<1>12. QED
  BY <1>2, <1>10, <1>11 DEF N, Op, s, S, init

(* So the links of the input pins of all nodes are listed.                   *)
LEMMA LinksOfList ==
  ASSUME NetInv, NEW order \in Orders
  PROVE  Lists(LinksOf(order), ContextInputs)
<1> DEFINE N == Len(order)
           Done(k) == {p \in pins : SideOf(p) = "in"
                                    /\ \E j \in 1 .. k : ParentOf(p) = order[j]}
<1>1. /\ order \in Seq(InContext) /\ IsInjective(order)
      /\ \A n \in InContext : In(order, n)
  BY OrderShape
<1>2. /\ N \in Nat /\ DOMAIN order = 1 .. N
      /\ \A k \in 1 .. N : order[k] \in InContext
  BY <1>1, LenProperties, ElementOfSeq
<1>3. PICK run \in [0 .. N -> Seq(Pin \X Pin)] :
        /\ run[0] = <<>>
        /\ \A k \in 1 .. N : run[k] = run[k - 1] \o InputLinks(order[k])
        /\ LinksOf(order) = run[N]
  BY <1>1, LinksOfRun
<1> HIDE DEF N
<1> DEFINE Q == {k \in 0 .. N : Lists(run[k], Done(k))}
<1>4. 0 \in Q
  <2>1. Done(0) = {} /\ 0 \in 0 .. N
    BY <1>2
  <2> HIDE DEF Done
  <2>2. QED
    BY <1>3, <2>1, ListsNone
<1>5. ASSUME NEW k \in 1 .. N, k - 1 \in Q
      PROVE  k \in Q
  <2> DEFINE n == order[k]
  <2>1. Done(k) = Done(k - 1) \union Inputs(n)
    <3>1. \A j \in 1 .. k : j = k \/ j \in 1 .. k - 1
      BY <1>2
    <3>2. \A j \in 1 .. k - 1 : j \in 1 .. k
      BY <1>2
    <3>3. k \in 1 .. k
      BY <1>2
    <3>4. QED
      BY <3>1, <3>2, <3>3 DEF Inputs, PinsOf
  <2>2. Done(k - 1) \intersect Inputs(n) = {}
    <3> SUFFICES ASSUME NEW j \in 1 .. k - 1, order[j] = order[k]
                 PROVE  FALSE
      BY DEF Inputs, PinsOf
    <3>1. j \in 1 .. N /\ j # k
      BY <1>2
    <3>2. QED
      BY <1>1, <1>2, <3>1 DEF IsInjective
  <2>3. /\ Lists(InputLinks(n), Inputs(n)) /\ Lists(run[k - 1], Done(k - 1))
        /\ run[k] = run[k - 1] \o InputLinks(n)
    BY <1>3, <1>5, InputsShape
  <2> HIDE DEF n, Done
  <2>4. Lists(run[k - 1] \o InputLinks(n), Done(k - 1) \union Inputs(n))
    BY <2>2, <2>3, ListsBoth
  <2>5. Lists(run[k], Done(k)) /\ k \in 0 .. N
    BY <1>2, <2>1, <2>3, <2>4
  <2>6. QED
    BY <2>5
<1>6. N \in Q
  <2> HIDE DEF Q
  <2>1. \A k \in 0 .. N : k \in Q
    BY <1>2, <1>4, <1>5, UpTo
  <2>2. QED
    BY <1>2, <2>1
<1>7. Done(N) = ContextInputs
  <2>1. \A n : n \in InContext <=> \E j \in 1 .. N : n = order[j]
    BY <1>1, <1>2 DEF In
  <2>2. QED
    BY <2>1 DEF ContextInputs
<1>8. QED
  <2> HIDE DEF Done
  <2>1. QED
    BY <1>3, <1>6, <1>7

(* A pin is told by its node, its side and its name.                         *)
LEMMA PinEqual ==
  ASSUME NEW p \in Pin, NEW q \in Pin,
         ParentOf(p) = ParentOf(q), SideOf(p) = SideOf(q), p[3] = q[3]
  PROVE  p = q
BY DEF Pin, ParentOf, SideOf

(* The link of an input is found again by the names of its other end.        *)
LEMMA OutputFound ==
  ASSUME NetInv, OnlyEdges, NEW p \in ContextInputs, NEW k \in DOMAIN connected[p]
  PROVE  /\ connected[p][k] \in pins /\ SideOf(connected[p][k]) = "out"
         /\ Linked(connected, p, connected[p][k])
         /\ FoundOutput(connected[p][k]) = {connected[p][k]}
<1> DEFINE q == connected[p][k]
<1>1. p \in Pin /\ p \in pins /\ SideOf(p) = "in" /\ pins \subseteq Pin
  BY DEF ContextInputs, NetInv, PinsInv
<1>2. q \in Pin /\ Linked(connected, p, q)
  BY <1>1, LinksShape DEF NetInv, PinsInv, Net, Linked
<1> HIDE DEF q
<1>3. IsEdge(q, p)
  <2>1. IsEdge(p, q) \/ IsEdge(q, p)
    BY <1>1, <1>2 DEF OnlyEdges
  <2>2. QED
    BY <1>1, <2>1 DEF IsEdge
<1>4. q \in pins /\ SideOf(q) = "out" /\ ParentOf(q) \in InContext
  BY <1>3 DEF IsEdge
<1>5. q \in FoundOutput(q)
  BY <1>4 DEF FoundOutput
<1>6. ASSUME NEW r \in FoundOutput(q)
      PROVE  r = q
  <2>1. /\ r \in Pin /\ ParentOf(r) \in InContext /\ SideOf(r) = SideOf(q) /\ r[3] = q[3]
        /\ name_of[ParentOf(r)] = name_of[ParentOf(q)]
    BY <1>1, <1>4 DEF FoundOutput
  <2>2. ParentOf(r) = ParentOf(q)
    BY <1>4, <2>1 DEF NetInv, PlacesInv
  <2>3. QED
    BY <1>2, <2>1, <2>2, PinEqual
<1>7. FoundOutput(q) = {q}
  BY <1>5, <1>6
<1>8. QED
  BY <1>2, <1>4, <1>7 DEF q

(* The links of a clone are made one after the other.                        *)
LEMMA CloneRun ==
  ASSUME NetInv, OnlyEdges, NEW order, Lists(LinksOf(order), ContextInputs)
  PROVE  LET s == LinksOf(order)
         IN  \E run \in [0 .. Len(s) -> [Pin -> Seq(Pin)]] :
               /\ run[0] = [p \in Pin |-> <<>>]
               /\ \A k \in 0 .. Len(s) : Net(run[k], pins)
               /\ \A k \in 1 .. Len(s) :
                    run[k] = Connected(run[k - 1], s[k][1], s[k][2], FALSE)
               /\ Cloned(order) = run[Len(s)]
<1> DEFINE s == LinksOf(order)
           N == Len(s)
           S == {M \in [Pin -> Seq(Pin)] : Net(M, pins)}
           init == [p \in Pin |-> <<>>]
           Op(M, link) == IF FoundOutput(link[1]) = {} THEN M
                          ELSE LET r == CHOOSE r \in FoundOutput(link[1]) : TRUE
                               IN  Connected(M, r, link[2], FALSE)
           step == [a \in (1 .. N) \X S |-> Op(a[2], s[a[1]])]
           Iter(f) == f = [T \in SUBSET DOMAIN s |->
                             IF T = {} THEN init ELSE Op(f[T \ {Max(T)}], s[Max(T)])]
           iter == CHOOSE f : Iter(f)
<1>1. N \in Nat /\ DOMAIN s = 1 .. N
  BY LenProperties DEF Lists
<1>2. Cloned(order) = iter[DOMAIN s]
  BY DEF Cloned, LinksOf, FoldLeft, MapThenFoldSet
<1>4. ASSUME NEW k \in 1 .. N, NEW M
      PROVE  /\ s[k][1] \in pins /\ s[k][2] \in pins
             /\ Op(M, s[k]) = Connected(M, s[k][1], s[k][2], FALSE)
  <2>1. PICK p \in ContextInputs : \E l \in DOMAIN connected[p] : s[k] = LinkAt(p, l)
    BY <1>1 DEF Lists
  <2>2. PICK l \in DOMAIN connected[p] : s[k] = LinkAt(p, l)
    BY <2>1
  <2> HIDE DEF s
  <2>3. s[k][1] = connected[p][l] /\ s[k][2] = p
    BY <2>2 DEF LinkAt
  <2>4. FoundOutput(s[k][1]) = {s[k][1]} /\ s[k][1] \in pins
    BY <2>3, OutputFound
  <2>5. (CHOOSE r \in FoundOutput(s[k][1]) : TRUE) = s[k][1]
    BY <2>4
  <2>6. QED
    BY <2>3, <2>4, <2>5 DEF ContextInputs
<1> HIDE DEF N, Op, s
<1>3. init \in S /\ \A k \in 1 .. N, M \in S : Op(M, s[k]) \in S
  <2>1. init \in S
    <3>1. <<>> \in Seq(Pin) /\ IsInjective(<<>>) /\ DOMAIN <<>> = {} /\ Len(<<>>) = 0
      BY EmptySeq DEF IsInjective
    <3>2. init \in [Pin -> Seq(Pin)] /\ \A p \in Pin : init[p] = <<>>
      BY <3>1
    <3> HIDE DEF init
    <3>3. Links(init) /\ \A p \in Pin : \A q : ~ Linked(init, p, q)
      BY <3>1, <3>2 DEF Links, Linked
    <3>4. Net(init, pins)
      BY <3>1, <3>2, <3>3 DEF Net, NetInv, PinsInv
    <3>5. QED
      BY <3>2, <3>4
  <2>2. single \subseteq Pin /\ pins \in SUBSET Pin
    BY DEF NetInv, PinsInv
  <2>3. ASSUME NEW k \in 1 .. N, NEW M \in S
        PROVE  Op(M, s[k]) \in S
    <3>1. Net(Connected(M, s[k][1], s[k][2], FALSE), pins)
      BY <1>4, <2>2, ConnectedNet
    <3>2. QED
      BY <1>4, <3>1 DEF Net, Links
  <2>4. QED
    BY <2>1, <2>3
<1>13. \A M \in S : Net(M, pins) /\ M \in [Pin -> Seq(Pin)]
  OBVIOUS
<1> HIDE DEF S, init
<1>5. /\ step \in [(1 .. N) \X S -> S]
      /\ \A k \in 1 .. N, M \in S : step[<<k, M>>] = Op(M, s[k])
  BY <1>3
<1> HIDE DEF step
<1>6. PICK f : FoldTable(S, N, init, step, f)
  BY <1>1, <1>3, <1>5, FoldTableExists
<1>7. Iter(f)
  BY <1>1, <1>5, <1>6 DEF FoldTable
<1>8. Iter(iter)
  <2> HIDE DEF Iter
  <2>1. QED
    BY <1>7
<1> HIDE DEF iter
<1>9. PICK run : FoldRun(S, N, init, step, run, iter[1 .. N])
  <2>1. iter[{}] = init
    BY <1>8
  <2>2. \A T \in SUBSET (1 .. N) : T # {} /\ iter[T \ {Max(T)}] \in S =>
           iter[T] = step[<<Max(T), iter[T \ {Max(T)}]>>]
    BY <1>1, <1>5, <1>6, <1>8 DEF FoldTable
  <2>3. QED
    BY <1>1, <1>3, <1>5, <2>1, <2>2, FoldRuns
<1>10. \A k \in 1 .. N : run[k] = Connected(run[k - 1], s[k][1], s[k][2], FALSE)
  <2>1. \A k \in 1 .. N : k - 1 \in 0 .. N
    BY <1>1
  <2>2. \A k \in 1 .. N : run[k] = Op(run[k - 1], s[k])
    BY <1>5, <1>9, <2>1 DEF FoldRun
  <2>3. QED
    BY <1>4, <2>2
<1>11. run \in [0 .. N -> [Pin -> Seq(Pin)]] /\ \A k \in 0 .. N : Net(run[k], pins)
  BY <1>9, <1>13 DEF FoldRun
<1>12. run[0] = init /\ run[N] = iter[DOMAIN s]
  BY <1>1, <1>9 DEF FoldRun
<1>14. QED
  BY <1>2, <1>10, <1>11, <1>12 DEF N, s, init

\* What the first i links of s come to: both ends have them, and an input pin has
\* them in the order of the original.
Built(L, s, i) ==
  /\ \A q, r \in Pin : Linked(L, q, r)
       <=> \E j \in 1 .. i : s[j] = <<q, r>> \/ s[j] = <<r, q>>
  /\ \A p \in Pin : SideOf(p) = "in" =>
       /\ Len(L[p]) <= Len(connected[p])
       /\ \A m \in 1 .. Len(L[p]) : L[p][m] = connected[p][m]

(* A connection that is not refused and finds room adds a link.              *)
LEMMA ConnectedFree ==
  ASSUME NEW L \in [Pin -> Seq(Pin)], NEW q \in Pin, NEW p \in Pin, q # p,
         ~ Linked(L, q, p),
         q \in single => L[q] = <<>>, p \in single => L[p] = <<>>
  PROVE  LET C == Connected(L, q, p, FALSE)
         IN  /\ C[q] = Append(L[q], p) /\ C[p] = Append(L[p], q)
             /\ \A r \in Pin \ {p, q} : C[r] = L[r]
<1> DEFINE M == [L EXCEPT ![q] = Append(@, p)]
<1>1. ~ Refused(L, q, p, FALSE) /\ Vacated(L, q) = L
  BY DEF Refused, Vacated
<1>2. /\ M \in [Pin -> Seq(Pin)] /\ M[q] = Append(L[q], p)
      /\ \A r \in Pin : r # q => M[r] = L[r]
  <2>1. Append(L[q], p) \in Seq(Pin)
    OBVIOUS
  <2>2. QED
    BY <2>1
<1>3. Connected(L, q, p, FALSE) = BeConnected(M, p, q)
  BY <1>1 DEF Connected
<1> HIDE DEF M
<1>4. Vacated(M, p) = M
  BY <1>2 DEF Vacated
<1>5. Connected(L, q, p, FALSE) = [M EXCEPT ![p] = Append(@, q)]
  BY <1>3, <1>4 DEF BeConnected
<1>6. QED
  BY <1>2, <1>5

(* What the next link of the list finds of the clone.                        *)
LEMMA NextLink ==
  ASSUME NetInv, OnlyEdges, NEW s, Lists(s, ContextInputs), NEW i \in DOMAIN s,
         NEW L, Net(L, pins), Built(L, s, i - 1),
         NEW p \in ContextInputs, NEW k \in DOMAIN connected[p], s[i] = LinkAt(p, k)
  PROVE  /\ Len(L[p]) = k - 1
         /\ ~ Linked(L, p, connected[p][k])
         /\ p \in single => L[p] = <<>>
         /\ connected[p][k] \in single => L[connected[p][k]] = <<>>
<1> DEFINE q == connected[p][k]
           n == Len(s)
           X == Pin \X Pin
<1>1. /\ n \in Nat /\ DOMAIN s = 1 .. n /\ i \in 1 .. n
      /\ \A j \in 1 .. i - 1 : j \in DOMAIN s /\ j < i
  <2>1. s \in Seq(X)
    BY DEF Lists
  <2> HIDE DEF X
  <2>2. n \in Nat /\ DOMAIN s = 1 .. n
    BY <2>1, LenProperties
  <2>3. QED
    BY <2>2
<1>2. p \in Pin /\ p \in pins /\ SideOf(p) = "in"
  BY DEF ContextInputs, NetInv, PinsInv
<1>3. /\ Len(connected[p]) \in Nat /\ DOMAIN connected[p] = 1 .. Len(connected[p])
      /\ \A l \in 1 .. Len(connected[p]) : connected[p][l] \in Pin
      /\ \A l, m \in 1 .. Len(connected[p]) : connected[p][l] = connected[p][m] => l = m
      /\ Len(L[p]) \in Nat /\ DOMAIN L[p] = 1 .. Len(L[p])
  <2>1. Links(connected) /\ Links(L)
    BY DEF NetInv, PinsInv, Net
  <2>2. IsInjective(connected[p])
    BY <1>2, <2>1 DEF Links
  <2>3. /\ Len(connected[p]) \in Nat /\ DOMAIN connected[p] = 1 .. Len(connected[p])
        /\ \A l \in 1 .. Len(connected[p]) : connected[p][l] \in Pin
    BY <1>2, <2>1, LinksShape
  <2>4. Len(L[p]) \in Nat /\ DOMAIN L[p] = 1 .. Len(L[p])
    BY <1>2, <2>1, LinksShape
  <2>5. QED
    BY <2>2, <2>3, <2>4 DEF IsInjective
<1>4. /\ q \in Pin /\ SideOf(q) = "out" /\ Linked(connected, p, q) /\ p # q
  BY <1>2, <1>3, OutputFound
<1> HIDE DEF q
<1>5. \A j \in 1 .. i - 1 : s[j] # s[i]
  <2> SUFFICES ASSUME NEW j \in 1 .. i - 1, s[j] = s[i]
               PROVE  FALSE
    OBVIOUS
  <2>1. j < i /\ j \in DOMAIN s /\ s[j] = LinkAt(p, k)
    BY <1>1
  <2>2. k < k
    BY <2>1 DEF Lists
  <2>3. QED
    BY <1>3, <2>2
<1>6. ASSUME NEW j \in 1 .. i - 1, NEW a, NEW b, s[j] = <<a, b>>
      PROVE  b \in ContextInputs /\ SideOf(b) = "in" /\ SideOf(a) = "out"
             /\ In(connected[b], a)
  <2>1. PICK r \in ContextInputs : \E l \in DOMAIN connected[r] : s[j] = LinkAt(r, l)
    BY <1>1 DEF Lists
  <2>2. PICK l \in DOMAIN connected[r] : s[j] = LinkAt(r, l)
    BY <2>1
  <2>3. b = r /\ a = connected[r][l]
    BY <1>6, <2>2 DEF LinkAt
  <2>4. SideOf(a) = "out"
    BY <2>3, OutputFound
  <2>5. QED
    BY <2>3, <2>4 DEF In, ContextInputs
<1>7. ~ Linked(L, p, q)
  <2> SUFFICES ASSUME Linked(L, p, q)
               PROVE  FALSE
    OBVIOUS
  <2>1. PICK j \in 1 .. i - 1 : s[j] = <<p, q>> \/ s[j] = <<q, p>>
    BY <1>2, <1>4 DEF Built
  <2>2. s[j] # <<p, q>>
    BY <1>4, <1>6
  <2>3. s[i] = <<q, p>>
    BY DEF LinkAt, q
  <2>4. QED
    BY <1>5, <2>1, <2>2, <2>3
<1>8. /\ Len(L[p]) <= Len(connected[p])
      /\ \A m \in 1 .. Len(L[p]) : L[p][m] = connected[p][m]
  BY <1>2 DEF Built
<1>9. ~ (k <= Len(L[p]))
  <2> SUFFICES ASSUME k <= Len(L[p])
               PROVE  FALSE
    OBVIOUS
  <2>1. k \in 1 .. Len(L[p])
    BY <1>3
  <2>2. L[p][k] = q
    BY <1>8, <2>1 DEF q
  <2>3. QED
    BY <1>3, <1>7, <2>1, <2>2 DEF Linked
<1>10. ASSUME k - 1 > Len(L[p])
       PROVE  FALSE
  <2> DEFINE l == k - 1
             r == connected[p][l]
  <2>1. l \in 1 .. Len(connected[p]) /\ l < k /\ l # k /\ l > Len(L[p])
    BY <1>3, <1>10
  <2>2. PICK j \in DOMAIN s : s[j] = LinkAt(p, l)
    BY <1>3, <2>1 DEF Lists
  <2> HIDE DEF l
  <2>3. j # i
    <3>1. LinkAt(p, l) # LinkAt(p, k)
      BY <1>3, <2>1 DEF LinkAt
    <3>2. QED
      BY <2>2, <3>1
  <2>4. ~ (i < j)
    <3> SUFFICES ASSUME i < j
                 PROVE  FALSE
      OBVIOUS
    <3>1. k < l
      BY <1>3, <2>1, <2>2 DEF Lists
    <3>2. QED
      BY <1>3, <2>1, <3>1
  <2>5. j \in 1 .. i - 1
    BY <1>1, <2>3, <2>4
  <2>6. r \in Pin /\ s[j] = <<r, p>>
    BY <1>3, <2>1, <2>2 DEF LinkAt
  <2>7. Linked(L, p, r)
    BY <1>2, <2>5, <2>6 DEF Built
  <2>8. PICK m \in 1 .. Len(L[p]) : L[p][m] = r
    BY <1>3, <2>7 DEF Linked
  <2>9. m \in 1 .. Len(connected[p]) /\ connected[p][m] = r
    BY <1>3, <1>8, <2>8
  <2>10. m = l
    BY <1>3, <2>1, <2>9
  <2>11. QED
    BY <1>3, <2>1, <2>10
<1>11. Len(L[p]) = k - 1
  BY <1>3, <1>9, <1>10
<1>12. ASSUME p \in single
       PROVE  L[p] = <<>>
  <2>1. Len(connected[p]) <= 1
    BY <1>12 DEF NetInv, PinsInv, Net
  <2>2. Len(L[p]) = 0
    BY <1>3, <1>11, <2>1
  <2>3. QED
    BY <1>2, <2>2, LinksShape DEF Net
<1>13. ASSUME q \in single
       PROVE  L[q] = <<>>
  <2> SUFFICES ASSUME L[q] # <<>>
               PROVE  FALSE
    OBVIOUS
  <2>1. Len(L[q]) \in Nat /\ DOMAIN L[q] = 1 .. Len(L[q]) /\ Len(L[q]) # 0
    BY <1>4, LinksShape DEF Net
  <2>2. 1 \in DOMAIN L[q]
    BY <2>1
  <2> DEFINE r == L[q][1]
  <2>3. Linked(L, q, r) /\ r \in Pin
    BY <1>4, <2>2, LinksShape DEF Linked, Net
  <2> HIDE DEF r
  <2>4. PICK j \in 1 .. i - 1 : s[j] = <<q, r>> \/ s[j] = <<r, q>>
    BY <1>4, <2>3 DEF Built
  <2>5. s[j] # <<q, r>>
    <3> SUFFICES ASSUME s[j] = <<q, r>>
                 PROVE  FALSE
      OBVIOUS
    <3>1. Linked(connected, r, q)
      BY <1>6, LinkedIn
    <3>2. Linked(connected, q, r) /\ Linked(connected, q, p)
      BY <1>2, <1>4, <2>3, <3>1 DEF NetInv, PinsInv, Net
    <3>3. /\ Len(connected[q]) \in Nat /\ DOMAIN connected[q] = 1 .. Len(connected[q])
          /\ Len(connected[q]) <= 1
      BY <1>4, <1>13, LinksShape DEF NetInv, PinsInv, Net
    <3>4. \A x, y \in DOMAIN connected[q] : x = y
      BY <3>3
    <3>5. r = p
      BY <3>2, <3>4 DEF Linked
    <3>6. s[i] = <<q, p>>
      BY DEF LinkAt, q
    <3>7. QED
      BY <1>5, <3>5, <3>6
  <2>6. s[j] = <<r, q>>
    BY <2>4, <2>5
  <2>7. QED
    BY <1>4, <1>6, <2>6
<1>14. QED
  BY <1>7, <1>11, <1>12, <1>13 DEF q

(* The list of an input grows by the next link of the original.              *)
LEMMA AppendedNext ==
  ASSUME NEW X, NEW s \in Seq(X), NEW t \in Seq(X), NEW k \in DOMAIN s,
         Len(t) = k - 1, \A m \in 1 .. Len(t) : t[m] = s[m]
  PROVE  LET u == Append(t, s[k])
         IN  Len(u) <= Len(s) /\ \A m \in 1 .. Len(u) : u[m] = s[m]
<1> DEFINE u == Append(t, s[k])
<1>1. /\ Len(s) \in Nat /\ k \in 1 .. Len(s) /\ s[k] \in X
  BY LenProperties, ElementOfSeq
<1>2. /\ Len(u) = k /\ u[k] = s[k] /\ \A m \in 1 .. k - 1 : u[m] = t[m]
  BY <1>1, AppendProperties
<1> HIDE DEF u
<1>3. ASSUME NEW m \in 1 .. k
      PROVE  u[m] = s[m]
  <2>1. CASE m = k
    BY <1>2, <2>1
  <2>2. CASE m # k
    BY <1>1, <1>2, <2>2
  <2>3. QED
    BY <2>1, <2>2
<1>4. QED
  BY <1>1, <1>2, <1>3 DEF u

(* A list that got one element more.                                         *)
LEMMA AppendedIn ==
  ASSUME NEW X, NEW t \in Seq(X), NEW x \in X
  PROVE  \A y : In(Append(t, x), y) <=> In(t, y) \/ y = x
<1>1. /\ Len(t) \in Nat /\ DOMAIN t = 1 .. Len(t) /\ Append(t, x) \in Seq(X)
      /\ Len(Append(t, x)) = Len(t) + 1 /\ Append(t, x)[Len(t) + 1] = x
      /\ \A k \in 1 .. Len(t) : Append(t, x)[k] = t[k]
  BY LenProperties, AppendProperties
<1>2. DOMAIN Append(t, x) = 1 .. Len(t) + 1
  BY <1>1, LenProperties
<1>3. QED
  BY <1>1, <1>2 DEF In

(* The next link is made.                                                    *)
LEMMA BuildStep ==
  ASSUME NetInv, OnlyEdges, NEW s, Lists(s, ContextInputs), NEW i \in DOMAIN s,
         NEW L, Net(L, pins), Built(L, s, i - 1)
  PROVE  Built(Connected(L, s[i][1], s[i][2], FALSE), s, i)
<1>1. PICK p \in ContextInputs : \E k \in DOMAIN connected[p] : s[i] = LinkAt(p, k)
  BY DEF Lists
<1>2. PICK k \in DOMAIN connected[p] : s[i] = LinkAt(p, k)
  BY <1>1
<1> DEFINE q == connected[p][k]
           C == Connected(L, q, p, FALSE)
<1>3. s[i] = <<q, p>> /\ s[i][1] = q /\ s[i][2] = p
  BY <1>2 DEF LinkAt
<1>4. /\ p \in Pin /\ SideOf(p) = "in" /\ q \in Pin /\ SideOf(q) = "out" /\ p # q
      /\ connected[p] \in Seq(Pin)
  <2>1. p \in Pin /\ SideOf(p) = "in" /\ q \in pins /\ SideOf(q) = "out" /\ pins \subseteq Pin
    BY OutputFound DEF ContextInputs, NetInv, PinsInv
  <2>2. connected[p] \in Seq(Pin)
    BY <2>1, LinksShape DEF NetInv, PinsInv, Net
  <2>3. QED
    BY <2>1, <2>2
<1>5. /\ Len(L[p]) = k - 1 /\ ~ Linked(L, p, q)
      /\ p \in single => L[p] = <<>>
      /\ q \in single => L[q] = <<>>
  BY <1>2, NextLink
<1>6. L \in [Pin -> Seq(Pin)] /\ ~ Linked(L, q, p)
  BY <1>4, <1>5 DEF Net, Links
<1> HIDE DEF q
<1>7. /\ C[q] = Append(L[q], p) /\ C[p] = Append(L[p], q)
      /\ \A r \in Pin \ {p, q} : C[r] = L[r]
  BY <1>4, <1>5, <1>6, ConnectedFree
<1> HIDE DEF C
<1>8. \A r, t \in Pin : Linked(C, r, t)
        <=> Linked(L, r, t) \/ (r = q /\ t = p) \/ (r = p /\ t = q)
  <2> TAKE r, t \in Pin
  <2>1. L[r] \in Seq(Pin)
    BY <1>6
  <2>2. CASE r = p
    <3>1. In(Append(L[p], q), t) <=> In(L[p], t) \/ t = q
      BY <1>4, <1>6, AppendedIn
    <3>2. QED
      BY <1>4, <1>7, <2>2, <3>1, LinkedIn
  <2>3. CASE r = q
    <3>1. In(Append(L[q], p), t) <=> In(L[q], t) \/ t = p
      BY <1>4, <1>6, AppendedIn
    <3>2. QED
      BY <1>4, <1>7, <2>3, <3>1, LinkedIn
  <2>4. CASE r # p /\ r # q
    BY <1>7, <2>4 DEF Linked
  <2>5. QED
    BY <2>2, <2>3, <2>4
<1>9. i \in Nat /\ i >= 1
  <2> DEFINE X == Pin \X Pin
  <2>1. s \in Seq(X)
    BY DEF Lists
  <2> HIDE DEF X
  <2>2. DOMAIN s = 1 .. Len(s) /\ Len(s) \in Nat
    BY <2>1, LenProperties
  <2>3. QED
    BY <2>2
<1>10. \A r, t \in Pin : Linked(C, r, t)
         <=> \E j \in 1 .. i : s[j] = <<r, t>> \/ s[j] = <<t, r>>
  <2> TAKE r, t \in Pin
  <2>1. Linked(L, r, t) <=> \E j \in 1 .. i - 1 : s[j] = <<r, t>> \/ s[j] = <<t, r>>
    BY DEF Built
  <2>2. (s[i] = <<r, t>> \/ s[i] = <<t, r>>) <=> (r = q /\ t = p) \/ (r = p /\ t = q)
    BY <1>3
  <2>3. \A j : j \in 1 .. i <=> j \in 1 .. i - 1 \/ j = i
    BY <1>9
  <2>4. QED
    BY <1>8, <2>1, <2>2, <2>3
<1>11. ASSUME NEW r \in Pin, SideOf(r) = "in"
       PROVE  /\ Len(C[r]) <= Len(connected[r])
              /\ \A m \in 1 .. Len(C[r]) : C[r][m] = connected[r][m]
  <2>1. /\ Len(L[r]) <= Len(connected[r])
        /\ \A m \in 1 .. Len(L[r]) : L[r][m] = connected[r][m]
    BY <1>11 DEF Built
  <2>2. CASE r = p
    <3>1. C[p] = Append(L[p], connected[p][k])
      BY <1>7 DEF q
    <3>2. QED
      BY <1>4, <1>5, <1>6, <2>1, <2>2, <3>1, AppendedNext
  <2>3. CASE r # p
    <3>1. C[r] = L[r]
      BY <1>4, <1>7, <1>11, <2>3
    <3>2. QED
      BY <2>1, <3>1
  <2>4. QED
    BY <2>2, <2>3
<1>12. Built(C, s, i)
  BY <1>10, <1>11 DEF Built
<1>13. QED
  BY <1>3, <1>12 DEF C

(* When all links are made, the clone has those of the original.             *)
LEMMA BuiltExact ==
  ASSUME NetInv, OnlyEdges, NEW s, Lists(s, ContextInputs),
         NEW C, Net(C, pins), Built(C, s, Len(s)), NEW p \in Pin
  PROVE  /\ ToSet(C[p]) = ToSet(connected[p])
         /\ SideOf(p) = "in" => C[p] = connected[p]
<1> DEFINE X == Pin \X Pin
<1>1. DOMAIN s = 1 .. Len(s)
  <2>1. s \in Seq(X)
    BY DEF Lists
  <2> HIDE DEF X
  <2>2. QED
    BY <2>1, LenProperties
<1>2. Net(connected, pins) /\ pins \subseteq Pin
  BY DEF NetInv, PinsInv
<1>3. ASSUME NEW a \in Pin, NEW b \in Pin, Linked(connected, b, a), IsEdge(a, b)
      PROVE  \E j \in 1 .. Len(s) : s[j] = <<a, b>>
  <2>1. b \in ContextInputs
    BY <1>3 DEF IsEdge, ContextInputs
  <2>2. PICK k \in DOMAIN connected[b] : connected[b][k] = a
    BY <1>3 DEF Linked
  <2>3. PICK j \in DOMAIN s : s[j] = LinkAt(b, k)
    BY <2>1, <2>2 DEF Lists
  <2>4. QED
    BY <1>1, <2>2, <2>3 DEF LinkAt
<1>4. ASSUME NEW a, NEW b, NEW j \in 1 .. Len(s), s[j] = <<a, b>>
      PROVE  b \in Pin /\ Linked(connected, b, a)
  <2>1. PICK r \in ContextInputs : \E l \in DOMAIN connected[r] : s[j] = LinkAt(r, l)
    BY <1>1 DEF Lists
  <2>2. PICK l \in DOMAIN connected[r] : s[j] = LinkAt(r, l)
    BY <2>1
  <2>3. b = r /\ a = connected[r][l]
    BY <1>4, <2>2 DEF LinkAt
  <2>4. QED
    BY <1>2, <2>3 DEF Linked, ContextInputs
<1>5. \A t \in Pin : Linked(C, p, t) <=> Linked(connected, p, t)
  <2> TAKE t \in Pin
  <2>1. Linked(C, p, t) <=> \E j \in 1 .. Len(s) : s[j] = <<p, t>> \/ s[j] = <<t, p>>
    BY DEF Built
  <2>2. ASSUME Linked(connected, p, t)
        PROVE  \E j \in 1 .. Len(s) : s[j] = <<p, t>> \/ s[j] = <<t, p>>
    <3>1. Linked(connected, t, p)
      BY <1>2, <2>2 DEF Net
    <3>2. IsEdge(p, t) \/ IsEdge(t, p)
      BY <2>2 DEF OnlyEdges
    <3>3. QED
      BY <1>3, <2>2, <3>1, <3>2
  <2>3. ASSUME NEW j \in 1 .. Len(s), s[j] = <<p, t>> \/ s[j] = <<t, p>>
        PROVE  Linked(connected, p, t)
    <3>1. Linked(connected, p, t) \/ Linked(connected, t, p)
      BY <1>4, <2>3
    <3>2. QED
      BY <1>2, <3>1 DEF Net
  <2>4. QED
    BY <2>1, <2>2, <2>3
<1>6. /\ ToSet(C[p]) = {t \in Pin : Linked(C, p, t)}
      /\ ToSet(connected[p]) = {t \in Pin : Linked(connected, p, t)}
  BY <1>2, LinksShape DEF Net, ToSet, Linked
<1>7. ToSet(C[p]) = ToSet(connected[p])
  BY <1>5, <1>6
<1>8. ASSUME SideOf(p) = "in"
      PROVE  C[p] = connected[p]
  <2>1. /\ C[p] \in Seq(Pin) /\ Len(C[p]) \in Nat /\ DOMAIN C[p] = 1 .. Len(C[p])
        /\ connected[p] \in Seq(Pin) /\ Len(connected[p]) \in Nat
        /\ DOMAIN connected[p] = 1 .. Len(connected[p])
        /\ \A k \in DOMAIN connected[p] : connected[p][k] \in Pin
    BY <1>2, LinksShape DEF Net
  <2>2. /\ Len(C[p]) <= Len(connected[p])
        /\ \A m \in 1 .. Len(C[p]) : C[p][m] = connected[p][m]
    BY <1>8 DEF Built
  <2>3. \A k, m \in 1 .. Len(connected[p]) : connected[p][k] = connected[p][m] => k = m
    BY <1>2, <2>1 DEF Net, Links, IsInjective
  <2>4. ~ (Len(C[p]) < Len(connected[p]))
    <3> SUFFICES ASSUME Len(C[p]) < Len(connected[p])
                 PROVE  FALSE
      OBVIOUS
    <3> DEFINE n == Len(connected[p])
    <3>1. n \in 1 .. n /\ connected[p][n] \in Pin
      BY <2>1, <2>2
    <3>2. Linked(connected, p, connected[p][n])
      BY <2>1, <3>1 DEF Linked
    <3>3. Linked(C, p, connected[p][n])
      BY <1>5, <3>1, <3>2
    <3>4. PICK m \in 1 .. Len(C[p]) : C[p][m] = connected[p][n]
      BY <2>1, <3>3 DEF Linked
    <3>5. m \in 1 .. n /\ connected[p][m] = connected[p][n]
      BY <2>1, <2>2, <3>4
    <3>6. m = n
      BY <2>3, <3>1, <3>5
    <3>7. QED
      BY <2>1, <3>4, <3>6
  <2>5. Len(C[p]) = Len(connected[p])
    BY <2>1, <2>2, <2>4
  <2>6. QED
    BY <2>1, <2>2, <2>5, SeqEqual
<1>9. QED
  BY <1>7, <1>8

\* A clone of a context whose links were all made by add_edge has the links of
\* the original, and at its inputs in the same order, in whatever order the map
\* of the nodes is walked: no link of the clone is refused, or breaks another.
THEOREM CloneExactCorrect == NodeSpec => []CloneExact
<1>1. ASSUME NetInv
      PROVE  CloneExact
  <2> SUFFICES ASSUME OnlyEdges, NEW order \in Orders, NEW p \in Pin
               PROVE  /\ ToSet(Cloned(order)[p]) = ToSet(connected[p])
                      /\ SideOf(p) = "in" => Cloned(order)[p] = connected[p]
    BY DEF CloneExact
  <2> DEFINE s == LinksOf(order)
             N == Len(s)
             X == Pin \X Pin
  <2>1. Lists(s, ContextInputs)
    BY <1>1, LinksOfList
  <2>2. PICK run \in [0 .. N -> [Pin -> Seq(Pin)]] :
          /\ run[0] = [r \in Pin |-> <<>>]
          /\ \A k \in 0 .. N : Net(run[k], pins)
          /\ \A k \in 1 .. N : run[k] = Connected(run[k - 1], s[k][1], s[k][2], FALSE)
          /\ Cloned(order) = run[N]
    BY <1>1, <2>1, CloneRun
  <2> HIDE DEF s
  <2>3. N \in Nat /\ DOMAIN s = 1 .. N
    <3>1. s \in Seq(X)
      BY <2>1 DEF Lists
    <3> HIDE DEF X
    <3>2. QED
      BY <3>1, LenProperties
  <2> HIDE DEF N
  <2> DEFINE Q == {k \in 0 .. N : Built(run[k], s, k)}
  <2>4. 0 \in Q
    <3>1. \A r \in Pin : run[0][r] = <<>> /\ Len(run[0][r]) = 0 /\ DOMAIN run[0][r] = {}
      BY <2>2, EmptySeq
    <3>2. \A q, r \in Pin : ~ Linked(run[0], q, r)
      BY <3>1 DEF Linked
    <3>3. \A r \in Pin : Len(connected[r]) \in Nat
      BY <1>1, LinksShape DEF NetInv, PinsInv, Net
    <3>4. Built(run[0], s, 0)
      BY <3>1, <3>2, <3>3 DEF Built
    <3>5. QED
      BY <2>3, <3>4
  <2>5. ASSUME NEW k \in 1 .. N, k - 1 \in Q
        PROVE  k \in Q
    <3>1. k - 1 \in 0 .. N /\ Built(run[k - 1], s, k - 1) /\ Net(run[k - 1], pins)
      BY <2>2, <2>5
    <3>2. Built(Connected(run[k - 1], s[k][1], s[k][2], FALSE), s, k)
      BY <1>1, <2>1, <2>3, <3>1, BuildStep
    <3>3. run[k] = Connected(run[k - 1], s[k][1], s[k][2], FALSE)
      BY <2>2
    <3>4. Built(run[k], s, k)
      BY <3>2, <3>3
    <3>5. k \in 0 .. N
      BY <2>3
    <3>6. QED
      BY <3>4, <3>5
  <2>6. N \in Q
    <3> HIDE DEF Q
    <3>1. \A k \in 0 .. N : k \in Q
      BY <2>3, <2>4, <2>5, UpTo
    <3>2. QED
      BY <2>3, <3>1
  <2>7. Built(Cloned(order), s, N) /\ Net(Cloned(order), pins)
    BY <2>2, <2>3, <2>6
  <2>8. QED
    BY <1>1, <2>1, <2>7, BuiltExact DEF N
<1>2. QED
  BY <1>1, NetInvariant, PTL
==============================================================================
