-------------------------- MODULE LinkServiceProofs --------------------------
(***************************************************************************)
(* Proofs about LinkService, for every set of connections and any number   *)
(* of calls in flight: the settings stay well formed, an armed vehicle     *)
(* keeps its connection, and, until a run begins beside another, there is  *)
(* one engine and it gets the links of the settings.                       *)
(***************************************************************************)
EXTENDS LinkService, FiniteSetTheorems, FunctionTheorems, SequenceTheorems, TLAPS

-----------------------------------------------------------------------------
(* filter.  The items picked are those at the positions asked for, each      *)
(* once, in order; picking from what was picked is picking from the whole.   *)

LEMMA Ranks ==
  ASSUME NEW n \in Nat, NEW I \in SUBSET (1 .. n)
  PROVE  /\ IsFiniteSet(I) /\ Cardinality(I) \in 0 .. n
         /\ \A i \in I : Rank(I, i) \in 1 .. Cardinality(I)
         /\ \A i, j \in I : i < j => Rank(I, i) < Rank(I, j)
         /\ \A k \in 1 .. Cardinality(I) : \E i \in I : Rank(I, i) = k
<1> DEFINE m == Cardinality(I)
           Up(i) == {j \in I : j <= i}
<1>1. IsFiniteSet(1 .. n) /\ Cardinality(1 .. n) = n
  <2>1. Cardinality(1 .. n) = (IF 1 > n THEN 0 ELSE n - 1 + 1) /\ IsFiniteSet(1 .. n)
    BY FS_Interval
  <2> QED BY <2>1
<1>2. IsFiniteSet(I) /\ m \in Nat /\ m <= n
  BY <1>1, FS_Subset, FS_CardinalityType
<1> HIDE DEF m
<1>3. \A i : Rank(I, i) = Cardinality(Up(i)) /\ Up(i) \in SUBSET I
  BY DEF Rank
<1>4. \A i : IsFiniteSet(Up(i)) /\ Cardinality(Up(i)) \in Nat /\ Cardinality(Up(i)) <= m
  BY <1>2, <1>3, FS_Subset, FS_CardinalityType DEF m
<1>5. ASSUME NEW i \in I
      PROVE  Rank(I, i) \in 1 .. m
  <2>1. i \in Up(i)
    OBVIOUS
  <2> HIDE DEF Up
  <2>2. Cardinality(Up(i)) # 0
    BY <1>4, <2>1, FS_EmptySet
  <2> QED BY <1>2, <1>3, <1>4, <2>2
<1>6. ASSUME NEW i \in I, NEW j \in I, i < j
      PROVE  Rank(I, i) < Rank(I, j)
  <2>1. Up(i) \in SUBSET Up(j) /\ j \in Up(j) /\ j \notin Up(i)
    <3>1. i \in Int /\ j \in Int /\ \A x \in I : x \in Int
      OBVIOUS
    <3>2. ASSUME NEW x \in I, x <= i
          PROVE  x <= j
      BY <1>6, <3>1, <3>2
    <3>3. ~(j <= i) /\ j <= j
      BY <1>6, <3>1
    <3> QED BY <3>2, <3>3
  <2> HIDE DEF Up
  <2>2. /\ Cardinality(Up(i)) <= Cardinality(Up(j))
        /\ Cardinality(Up(j)) = Cardinality(Up(i)) => Up(j) = Up(i)
    BY <1>4, <2>1, FS_Subset
  <2> QED BY <1>3, <1>4, <2>1, <2>2
<1>7. ASSUME NEW k \in 1 .. m
      PROVE  \E i \in I : Rank(I, i) = k
  <2> DEFINE f == [i \in I |-> Rank(I, i)]
  <2>1. f \in [I -> 1 .. m]
    BY <1>5
  <2>2. \A i, j \in I : f[i] = f[j] => i = j
    <3>1. \A i \in I : i \in Nat /\ Rank(I, i) \in Nat
      BY <1>2, <1>5
    <3> QED BY <1>6, <3>1
  <2>3. f \in Injection(I, 1 .. m)
    BY <2>1, <2>2, Fun_IsInj
  <2>4. IsFiniteSet(1 .. m) /\ Cardinality(1 .. m) = m
    <3>1. Cardinality(1 .. m) = (IF 1 > m THEN 0 ELSE m - 1 + 1) /\ IsFiniteSet(1 .. m)
      BY <1>2, FS_Interval
    <3> QED BY <1>2, <3>1
  <2>5. f \in Surjection(I, 1 .. m)
    BY <2>3, <2>4, FS_Injection DEF m
  <2>6. \E i \in I : f[i] = k
    BY <2>5 DEF Surjection
  <2> QED BY <2>6
<1> QED BY <1>2, <1>5, <1>6, <1>7 DEF m

LEMMA Places ==
  ASSUME NEW n \in Nat, NEW I \in SUBSET (1 .. n)
  PROVE  /\ Cardinality(I) \in 0 .. n
         /\ \A k \in 1 .. Cardinality(I) : Place(I, k) \in I /\ Rank(I, Place(I, k)) = k
         /\ \A i \in I : Rank(I, i) \in 1 .. Cardinality(I) /\ Place(I, Rank(I, i)) = i
         /\ \A k, l \in 1 .. Cardinality(I) : k < l <=> Place(I, k) < Place(I, l)
<1>1. \A k \in 1 .. Cardinality(I) : Place(I, k) \in I /\ Rank(I, Place(I, k)) = k
  BY Ranks DEF Place
<1>2. \A i, j \in I : i \in Nat /\ j \in Nat /\ Rank(I, i) \in Nat /\ Rank(I, j) \in Nat
  BY Ranks
<1>3. \A i, j \in I : i < j <=> Rank(I, i) < Rank(I, j)
  <2>1. \A i, j \in I : i < j => Rank(I, i) < Rank(I, j)
    BY Ranks
  <2> QED BY <1>2, <2>1
<1>4. \A i, j \in I : Rank(I, i) = Rank(I, j) => i = j
  BY <1>2, <1>3
<1>5. Cardinality(I) \in 0 .. n /\ \A i \in I : Rank(I, i) \in 1 .. Cardinality(I)
  BY Ranks
<1>6. \A i \in I : Place(I, Rank(I, i)) = i
  BY <1>1, <1>4, <1>5
<1>7. ASSUME NEW k \in 1 .. Cardinality(I), NEW l \in 1 .. Cardinality(I)
      PROVE  k < l <=> Place(I, k) < Place(I, l)
  <2>1. Place(I, k) \in I /\ Place(I, l) \in I /\ Rank(I, Place(I, k)) = k /\ Rank(I, Place(I, l)) = l
    BY <1>1
  <2>2. Place(I, k) < Place(I, l) <=> Rank(I, Place(I, k)) < Rank(I, Place(I, l))
    BY <1>3, <2>1
  <2> QED BY <2>1, <2>2, Zenon
<1> QED BY <1>1, <1>5, <1>6, <1>7

LEMMA PickedFacts ==
  ASSUME NEW S, NEW s \in Seq(S), NEW I \in SUBSET DOMAIN s
  PROVE  /\ Picked(s, I) \in Seq(S) /\ DOMAIN Picked(s, I) = 1 .. Cardinality(I)
         /\ Len(Picked(s, I)) = Cardinality(I) /\ Cardinality(I) \in Nat
         /\ \A k \in 1 .. Cardinality(I) : Picked(s, I)[k] = s[Place(I, k)] /\ Place(I, k) \in I
         /\ \A k, l \in 1 .. Cardinality(I) : Place(I, k) = Place(I, l) => k = l
         /\ \A i \in I : \E k \in 1 .. Cardinality(I) : Place(I, k) = i
<1>1. Len(s) \in Nat /\ DOMAIN s = 1 .. Len(s) /\ \A i \in DOMAIN s : s[i] \in S
  BY LenProperties, ElementOfSeq
<1>2. /\ Cardinality(I) \in Nat
      /\ \A k \in 1 .. Cardinality(I) : Place(I, k) \in I /\ Place(I, k) \in DOMAIN s
      /\ \A i \in I : Rank(I, i) \in 1 .. Cardinality(I) /\ Place(I, Rank(I, i)) = i
      /\ \A k \in 1 .. Cardinality(I) : Rank(I, Place(I, k)) = k
  BY <1>1, Places
<1> DEFINE t == Picked(s, I)
           m == Cardinality(I)
<1>3. /\ t = [k \in 1 .. m |-> s[Place(I, k)]] /\ m \in Nat
  BY <1>2 DEF Picked
<1>4. t \in [1 .. m -> S]
  BY <1>1, <1>2, <1>3
<1> HIDE DEF t, m
<1>5. t \in Seq(S) /\ Len(t) = m /\ DOMAIN t = 1 .. m
  BY <1>3, <1>4, LenProperties
<1>6. /\ \A k, l \in 1 .. Cardinality(I) : Place(I, k) = Place(I, l) => k = l
      /\ \A i \in I : \E k \in 1 .. Cardinality(I) : Place(I, k) = i
  BY <1>2
<1> QED BY <1>2, <1>3, <1>5, <1>6 DEF t, m

LEMMA PlacesCount ==
  ASSUME NEW n \in Nat, NEW I \in SUBSET (1 .. n), NEW A \in SUBSET (1 .. Cardinality(I)), NEW B,
         \A k \in A : Place(I, k) \in B,
         \A b \in B : \E k \in A : b = Place(I, k)
  PROVE  Cardinality(A) = Cardinality(B)
<1> DEFINE f == [k \in A |-> Place(I, k)]
<1>1. Cardinality(I) \in Int
  BY Places
<1>2. IsFiniteSet(A)
  <2>1. IsFiniteSet(1 .. Cardinality(I))
    BY <1>1, FS_Interval
  <2> QED BY <2>1, FS_Subset
<1>3. f \in [A -> B] /\ \A b \in B : \E k \in A : f[k] = b
  OBVIOUS
<1>4. ASSUME NEW k \in A, NEW l \in A, f[k] = f[l]
      PROVE  k = l
  <2>1. Rank(I, Place(I, k)) = k /\ Rank(I, Place(I, l)) = l
    BY Places
  <2> QED BY <1>4, <2>1
<1> HIDE DEF f
<1>5. f \in Surjection(A, B)
  BY <1>3, Fun_IsSurj
<1>6. f \in Injection(A, B)
  BY <1>3, <1>4, Fun_IsInj
<1> QED BY <1>2, <1>5, <1>6, FS_Surjection

LEMMA PickedAgain ==
  ASSUME NEW S, NEW s \in Seq(S), NEW I \in SUBSET DOMAIN s, NEW J \in SUBSET I,
         NEW t, NEW K \in SUBSET (1 .. Cardinality(I)),
         \A k \in 1 .. Cardinality(I) : k \in K <=> Place(I, k) \in J,
         \A k \in 1 .. Cardinality(I) : t[k] = s[Place(I, k)]
  PROVE  Picked(t, K) = Picked(s, J)
<1> DEFINE n == Len(s)
           m == Cardinality(I)
<1>1. n \in Nat /\ I \in SUBSET (1 .. n) /\ J \in SUBSET (1 .. n)
  BY LenProperties
<1> HIDE DEF n
<1>2. /\ m \in Nat /\ K \in SUBSET (1 .. m)
      /\ \A k \in 1 .. m : Place(I, k) \in I
      /\ \A i \in I : Rank(I, i) \in 1 .. m /\ Place(I, Rank(I, i)) = i
      /\ \A k, l \in 1 .. m : k < l <=> Place(I, k) < Place(I, l)
  BY <1>1, Places
<1> HIDE DEF m
<1>3. J = {Place(I, k) : k \in K}
  BY <1>2 DEF m
<1>4. Cardinality(K) = Cardinality(J)
  <2>1. /\ \A k \in K : Place(I, k) \in J
        /\ \A j \in J : \E k \in K : j = Place(I, k)
    BY <1>3
  <2>2. K \in SUBSET (1 .. Cardinality(I))
    OBVIOUS
  <2> QED BY <1>1, <2>1, <2>2, PlacesCount, ZenonT(30)
<1>5. ASSUME NEW k \in K
      PROVE  Rank(K, k) = Rank(J, Place(I, k))
  <2> DEFINE A == {l \in K : l <= k}
             B == {j \in J : j <= Place(I, k)}
  <2>1. \A l \in K : l <= k <=> Place(I, l) <= Place(I, k)
    <3>1. \A l \in 1 .. m : l \in Int /\ Place(I, l) \in Int
      BY <1>1, <1>2, SMTT(30)
    <3>2. ASSUME NEW l \in K
          PROVE  l <= k <=> Place(I, l) <= Place(I, k)
      <4>1. k < l <=> Place(I, k) < Place(I, l)
        BY <1>2
      <4>2. l \in Int /\ k \in Int /\ Place(I, l) \in Int /\ Place(I, k) \in Int
        BY <1>2, <3>1
      <4> DEFINE x == Place(I, k)
                 y == Place(I, l)
      <4>3. (k < l <=> x < y) /\ x \in Int /\ y \in Int
        BY <4>1, <4>2
      <4> HIDE DEF x, y
      <4>4. l <= k <=> y <= x
        BY <4>2, <4>3
      <4> QED BY <4>4 DEF x, y
    <3> QED BY <3>2
  <2>2. /\ \A l \in A : Place(I, l) \in B
        /\ \A j \in B : \E l \in A : j = Place(I, l)
    <3>1. ASSUME NEW j \in B
          PROVE  \E l \in A : j = Place(I, l)
      <4>1. PICK l \in K : j = Place(I, l)
        BY <1>3
      <4> QED BY <2>1, <4>1
    <3>2. ASSUME NEW l \in A
          PROVE  Place(I, l) \in B
      BY <1>3, <2>1
    <3> HIDE DEF A, B
    <3> QED BY <3>1, <3>2
  <2>3. A \in SUBSET (1 .. Cardinality(I))
    BY <1>2 DEF m
  <2>4. Rank(K, k) = Cardinality(A) /\ Rank(J, Place(I, k)) = Cardinality(B)
    BY DEF Rank
  <2> HIDE DEF A, B
  <2>5. Cardinality(A) = Cardinality(B)
    BY <1>1, <2>2, <2>3, PlacesCount, ZenonT(30)
  <2> QED BY <2>4, <2>5
<1>6. ASSUME NEW p \in 1 .. Cardinality(K)
      PROVE  t[Place(K, p)] = s[Place(J, p)]
  <2>1. Place(K, p) \in K /\ Rank(K, Place(K, p)) = p
    BY <1>2, Places
  <2> DEFINE k == Place(K, p)
             j == Place(I, k)
  <2>2. k \in K /\ Rank(K, k) = p
    BY <2>1
  <2> HIDE DEF k
  <2>3. j \in J /\ Rank(J, j) = p
    BY <1>3, <1>5, <2>2
  <2>4. Place(J, Rank(J, j)) = j
    BY <1>1, <2>3, Places
  <2>5. t[k] = s[j]
    BY <1>2, <2>2 DEF m
  <2> QED BY <2>3, <2>4, <2>5 DEF k
<1> QED BY <1>4, <1>6 DEF Picked
-----------------------------------------------------------------------------
(* The settings: the active connection is saved and not joined, the joined   *)
(* ones are saved, and no id is saved or joined twice.                       *)

SettingsShape ==
  [enabled : BOOLEAN, active : Ids, joined : Seq(Ids), connections : Seq(Connections)]

Saved(s, id) == \E i \in DOMAIN s.connections : s.connections[i].id = id

WellFormed(s) ==
  /\ s \in SettingsShape
  /\ Saved(s, s.active)
  /\ \A j \in DOMAIN s.joined : s.joined[j] # s.active /\ Saved(s, s.joined[j])
  /\ \A j, k \in DOMAIN s.joined : s.joined[j] = s.joined[k] => j = k
  /\ \A i, j \in DOMAIN s.connections : s.connections[i].id = s.connections[j].id => i = j

LEMMA WithoutFacts ==
  ASSUME NEW S, NEW s \in Seq(S), NEW x,
         \A i, j \in DOMAIN s : s[i] = s[j] => i = j
  PROVE  /\ Without(s, x) \in Seq(S)
         /\ \A k \in DOMAIN Without(s, x) :
              Without(s, x)[k] # x /\ \E i \in DOMAIN s : Without(s, x)[k] = s[i]
         /\ \A k, l \in DOMAIN Without(s, x) : Without(s, x)[k] = Without(s, x)[l] => k = l
<1> DEFINE I == {i \in DOMAIN s : s[i] # x}
<1>1. I \in SUBSET DOMAIN s /\ (\A i \in I : s[i] # x) /\ Without(s, x) = Picked(s, I)
  BY DEF Without
<1> HIDE DEF I
<1> QED BY <1>1, PickedFacts

LEMMA OthersFacts ==
  ASSUME WellFormed(settings), NEW id
  PROVE  /\ Others(id) \in Seq(Connections)
         /\ \A k \in DOMAIN Others(id) :
              /\ Others(id)[k].id # id
              /\ \E i \in DOMAIN settings.connections : Others(id)[k] = settings.connections[i]
         /\ \A i \in DOMAIN settings.connections :
              settings.connections[i].id # id =>
                \E k \in DOMAIN Others(id) : Others(id)[k] = settings.connections[i]
         /\ \A k, l \in DOMAIN Others(id) : Others(id)[k].id = Others(id)[l].id => k = l
<1> DEFINE s == settings.connections
           I == {i \in DOMAIN s : s[i].id # id}
<1>1. /\ s \in Seq(Connections) /\ I \in SUBSET DOMAIN s
      /\ \A i \in DOMAIN s : i \in I <=> s[i].id # id
      /\ Others(id) = Picked(s, I)
      /\ \A i, j \in DOMAIN s : s[i].id = s[j].id => i = j
  BY DEF Others, WellFormed, SettingsShape
<1> HIDE DEF s, I
<1>2. /\ Picked(s, I) \in Seq(Connections) /\ DOMAIN Picked(s, I) = 1 .. Cardinality(I)
      /\ \A k \in 1 .. Cardinality(I) : Picked(s, I)[k] = s[Place(I, k)] /\ Place(I, k) \in I
      /\ \A k, l \in 1 .. Cardinality(I) : Place(I, k) = Place(I, l) => k = l
      /\ \A i \in I : \E k \in 1 .. Cardinality(I) : Place(I, k) = i
  BY <1>1, PickedFacts
<1>3. \A k, l \in DOMAIN Others(id) : Others(id)[k].id = Others(id)[l].id => k = l
  BY <1>1, <1>2
<1>4. \A k \in DOMAIN Others(id) : Others(id)[k].id # id /\ \E i \in DOMAIN s : Others(id)[k] = s[i]
  BY <1>1, <1>2
<1>5. \A i \in DOMAIN s : s[i].id # id => \E k \in DOMAIN Others(id) : Others(id)[k] = s[i]
  BY <1>1, <1>2
<1> QED BY <1>1, <1>2, <1>3, <1>4, <1>5 DEF s

(* Adding or replacing a connection.                                         *)
LEMMA WithFacts ==
  ASSUME WellFormed(settings), NEW c \in Connections
  PROVE  /\ WellFormed(With(c)) /\ Saved(With(c), c.id)
         /\ With(c).enabled = settings.enabled /\ With(c).active = settings.active
         /\ With(c).joined = settings.joined
         /\ With(c).connections = Append(Others(c.id), c)
         /\ \A d : d.id # c.id =>
              (d \in ToSet(With(c).connections) <=> d \in ToSet(settings.connections))
<1> DEFINE o == Others(c.id)
           t == Append(o, c)
           n == Len(o) + 1
           w == With(c)
<1>1. /\ o \in Seq(Connections)
      /\ \A k \in DOMAIN o : /\ o[k].id # c.id
                             /\ \E i \in DOMAIN settings.connections : o[k] = settings.connections[i]
      /\ \A i \in DOMAIN settings.connections :
           settings.connections[i].id # c.id => \E k \in DOMAIN o : o[k] = settings.connections[i]
      /\ \A k, l \in DOMAIN o : o[k].id = o[l].id => k = l
  BY OthersFacts
<1>2. w = [enabled |-> settings.enabled, active |-> settings.active, joined |-> settings.joined,
           connections |-> t]
  <2>1. settings \in SettingsShape
    BY DEF WellFormed
  <2>2. w = [settings EXCEPT !.connections = t]
    BY DEF With
  <2> HIDE DEF t, w
  <2> QED BY <2>1, <2>2 DEF SettingsShape
<1> HIDE DEF o, w
<1>3. /\ t \in Seq(Connections) /\ DOMAIN t = 1 .. n /\ DOMAIN o = 1 .. (n - 1) /\ n \in Nat \ {0}
      /\ t[n] = c /\ \A k \in DOMAIN o : t[k] = o[k]
  BY <1>1, AppendProperties, LenProperties
<1> HIDE DEF t, n
<1>4. \A k \in DOMAIN t : (k \in DOMAIN o /\ t[k] = o[k]) \/ (k = n /\ t[k] = c)
  BY <1>3
<1>5. \A k \in DOMAIN o : k \in DOMAIN t /\ t[k] = o[k]
  BY <1>3
<1>6. n \in DOMAIN t
  BY <1>3
<1>7. ASSUME NEW id, Saved(settings, id)
      PROVE  Saved(w, id)
  BY <1>1, <1>2, <1>3, <1>5, <1>6, <1>7 DEF Saved
<1>8. Saved(w, c.id)
  BY <1>2, <1>3, <1>6 DEF Saved
<1>9. \A i, j \in DOMAIN t : t[i].id = t[j].id => i = j
  BY <1>1, <1>3, <1>4
<1>10. WellFormed(w)
  <2>1. w \in SettingsShape
    BY <1>2, <1>3 DEF WellFormed, SettingsShape
  <2> QED BY <1>2, <1>7, <1>9, <2>1 DEF WellFormed
<1>11. ASSUME NEW d, d.id # c.id
       PROVE  d \in ToSet(t) <=> d \in ToSet(settings.connections)
  <2>1. d \in ToSet(t) <=> \E k \in DOMAIN t : d = t[k]
    BY DEF ToSet
  <2>2. d \in ToSet(settings.connections) <=> \E i \in DOMAIN settings.connections : d = settings.connections[i]
    BY DEF ToSet
  <2> QED BY <1>1, <1>4, <1>5, <1>11, <2>1, <2>2
<1> QED BY <1>2, <1>8, <1>10, <1>11 DEF w, t, o

LEMMA JoinFromGood ==
  ASSUME NEW s, WellFormed(s), NEW id \in Ids, Saved(s, id), JoinFrom(s, id)
  PROVE  WellFormed(settings')
<1>1. s \in SettingsShape
  BY DEF WellFormed
<1>2. CASE ~s.enabled
  <2>1. settings' = [enabled |-> TRUE, active |-> id, joined |-> <<>>, connections |-> s.connections]
    BY <1>1, <1>2 DEF JoinFrom, Commit, SettingsShape
  <2>2. <<>> \in Seq(Ids) /\ DOMAIN <<>> = {}
    OBVIOUS
  <2>3. settings' \in SettingsShape /\ DOMAIN settings'.joined = {}
    BY <1>1, <2>1, <2>2 DEF SettingsShape
  <2> QED BY <2>1, <2>3 DEF WellFormed, Saved
<1>3. CASE s.enabled
  <2> DEFINE j == s.joined
             t == Append(j, id)
             n == Len(j) + 1
  <2>1. /\ id # s.active /\ id \notin ToSet(j)
        /\ settings' = [enabled |-> s.enabled, active |-> s.active, joined |-> t,
                        connections |-> s.connections]
    BY <1>1, <1>3 DEF JoinFrom, Commit, SettingsShape
  <2>2. j \in Seq(Ids)
    BY <1>1 DEF SettingsShape
  <2> HIDE DEF j
  <2>3. /\ t \in Seq(Ids) /\ DOMAIN t = 1 .. n /\ DOMAIN j = 1 .. (n - 1) /\ n \in Nat \ {0}
        /\ t[n] = id /\ \A k \in DOMAIN j : t[k] = j[k]
    BY <2>2, AppendProperties, LenProperties
  <2>4. \A k \in DOMAIN j : j[k] # id
    BY <2>1 DEF ToSet
  <2> HIDE DEF t, n
  <2>5. \A k \in DOMAIN t : (k \in DOMAIN j /\ t[k] = j[k]) \/ (k = n /\ t[k] = id)
    BY <2>3
  <2>6. settings' \in SettingsShape
    BY <1>1, <2>1, <2>3 DEF SettingsShape
  <2>7. \A k, l \in DOMAIN t : t[k] = t[l] => k = l
    BY <2>4, <2>5 DEF WellFormed, j
  <2>8. \A k \in DOMAIN t : t[k] # s.active /\ Saved(s, t[k])
    BY <2>1, <2>5 DEF WellFormed, j
  <2>9. \A x : Saved(s, x) => Saved(settings', x)
    BY <2>1 DEF Saved
  <2> QED BY <2>1, <2>6, <2>7, <2>8, <2>9 DEF WellFormed
<1> QED BY <1>2, <1>3

(* A call adds a run or leaves runs and engine alone.                        *)
LEMMA CallApplies ==
  ASSUME Call
  PROVE  \/ ApplyLink
         \/ UNCHANGED <<runs, applying, engine, procs, forked>>
<1>1. ASSUME NEW s, NEW id, JoinFrom(s, id) PROVE ApplyLink
  BY <1>1 DEF JoinFrom, Commit
<1>2. ASSUME NEW on \in BOOLEAN, SetEnabled(on) PROVE ApplyLink
  BY <1>2 DEF SetEnabled, Commit
<1>3. ASSUME NEW id \in Ids, SetActive(id) \/ Join(id) \/ Leave(id) \/ RemoveConnection(id)
      PROVE  ApplyLink
  <2>1. CASE SetActive(id)
    BY <2>1 DEF SetActive, Commit
  <2>2. CASE Join(id)
    BY <1>1, <2>2 DEF Join
  <2>3. CASE Leave(id)
    BY <2>3 DEF Leave, Commit
  <2>4. CASE RemoveConnection(id)
    BY <2>4 DEF RemoveConnection, Commit
  <2> QED BY <1>3, <2>1, <2>2, <2>3, <2>4
<1>4. ASSUME NEW c \in Connections, UpsertJoin(c)
      PROVE  ApplyLink \/ UNCHANGED <<runs, applying, engine, procs, forked>>
  BY <1>1, <1>4 DEF UpsertJoin
<1>5. ASSUME NEW c \in Connections, NEW activate \in BOOLEAN, Upsert(c, activate)
      PROVE  ApplyLink
  BY <1>5 DEF Upsert, Commit
<1>6. ASSUME NEW l, SetExtraLinks(l) PROVE ApplyLink
  BY <1>6 DEF SetExtraLinks
<1> QED BY <1>2, <1>3, <1>4, <1>5, <1>6 DEF Call

(* Making the saved connection id the only one in use.                       *)
LEMMA ActivateGood ==
  ASSUME NEW s, WellFormed(s), NEW id \in Ids, Saved(s, id),
         NEW w, w = [s EXCEPT !.active = id, !.joined = <<>>, !.enabled = TRUE]
  PROVE  WellFormed(w)
<1>1. s \in SettingsShape
  BY DEF WellFormed
<1>2. w = [enabled |-> TRUE, active |-> id, joined |-> <<>>, connections |-> s.connections]
  BY <1>1 DEF SettingsShape
<1>3. s.connections \in Seq(Connections) /\ <<>> \in Seq(Ids)
  BY <1>1 DEF SettingsShape
<1>4. w \in SettingsShape
  BY <1>2, <1>3, Zenon DEF SettingsShape
<1>5. DOMAIN w.joined = {} /\ w.active = id /\ w.connections = s.connections
  BY <1>2
<1>6. \A k, l \in DOMAIN s.connections : s.connections[k].id = s.connections[l].id => k = l
  BY DEF WellFormed
<1> QED BY <1>4, <1>5, <1>6 DEF WellFormed, Saved

LEMMA LeaveGood ==
  ASSUME WellFormed(settings), NEW id \in Ids, Leave(id)
  PROVE  WellFormed(settings')
<1> DEFINE s == settings
           j == s.joined
<1>1. /\ s = [enabled |-> s.enabled, active |-> s.active, joined |-> j, connections |-> s.connections]
      /\ s.enabled \in BOOLEAN /\ s.active \in Ids /\ j \in Seq(Ids)
      /\ s.connections \in Seq(Connections)
  BY DEF WellFormed, SettingsShape
<1>2. \/ settings' = [s EXCEPT !.enabled = FALSE]
      \/ j # <<>> /\ settings' = [s EXCEPT !.active = Head(j), !.joined = Tail(j)]
      \/ settings' = [s EXCEPT !.joined = Without(j, id)]
  BY DEF Leave, Commit
<1>3. /\ Saved(s, s.active)
      /\ \A k \in DOMAIN j : j[k] # s.active /\ Saved(s, j[k])
      /\ \A k, l \in DOMAIN j : j[k] = j[l] => k = l
      /\ \A k, l \in DOMAIN s.connections : s.connections[k].id = s.connections[l].id => k = l
  BY DEF WellFormed
<1> HIDE DEF s, j
<1>4. CASE settings' = [s EXCEPT !.enabled = FALSE]
  <2>1. settings' = [enabled |-> FALSE, active |-> s.active, joined |-> j, connections |-> s.connections]
    <3>1. s \in SettingsShape
      BY DEF WellFormed, s
    <3> QED BY <1>4, <3>1 DEF SettingsShape, j
  <2>2. settings' \in SettingsShape
    BY <1>1, <2>1 DEF SettingsShape
  <2> QED BY <1>3, <2>1, <2>2 DEF WellFormed, Saved
<1>5. CASE j # <<>> /\ settings' = [s EXCEPT !.active = Head(j), !.joined = Tail(j)]
  <2> DEFINE t == Tail(j)
             a == Head(j)
             n == Len(j)
  <2>1. settings' = [enabled |-> s.enabled, active |-> a, joined |-> t, connections |-> s.connections]
    <3> HIDE DEF a, t
    <3> QED BY <1>1, <1>5 DEF a, t
  <2>2. n \in Nat \ {0} /\ DOMAIN j = 1 .. n /\ 1 \in DOMAIN j
    BY <1>1, <1>5, LenProperties, EmptySeq
  <2>3. a = j[1] /\ a \in Ids
    BY <1>1, <1>5, <2>2, ElementOfSeq
  <2>4. t \in Seq(Ids) /\ DOMAIN t = 1 .. (n - 1)
    BY <1>1, <1>5, <2>2, LenProperties, HeadTailProperties
  <2>5. \A k \in DOMAIN t : t[k] = j[k + 1] /\ k + 1 \in DOMAIN j /\ k + 1 # 1
    BY <1>1, <1>5, <2>2, <2>4
  <2> HIDE DEF t, a, n
  <2>6. settings' \in SettingsShape
    BY <1>1, <2>1, <2>3, <2>4 DEF SettingsShape
  <2>7. \A k \in DOMAIN t : t[k] # a /\ Saved(s, t[k])
    BY <1>3, <2>2, <2>3, <2>5
  <2>8. \A k, l \in DOMAIN t : t[k] = t[l] => k = l
    <3>1. ASSUME NEW k \in DOMAIN t, NEW l \in DOMAIN t, t[k] = t[l]
          PROVE  k = l
      <4>1. k + 1 = l + 1
        BY <1>3, <2>5, <3>1
      <4>2. k \in Int /\ l \in Int
        BY <2>2, <2>4
      <4> QED BY <4>1, <4>2
    <3> QED BY <3>1
  <2>9. Saved(s, a)
    BY <1>3, <2>2, <2>3
  <2>10. \A x : Saved(s, x) => Saved(settings', x)
    BY <2>1 DEF Saved
  <2> QED BY <1>3, <2>1, <2>6, <2>7, <2>8, <2>9, <2>10 DEF WellFormed
<1>6. CASE settings' = [s EXCEPT !.joined = Without(j, id)]
  <2> DEFINE t == Without(j, id)
  <2>1. /\ t \in Seq(Ids)
        /\ \A k \in DOMAIN t : \E i \in DOMAIN j : t[k] = j[i]
        /\ \A k, l \in DOMAIN t : t[k] = t[l] => k = l
    BY <1>1, <1>3, WithoutFacts
  <2> HIDE DEF t
  <2>2. settings' = [enabled |-> s.enabled, active |-> s.active, joined |-> t, connections |-> s.connections]
    BY <1>1, <1>6 DEF t
  <2>3. settings' \in SettingsShape
    BY <1>1, <2>1, <2>2 DEF SettingsShape
  <2>4. \A k \in DOMAIN t : t[k] # s.active /\ Saved(s, t[k])
    BY <1>3, <2>1
  <2>5. \A x : Saved(s, x) => Saved(settings', x)
    BY <2>2 DEF Saved
  <2> QED BY <1>3, <2>1, <2>2, <2>3, <2>4, <2>5 DEF WellFormed
<1> QED BY <1>2, <1>4, <1>5, <1>6

LEMMA RemoveGood ==
  ASSUME WellFormed(settings), NEW id \in Ids, RemoveConnection(id)
  PROVE  WellFormed(settings')
<1> DEFINE s == settings
           j == s.joined
           o == Others(id)
           a == IF s.active = id THEN Head(o).id ELSE s.active
           t == Without(Without(j, id), a)
<1>1. /\ s = [enabled |-> s.enabled, active |-> s.active, joined |-> j, connections |-> s.connections]
      /\ s.enabled \in BOOLEAN /\ s.active \in Ids /\ j \in Seq(Ids)
      /\ Saved(s, s.active)
      /\ \A k \in DOMAIN j : j[k] # s.active /\ Saved(s, j[k])
      /\ \A k, l \in DOMAIN j : j[k] = j[l] => k = l
  BY DEF WellFormed, SettingsShape
<1>2. o # <<>> /\ settings' = [s EXCEPT !.connections = o, !.active = a, !.joined = t]
  BY DEF RemoveConnection, Commit
<1>3. /\ o \in Seq(Connections)
      /\ \A i \in DOMAIN s.connections :
           s.connections[i].id # id => \E k \in DOMAIN o : o[k] = s.connections[i]
      /\ \A k, l \in DOMAIN o : o[k].id = o[l].id => k = l
  BY OthersFacts
<1>4. /\ t \in Seq(Ids)
      /\ \A k \in DOMAIN t : t[k] # a /\ t[k] # id /\ \E i \in DOMAIN j : t[k] = j[i]
      /\ \A k, l \in DOMAIN t : t[k] = t[l] => k = l
  <2> DEFINE u == Without(j, id)
  <2>1. /\ u \in Seq(Ids)
        /\ \A k \in DOMAIN u : u[k] # id /\ \E i \in DOMAIN j : u[k] = j[i]
        /\ \A k, l \in DOMAIN u : u[k] = u[l] => k = l
    BY <1>1, WithoutFacts
  <2> HIDE DEF u, a, j
  <2>2. /\ Without(u, a) \in Seq(Ids)
        /\ \A k \in DOMAIN Without(u, a) :
             Without(u, a)[k] # a /\ \E i \in DOMAIN u : Without(u, a)[k] = u[i]
        /\ \A k, l \in DOMAIN Without(u, a) : Without(u, a)[k] = Without(u, a)[l] => k = l
    BY <2>1, WithoutFacts
  <2> DEFINE v == Without(u, a)
  <2>3. v = t
    BY DEF u
  <2> HIDE DEF v, t
  <2> QED BY <2>1, <2>2, <2>3 DEF v
<1> HIDE DEF s, j, o, t
<1>5. \A x : Saved(s, x) /\ x # id => \E k \in DOMAIN o : o[k].id = x
  BY <1>3 DEF Saved
<1>6. a \in Ids /\ \E k \in DOMAIN o : o[k].id = a
  <2>1. CASE s.active = id
    <3>1. 1 \in DOMAIN o /\ Head(o) = o[1] /\ o[1] \in Connections
      BY <1>2, <1>3, LenProperties, EmptySeq, ElementOfSeq
    <3> QED BY <2>1, <3>1 DEF Connections
  <2>2. CASE s.active # id
    BY <1>1, <1>5, <2>2
  <2> QED BY <2>1, <2>2
<1> HIDE DEF a
<1>7. settings' = [enabled |-> s.enabled, active |-> a, joined |-> t, connections |-> o]
  BY <1>1, <1>2
<1>8. settings' \in SettingsShape
  BY <1>1, <1>3, <1>4, <1>6, <1>7 DEF SettingsShape
<1>9. \A x : (\E k \in DOMAIN o : o[k].id = x) => Saved(settings', x)
  BY <1>7 DEF Saved
<1>10. \A k \in DOMAIN t : t[k] # a /\ Saved(settings', t[k])
  BY <1>1, <1>4, <1>5, <1>9
<1> QED BY <1>3, <1>4, <1>6, <1>7, <1>8, <1>9, <1>10 DEF WellFormed

(* No call spoils the settings.                                              *)
LEMMA CallSettings ==
  ASSUME WellFormed(settings), Call
  PROVE  WellFormed(settings')
<1>1. ASSUME NEW on \in BOOLEAN, SetEnabled(on)
      PROVE  WellFormed(settings')
  <2> DEFINE s == settings
  <2>1. settings' = [enabled |-> on, active |-> s.active, joined |-> s.joined, connections |-> s.connections]
    BY <1>1 DEF SetEnabled, Commit, WellFormed, SettingsShape
  <2>2. settings' \in SettingsShape
    BY <1>1, <2>1 DEF WellFormed, SettingsShape
  <2> QED BY <2>1, <2>2 DEF WellFormed, Saved
<1>2. ASSUME NEW id \in Ids, SetActive(id)
      PROVE  WellFormed(settings')
  BY <1>2, ActivateGood DEF SetActive, Commit, Has, Saved
<1>3. ASSUME NEW id \in Ids, Join(id)
      PROVE  WellFormed(settings')
  BY <1>3, JoinFromGood DEF Join, Has, Saved
<1>4. ASSUME NEW c \in Connections, UpsertJoin(c)
      PROVE  WellFormed(settings')
  <2>1. WellFormed(With(c)) /\ Saved(With(c), c.id) /\ c.id \in Ids
    BY WithFacts DEF Connections
  <2>2. settings' = With(c) \/ JoinFrom(With(c), c.id)
    BY <1>4 DEF UpsertJoin
  <2> QED BY <2>1, <2>2, JoinFromGood
<1>5. ASSUME NEW c \in Connections, NEW activate \in BOOLEAN, Upsert(c, activate)
      PROVE  WellFormed(settings')
  <2>1. WellFormed(With(c)) /\ Saved(With(c), c.id) /\ c.id \in Ids
    BY WithFacts DEF Connections
  <2>2. \/ settings' = With(c)
        \/ settings' = [With(c) EXCEPT !.active = c.id, !.joined = <<>>, !.enabled = TRUE]
    BY <1>5 DEF Upsert, Commit
  <2> QED BY <2>1, <2>2, ActivateGood
<1>6. ASSUME NEW l, SetExtraLinks(l)
      PROVE  WellFormed(settings')
  BY <1>6 DEF SetExtraLinks
<1> QED BY <1>1, <1>2, <1>3, <1>4, <1>5, <1>6, LeaveGood, RemoveGood DEF Call

(* The runs are a sequence, and the last promise is one of theirs.           *)
SettingsInv ==
  /\ WellFormed(settings)
  /\ known \in {"safe", "armed"}
  /\ \E S : runs \in Seq(S)
  /\ applying \in {None} \cup DOMAIN runs

LEMMA SettingsSame ==
  ASSUME NEW S, NEW s \in Seq(S), NEW f, f = [r \in DOMAIN s |-> f[r]]
  PROVE  (\E T : f \in Seq(T)) /\ DOMAIN f = DOMAIN s
<1>1. Len(s) \in Nat /\ DOMAIN s = 1 .. Len(s)
  BY LenProperties
<1>2. f \in Seq({f[r] : r \in 1 .. Len(s)})
  BY <1>1
<1> QED BY <1>1, <1>2

LEMMA SettingsInitGood == Init => SettingsInv
<1> SUFFICES ASSUME Init PROVE SettingsInv
  OBVIOUS
<1> DEFINE first == [pc |-> "ready", prev |-> None, links |-> <<>>, awaits |-> None]
<1>1. PICK c \in Connections, on \in BOOLEAN :
        settings = [enabled |-> on, active |-> c.id, joined |-> <<>>, connections |-> <<c>>]
  BY DEF Init
<1>2. <<c>> \in Seq(Connections) /\ DOMAIN <<c>> = {1} /\ <<c>>[1] = c /\ c.id \in Ids
      /\ <<>> \in Seq(Ids)
  BY DEF Connections
<1>3. settings \in SettingsShape /\ DOMAIN settings.joined = {}
  BY <1>1, <1>2 DEF SettingsShape
<1>4. WellFormed(settings)
  BY <1>1, <1>2, <1>3 DEF WellFormed, Saved
<1>5. runs = <<first>> /\ applying = 1 /\ known = "safe"
  BY DEF Init
<1>6. runs \in Seq({first}) /\ DOMAIN runs = {1}
  BY <1>5
<1> QED BY <1>4, <1>5, <1>6 DEF SettingsInv

LEMMA SettingsNextGood ==
  ASSUME SettingsInv, [Next]_vars
  PROVE  SettingsInv'
<1>1. PICK S : runs \in Seq(S)
  BY DEF SettingsInv
<1>2. ASSUME ApplyLink
      PROVE  (\E T : runs' \in Seq(T)) /\ applying' \in DOMAIN runs'
  <2> DEFINE run == [pc |-> IF applying = None THEN "ready" ELSE "queued",
                     prev |-> applying, links |-> <<>>, awaits |-> None]
  <2>1. runs' = Append(runs, run) /\ applying' = Len(runs) + 1
    BY <1>2 DEF ApplyLink
  <2> HIDE DEF run
  <2>2. runs \in Seq(S \cup {run})
    BY <1>1
  <2>3. runs' \in Seq(S \cup {run}) /\ Len(runs') = Len(runs) + 1
    BY <2>1, <2>2, AppendProperties
  <2> QED BY <1>1, <2>1, <2>3, LenProperties
<1>3. ASSUME NEW r, NEW open, Finish(r, open)
      PROVE  (\E T : runs' \in Seq(T)) /\ applying' = None
  <2>1. applying' = None /\ (runs' = <<>> \/ runs' = [q \in DOMAIN runs |-> runs'[q]])
    BY <1>3 DEF Finish
  <2>2. <<>> \in Seq({})
    OBVIOUS
  <2> QED BY <1>1, <2>1, <2>2, SettingsSame
<1>4. ASSUME runs' = [q \in DOMAIN runs |-> runs'[q]], UNCHANGED applying
      PROVE  (\E T : runs' \in Seq(T)) /\ applying' \in {None} \cup DOMAIN runs'
  BY <1>1, <1>4, SettingsSame DEF SettingsInv
<1>5. ASSUME UNCHANGED <<settings, runs, applying>>, known' \in {"safe", "armed"}
      PROVE  SettingsInv'
  BY <1>5 DEF SettingsInv
<1>6. ASSUME UNCHANGED settings, known' \in {"safe", "armed"},
             \E T : runs' \in Seq(T), applying' \in {None} \cup DOMAIN runs'
      PROVE  SettingsInv'
  BY <1>6 DEF SettingsInv
<1>7. known \in {"safe", "armed"}
  BY DEF SettingsInv
<1>8. ASSUME NEW r \in DOMAIN runs, Start(r)
      PROVE  SettingsInv'
  <2>1. settings' = settings /\ known' = "safe"
    BY <1>8 DEF Start
  <2>2. CASE \E open : Finish(r, open)
    BY <1>3, <1>6, <2>1, <2>2
  <2>3. CASE UNCHANGED applying /\ runs' = [q \in DOMAIN runs |-> runs'[q]]
    BY <1>4, <1>6, <2>1, <2>3
  <2>4. \/ \E open : Finish(r, open)
        \/ UNCHANGED applying /\ runs' = [q \in DOMAIN runs |-> runs'[q]]
    <3> DEFINE l == EngineLinks
    <3>1. \/ Finish(r, l # <<>>)
          \/ /\ UNCHANGED applying
             /\ runs' = [runs EXCEPT ![r].pc = "stopping", ![r].links = l, ![r].awaits = engine.child]
      BY <1>8 DEF Start
    <3> HIDE DEF l
    <3> QED BY <1>1, <3>1
  <2> QED BY <2>2, <2>3, <2>4
<1>9. ASSUME NEW r \in DOMAIN runs, Resume(r)
      PROVE  SettingsInv'
  <2>1. UNCHANGED <<settings, known>> /\ \E open : Finish(r, open)
    BY <1>9 DEF Resume
  <2> QED BY <1>3, <1>6, <1>7, <2>1
<1>10. CASE Call
  <2>1. WellFormed(settings')
    BY <1>10, CallSettings DEF SettingsInv
  <2>2. ApplyLink \/ UNCHANGED <<runs, applying, engine, procs, forked>>
    BY <1>10, CallApplies
  <2>3. known' = known
    BY <1>10 DEF Call, SetEnabled, SetActive, Join, JoinFrom, Leave, RemoveConnection, Upsert,
         UpsertJoin, SetExtraLinks, Commit
  <2> QED BY <1>2, <1>7, <2>1, <2>2, <2>3 DEF SettingsInv
<1>11. ASSUME NEW p \in DOMAIN procs, Exit(p)
       PROVE  SettingsInv'
  <2>1. UNCHANGED <<settings, known, applying>> /\ runs' = [q \in DOMAIN runs |-> runs'[q]]
    BY <1>11 DEF Exit
  <2> QED BY <1>4, <1>6, <1>7, <2>1
<1>12. ASSUME NEW p \in DOMAIN procs, Crash(p)
       PROVE  SettingsInv'
  BY <1>5, <1>7, <1>12 DEF Crash
<1>13. CASE Restart
  BY <1>5, <1>7, <1>13 DEF Restart
<1>14. CASE \E state \in {"safe", "armed"} : Heartbeat(state)
  BY <1>5, <1>14 DEF Heartbeat
<1>15. CASE VehicleLost
  BY <1>5, <1>15 DEF VehicleLost
<1>16. CASE UNCHANGED vars
  BY <1>5, <1>7, <1>16 DEF vars
<1> QED BY <1>8, <1>9, <1>10, <1>11, <1>12, <1>13, <1>14, <1>15, <1>16 DEF Next, Microtask

(* While the vehicle is armed no call touches the active connection of an    *)
(* enabled link.                                                             *)
LEMMA CallKeepsActive ==
  ASSUME WellFormed(settings), Call, known = "armed", settings.enabled
  PROVE  Active' = Active /\ settings'.enabled
<1>1. ~SafeToDropLink
  BY DEF SafeToDropLink
<1> DEFINE s == settings
<1>2. s = [enabled |-> s.enabled, active |-> s.active, joined |-> s.joined, connections |-> s.connections]
  BY DEF WellFormed, SettingsShape
<1>3. ASSUME settings'.enabled, settings'.active = s.active,
             \A d : d.id = s.active => (d \in ToSet(settings'.connections) <=> d \in ToSet(s.connections))
      PROVE  Active' = Active /\ settings'.enabled
  BY <1>3 DEF Active
<1>4. ASSUME NEW c \in Connections, c.id \notin InUseIds, settings' = With(c)
      PROVE  Active' = Active /\ settings'.enabled
  <2>1. c.id # s.active
    BY <1>4 DEF InUseIds
  <2> QED BY <1>3, <1>4, <2>1, WithFacts
<1>5. ASSUME NEW on \in BOOLEAN, SetEnabled(on)
      PROVE  Active' = Active /\ settings'.enabled
  <2>1. on = TRUE /\ settings' = [s EXCEPT !.enabled = on]
    BY <1>1, <1>5 DEF SetEnabled, Commit
  <2> QED BY <1>2, <1>3, <2>1
<1>6. ASSUME NEW id \in Ids, SetActive(id)
      PROVE  Active' = Active /\ settings'.enabled
  <2>1. id = s.active /\ settings' = [s EXCEPT !.active = id, !.joined = <<>>, !.enabled = TRUE]
    BY <1>1, <1>6 DEF SetActive, Commit
  <2>2. settings' = [enabled |-> TRUE, active |-> s.active, joined |-> <<>>, connections |-> s.connections]
    BY <1>2, <2>1
  <2> QED BY <1>3, <2>2
<1>7. ASSUME NEW id \in Ids
      PROVE  ~Join(id) /\ ~Leave(id)
  BY <1>1 DEF Join, JoinFrom, Leave
<1>8. ASSUME NEW id \in Ids, RemoveConnection(id)
      PROVE  Active' = Active /\ settings'.enabled
  <2> DEFINE o == Others(id)
             t == Without(Without(s.joined, id), s.active)
  <2>1. id # s.active
    BY <1>1, <1>8 DEF RemoveConnection, InUseIds
  <2>2. settings' = [s EXCEPT !.connections = o, !.active = s.active, !.joined = t]
    BY <1>8, <2>1 DEF RemoveConnection, Commit
  <2> HIDE DEF o, t
  <2>3. settings' = [enabled |-> s.enabled, active |-> s.active, joined |-> t, connections |-> o]
    BY <1>2, <2>2
  <2>4. /\ \A k \in DOMAIN o : \E i \in DOMAIN s.connections : o[k] = s.connections[i]
        /\ \A i \in DOMAIN s.connections :
             s.connections[i].id # id => \E k \in DOMAIN o : o[k] = s.connections[i]
    BY OthersFacts DEF o
  <2>5. ASSUME NEW d, d.id = s.active
        PROVE  d \in ToSet(o) <=> d \in ToSet(s.connections)
    <3>1. d \in ToSet(o) <=> \E k \in DOMAIN o : d = o[k]
      BY DEF ToSet
    <3>2. d \in ToSet(s.connections) <=> \E i \in DOMAIN s.connections : d = s.connections[i]
      BY DEF ToSet
    <3> QED BY <2>1, <2>4, <2>5, <3>1, <3>2
  <2> HIDE DEF s
  <2>6. settings'.enabled /\ settings'.active = s.active /\ settings'.connections = o
    BY <2>3 DEF s
  <2> QED BY <1>3, <2>5, <2>6 DEF s
<1>9. ASSUME NEW c \in Connections, UpsertJoin(c)
      PROVE  Active' = Active /\ settings'.enabled
  <2>1. With(c).enabled
    BY WithFacts
  <2>2. c.id \notin InUseIds /\ settings' = With(c)
    BY <1>1, <1>9, <2>1 DEF UpsertJoin, JoinFrom
  <2> QED BY <1>4, <2>2
<1>10. ASSUME NEW c \in Connections, NEW activate \in BOOLEAN, Upsert(c, activate)
       PROVE  Active' = Active /\ settings'.enabled
  <2>1. c.id \notin InUseIds /\ settings' = With(c)
    BY <1>1, <1>10 DEF Upsert, Commit
  <2> QED BY <1>4, <2>1
<1>11. ASSUME NEW l
       PROVE  ~SetExtraLinks(l)
  BY <1>1 DEF SetExtraLinks
<1> HIDE DEF s
<1> QED BY <1>5, <1>6, <1>7, <1>8, <1>9, <1>10, <1>11 DEF Call

(* The settings stay well formed whatever the order of the calls and however *)
(* many are in flight: the active connection is always saved and never       *)
(* joined, and nothing is saved or joined twice.                             *)
THEOREM LinkTypeCorrect == Spec => []TypeOK
<1>1. Init => SettingsInv
  BY SettingsInitGood
<1>2. SettingsInv /\ [Next]_vars => SettingsInv'
  BY SettingsNextGood
<1>3. SettingsInv => TypeOK
  <2> SUFFICES ASSUME SettingsInv PROVE TypeOK
    OBVIOUS
  <2> DEFINE s == settings
             f == [i \in DOMAIN s.connections |-> s.connections[i].id]
  <2>1. WellFormed(s)
    BY DEF SettingsInv
  <2>2. \A id : Has(id) <=> Saved(s, id)
    BY DEF Has, Saved
  <2>3. \A id \in ToSet(s.joined) : \E k \in DOMAIN s.joined : id = s.joined[k]
    BY DEF ToSet
  <2>4. IsInjective(s.joined)
    BY <2>1 DEF IsInjective, WellFormed
  <2>5. IsInjective(f)
    BY <2>1 DEF IsInjective, WellFormed
  <2>6. s.enabled \in BOOLEAN
    BY <2>1 DEF WellFormed, SettingsShape
  <2>7. Has(s.active) /\ \A id \in ToSet(s.joined) : Has(id) /\ id # s.active
    BY <2>1, <2>2, <2>3 DEF WellFormed
  <2> QED BY <2>4, <2>5, <2>6, <2>7 DEF TypeOK, SettingsInv
<1> QED BY <1>1, <1>2, <1>3, PTL DEF Spec

(* While the vehicle is armed and the link enabled nobody switches it off, or *)
(* to another connection, or edits or removes the active one, however many   *)
(* calls are in flight.                                                      *)
THEOREM ArmedKeepsItsLink == Spec => ArmedKeepsActive
<1>1. Init => SettingsInv
  BY SettingsInitGood
<1>2. SettingsInv /\ [Next]_vars => SettingsInv'
  BY SettingsNextGood
<1>3. SettingsInv /\ [Next]_vars
        => [known = "armed" /\ settings.enabled => Active' = Active /\ settings'.enabled]_vars
  <2> SUFFICES ASSUME SettingsInv, [Next]_vars, known = "armed", settings.enabled
               PROVE  (Active' = Active /\ settings'.enabled) \/ UNCHANGED vars
    OBVIOUS
  <2>1. CASE settings' = settings
    BY <2>1 DEF Active
  <2>2. CASE Call
    BY <2>2, CallKeepsActive DEF SettingsInv
  <2>3. Call \/ settings' = settings
    BY DEF Next, Microtask, Start, Resume, Exit, Crash, Restart, Heartbeat, VehicleLost, vars
  <2> QED BY <2>1, <2>2, <2>3
<1> QED BY <1>1, <1>2, <1>3, PTL DEF Spec, ArmedKeepsActive

-----------------------------------------------------------------------------
(* The inductive invariant.                                                  *)

IsRun(x) == x = [pc |-> x.pc, prev |-> x.prev, links |-> x.links, awaits |-> x.awaits]

Types ==
  /\ \E S : runs \in Seq(S)
  /\ \A r \in DOMAIN runs : IsRun(runs[r])
  /\ engine = [links |-> engine.links, child |-> engine.child, restart |-> engine.restart,
               failed |-> engine.failed]
  /\ procs = [p \in DOMAIN procs |-> procs[p]]

(* The runs are served in order: those before the run c at work are done,    *)
(* those behind it wait, each for the one before.  this.applying is the last *)
(* of them until the first one ends, and nothing after that.                 *)
Working == {"ready", "stopping", "resumed"}

At(c) ==
  /\ \A q \in 1 .. c - 1 : runs[q].pc = "done"
  /\ runs[c].pc \in Working
  /\ \A q \in c + 1 .. Len(runs) : runs[q].pc = "queued" /\ runs[q].prev = q - 1
  /\ applying = IF c = 1 THEN Len(runs) ELSE None

RunsInv ==
  \/ Len(runs) = 0 /\ applying = None
  \/ \E c \in 1 .. Len(runs) : At(c)

Midway == \E r \in DOMAIN runs : runs[r].pc \in {"stopping", "resumed"}

(* The engine process that is alive is the current one, and then no run has  *)
(* stopped it; or the one a run waits for; or there is none.                 *)
EngineInv ==
  \/ /\ engine.child \notin {None, Unborn} /\ DOMAIN procs = {engine.child}
     /\ procs[engine.child] = "running" /\ ~engine.restart /\ ~Midway
  \/ /\ engine.child = None /\ ~engine.restart
     /\ \E r \in DOMAIN runs : /\ runs[r].pc = "stopping"
                               /\ DOMAIN procs = {runs[r].awaits}
                               /\ procs[runs[r].awaits] = "stopping"
  \/ /\ engine.child \in {None, Unborn} /\ DOMAIN procs = {}
     /\ \A r \in DOMAIN runs : runs[r].pc # "stopping"

Serial == Types /\ RunsInv /\ EngineInv

IInv == forked \/ Serial

-----------------------------------------------------------------------------
(* Facts about the data.                                                     *)

LEMMA RunsFacts ==
  ASSUME Types
  PROVE  Len(runs) \in Nat /\ DOMAIN runs = 1 .. Len(runs)
<1>1. PICK S : runs \in Seq(S)
  BY DEF Types
<1> QED BY <1>1, LenProperties

LEMMA RunsSame ==
  ASSUME Types, NEW f, f = [r \in DOMAIN runs |-> f[r]]
  PROVE  /\ \E S : f \in Seq(S)
         /\ Len(f) = Len(runs) /\ DOMAIN f = DOMAIN runs
<1>1. Len(runs) \in Nat /\ DOMAIN runs = 1 .. Len(runs)
  BY RunsFacts
<1>2. f \in Seq({f[r] : r \in 1 .. Len(runs)})
  BY <1>1
<1>3. Len(f) = Len(runs)
  BY <1>1, <1>2, LenProperties
<1> QED BY <1>1, <1>2, <1>3

LEMMA RunStopping ==
  ASSUME NEW x, IsRun(x), NEW l, NEW p
  PROVE  [x EXCEPT !.pc = "stopping", !.links = l, !.awaits = p]
           = [pc |-> "stopping", prev |-> x.prev, links |-> l, awaits |-> p]
<1> DEFINE y == [x EXCEPT !.pc = "stopping"]
           z == [y EXCEPT !.links = l]
           w == [z EXCEPT !.awaits = p]
<1>1. IsRun(y) /\ y.pc = "stopping" /\ y.prev = x.prev
  BY DEF IsRun
<1> HIDE DEF y
<1>2. IsRun(z) /\ z.pc = "stopping" /\ z.prev = x.prev /\ z.links = l
  BY <1>1 DEF IsRun
<1> HIDE DEF z
<1>3. IsRun(w) /\ w.pc = "stopping" /\ w.prev = x.prev /\ w.links = l /\ w.awaits = p
  BY <1>2 DEF IsRun
<1>4. w = [x EXCEPT !.pc = "stopping", !.links = l, !.awaits = p]
  BY DEF y, z
<1> HIDE DEF w
<1> QED BY <1>3, <1>4 DEF IsRun

(* With no engine alive a spawn makes one, or none.                          *)
LEMMA SpawnGood ==
  ASSUME Types, DOMAIN procs = {}, NEW l, NEW c \in {None, Unborn}, Spawn(l, c),
         Types' => ~Midway'
  PROVE  /\ engine' = [links |-> engine'.links, child |-> engine'.child,
                       restart |-> engine'.restart, failed |-> engine'.failed]
         /\ engine'.links = l
         /\ procs' = [p \in DOMAIN procs' |-> procs'[p]]
         /\ Types' => EngineInv'
<1> DEFINE p == CHOOSE n \in 1 .. Cardinality(DOMAIN procs) + 1 : n \notin DOMAIN procs
<1>1. 1 .. Cardinality(DOMAIN procs) + 1 = {1}
  BY FS_EmptySet
<1>2. p = 1
  BY <1>1
<1>3. \/ /\ procs' = [q \in DOMAIN procs \cup {p} |-> IF q = p THEN "running" ELSE procs[q]]
         /\ engine' = [links |-> l, child |-> p, restart |-> FALSE, failed |-> FALSE]
      \/ /\ \E child \in {c, Unborn} :
              engine' = [links |-> l, child |-> child, restart |-> FALSE, failed |-> TRUE]
         /\ UNCHANGED procs
  BY DEF Spawn
<1> HIDE DEF p
<1>4. CASE /\ procs' = [q \in DOMAIN procs \cup {p} |-> IF q = p THEN "running" ELSE procs[q]]
           /\ engine' = [links |-> l, child |-> p, restart |-> FALSE, failed |-> FALSE]
  <2>1. DOMAIN procs' = {1} /\ procs'[1] = "running"
    BY <1>2, <1>4
  <2>2. engine'.child = 1 /\ engine'.child \notin {None, Unborn} /\ ~engine'.restart
    BY <1>2, <1>4 DEF None, Unborn
  <2> QED BY <1>4, <2>1, <2>2 DEF EngineInv
<1>5. ASSUME NEW child \in {c, Unborn}, UNCHANGED procs,
             engine' = [links |-> l, child |-> child, restart |-> FALSE, failed |-> TRUE]
      PROVE  /\ engine' = [links |-> engine'.links, child |-> engine'.child,
                           restart |-> engine'.restart, failed |-> engine'.failed]
             /\ engine'.links = l
             /\ procs' = [q \in DOMAIN procs' |-> procs'[q]]
             /\ Types' => EngineInv'
  BY <1>5 DEF EngineInv, Midway, Types
<1> QED BY <1>3, <1>4, <1>5

(* How a batch goes on when run r ends.                                      *)
LEMMA FinishGood ==
  ASSUME Types, RunsInv, NEW r \in DOMAIN runs, runs[r].pc \in Working,
         \A q \in DOMAIN runs \ {r} : runs[q].pc \notin Working,
         NEW open, Finish(r, open)
  PROVE  /\ \E S : runs' \in Seq(S)
         /\ \A q \in DOMAIN runs' : IsRun(runs'[q])
         /\ RunsInv' /\ ~Midway'
<1>1. Len(runs) \in Nat /\ DOMAIN runs = 1 .. Len(runs)
  BY RunsFacts
<1>2. CASE \A q \in DOMAIN runs \ {r} : runs[q].pc = "done"
  <2>1. runs' = <<>> /\ applying' = None
    BY <1>2 DEF Finish
  <2>2. runs' \in Seq({}) /\ Len(runs') = 0 /\ DOMAIN runs' = {}
    BY <2>1
  <2> QED BY <2>1, <2>2 DEF RunsInv, Midway
<1>3. CASE ~\A q \in DOMAIN runs \ {r} : runs[q].pc = "done"
  <2> DEFINE n == Len(runs)
  <2>1. /\ \A q \in 1 .. r - 1 : runs[q].pc = "done"
        /\ \A q \in r + 1 .. n : runs[q].pc = "queued" /\ runs[q].prev = q - 1
        /\ r \in 1 .. n - 1
    <3>1. PICK c \in 1 .. n : At(c)
      BY <1>1 DEF RunsInv
    <3>2. c = r
      BY <1>1, <3>1 DEF At, Working
    <3>3. r # n
      BY <1>1, <1>3, <3>1, <3>2 DEF At
    <3> QED BY <1>1, <3>1, <3>2, <3>3 DEF At
  <2>2. /\ applying' = None
        /\ runs' = [q \in DOMAIN runs |->
                     IF q = r THEN [runs[q] EXCEPT !.pc = "done"]
                     ELSE IF runs[q].pc = "queued" /\ runs[q].prev = r
                          THEN [runs[q] EXCEPT !.pc = "ready"]
                     ELSE runs[q]]
    BY <1>3 DEF Finish
  <2>3. (\E S : runs' \in Seq(S)) /\ Len(runs') = n /\ DOMAIN runs' = 1 .. n
    BY <1>1, <2>2, RunsSame
  <2>4. \A q \in 1 .. n : IsRun(runs[q])
    BY <1>1 DEF Types
  <2>5. \A q \in 1 .. r - 1 : runs'[q] = runs[q]
    BY <1>1, <2>1, <2>2
  <2>6. /\ runs'[r] = [runs[r] EXCEPT !.pc = "done"]
        /\ runs'[r + 1] = [runs[r + 1] EXCEPT !.pc = "ready"]
    BY <1>1, <2>1, <2>2, SMTT(30)
  <2>7. \A q \in r + 2 .. n : runs'[q] = runs[q]
    BY <1>1, <2>1, <2>2
  <2> HIDE DEF n
  <2>8. /\ IsRun(runs'[r]) /\ runs'[r].pc = "done"
        /\ IsRun(runs'[r + 1]) /\ runs'[r + 1].pc = "ready"
    <3>1. r \in 1 .. n /\ r + 1 \in 1 .. n
      BY <1>1, <2>1 DEF n
    <3>2. IsRun(runs[r]) /\ IsRun(runs[r + 1])
      BY <2>4, <3>1
    <3> QED BY <2>6, <3>2 DEF IsRun
  <2>9. n \in Nat /\ \A q \in 1 .. n : q \in 1 .. r - 1 \/ q = r \/ q = r + 1 \/ q \in r + 2 .. n
    BY <1>1, <2>1 DEF n
  <2>10. \A q \in 1 .. n : IsRun(runs'[q]) /\ runs'[q].pc \notin {"stopping", "resumed"}
    BY <2>1, <2>4, <2>5, <2>7, <2>8, <2>9
  <2>11. At(r + 1)'
    <3>1. \A q \in 1 .. r : runs'[q].pc = "done"
      BY <2>1, <2>5, <2>8
    <3>2. \A q \in r + 2 .. n : runs'[q].pc = "queued" /\ runs'[q].prev = q - 1
      BY <2>1, <2>7
    <3> QED BY <2>1, <2>2, <2>3, <2>8, <2>9, <3>1, <3>2 DEF At, Working
  <2> QED BY <2>1, <2>3, <2>9, <2>10, <2>11 DEF RunsInv, Midway
<1> QED BY <1>2, <1>3

(* The run at work is the only one.                                          *)
LEMMA Alone ==
  ASSUME Types, RunsInv, NEW r \in DOMAIN runs, runs[r].pc \in Working
  PROVE  \A q \in DOMAIN runs \ {r} : runs[q].pc \notin Working
<1>1. Len(runs) \in Nat /\ DOMAIN runs = 1 .. Len(runs)
  BY RunsFacts
<1> QED BY <1>1 DEF RunsInv, At, Working

-----------------------------------------------------------------------------
(* Each action keeps the invariant.                                          *)

LEMMA InitGood == Init => IInv
<1> SUFFICES ASSUME Init PROVE IInv
  OBVIOUS
<1> DEFINE first == [pc |-> "ready", prev |-> None, links |-> <<>>, awaits |-> None]
<1>1. /\ runs = <<first>> /\ applying = 1
      /\ engine = [links |-> <<>>, child |-> None, restart |-> FALSE, failed |-> FALSE]
      /\ procs = <<>>
  BY DEF Init
<1>2. runs \in Seq({first}) /\ Len(runs) = 1 /\ DOMAIN runs = {1} /\ runs[1] = first
  BY <1>1
<1>3. IsRun(first)
  BY DEF IsRun
<1>4. DOMAIN procs = {} /\ procs = [p \in DOMAIN procs |-> procs[p]]
  BY <1>1
<1>5. first.pc = "ready"
  OBVIOUS
<1> HIDE DEF first
<1>6. Types
  BY <1>1, <1>2, <1>3, <1>4 DEF Types
<1>7. RunsInv
  BY <1>1, <1>2, <1>5 DEF RunsInv, At, Working
<1>8. EngineInv
  BY <1>1, <1>2, <1>4, <1>5 DEF EngineInv
<1> QED BY <1>6, <1>7, <1>8 DEF IInv, Serial

LEMMA StartGood ==
  ASSUME Serial, NEW r \in DOMAIN runs, Start(r)
  PROVE  Serial'
<1> DEFINE l         == EngineLinks
           unchanged == l = engine.links /\ (engine.child # None \/ l = <<>>)
           stopped   == [links |-> l, child |-> None, restart |-> FALSE, failed |-> engine.failed]
<1>1. /\ runs[r].pc = "ready"
      /\ \/ /\ unchanged
            /\ Finish(r, l # <<>>)
            /\ UNCHANGED <<engine, procs>>
         \/ /\ ~unchanged /\ engine.child \in {None, Unborn}
            /\ Finish(r, l # <<>>)
            /\ IF l # <<>> THEN Spawn(l, None) ELSE engine' = stopped /\ UNCHANGED procs
         \/ /\ engine.child \notin {None, Unborn}
            /\ engine' = stopped
            /\ procs' = [procs EXCEPT ![engine.child] = "stopping"]
            /\ runs' = [runs EXCEPT ![r].pc = "stopping", ![r].links = l,
                                    ![r].awaits = engine.child]
            /\ UNCHANGED applying
  BY DEF Start
<1> HIDE DEF l, unchanged
<1>2. Types /\ RunsInv /\ EngineInv /\ runs[r].pc \in Working
  BY <1>1 DEF Serial, Working
<1>3. \A q \in DOMAIN runs \ {r} : runs[q].pc \notin Working
  BY <1>2, Alone
<1>4. \A q \in DOMAIN runs : runs[q].pc # "stopping"
  BY <1>1, <1>3 DEF Working
<1>5. ASSUME NEW open, Finish(r, open)
      PROVE  /\ \E S : runs' \in Seq(S)
             /\ \A q \in DOMAIN runs' : IsRun(runs'[q])
             /\ RunsInv' /\ ~Midway'
  BY <1>2, <1>3, <1>5, FinishGood
<1>6. CASE Finish(r, l # <<>>) /\ UNCHANGED <<engine, procs>>
  <2>1. Types'
    BY <1>2, <1>5, <1>6 DEF Types
  <2>2. EngineInv'
    BY <1>2, <1>4, <1>5, <1>6 DEF EngineInv, Midway
  <2> QED BY <1>5, <1>6, <2>1, <2>2 DEF Serial
<1>7. CASE /\ engine.child \in {None, Unborn} /\ Finish(r, l # <<>>)
           /\ Spawn(l, None)
  <2>1. DOMAIN procs = {}
    BY <1>2, <1>4, <1>7 DEF EngineInv
  <2>2. /\ engine' = [links |-> engine'.links, child |-> engine'.child,
                      restart |-> engine'.restart, failed |-> engine'.failed]
        /\ procs' = [p \in DOMAIN procs' |-> procs'[p]]
        /\ Types' => EngineInv'
    BY <1>2, <1>5, <1>7, <2>1, SpawnGood
  <2>3. Types'
    BY <1>5, <1>7, <2>2 DEF Types
  <2>4. EngineInv'
    BY <2>2, <2>3
  <2> QED BY <1>5, <1>7, <2>3, <2>4 DEF Serial
<1>8. CASE /\ engine.child \in {None, Unborn} /\ Finish(r, l # <<>>)
           /\ engine' = stopped
           /\ UNCHANGED procs
  <2>1. DOMAIN procs = {}
    BY <1>2, <1>4, <1>8 DEF EngineInv
  <2>2. Types'
    BY <1>2, <1>5, <1>8 DEF Types
  <2>3. EngineInv'
    BY <1>5, <1>8, <2>1 DEF EngineInv, Midway
  <2> QED BY <1>5, <1>8, <2>2, <2>3 DEF Serial
<1>9. CASE /\ engine.child \notin {None, Unborn}
           /\ engine' = stopped
           /\ procs' = [procs EXCEPT ![engine.child] = "stopping"]
           /\ runs' = [runs EXCEPT ![r].pc = "stopping", ![r].links = l,
                                   ![r].awaits = engine.child]
           /\ UNCHANGED applying
  <2> DEFINE p   == engine.child
             run == [pc |-> "stopping", prev |-> runs[r].prev, links |-> l, awaits |-> p]
  <2>1. DOMAIN procs = {p}
    BY <1>2, <1>9 DEF EngineInv
  <2>2. DOMAIN procs' = {p} /\ procs'[p] = "stopping" /\ procs' = [q \in DOMAIN procs' |-> procs'[q]]
    BY <1>2, <1>9, <2>1 DEF Types
  <2>3. IsRun(runs[r])
    BY <1>2 DEF Types
  <2>4. runs' = [q \in DOMAIN runs |-> IF q = r THEN run ELSE runs[q]]
    <3>1. [runs[r] EXCEPT !.pc = "stopping", !.links = l, !.awaits = p] = run
      BY <2>3, RunStopping
    <3>2. PICK S : runs \in Seq(S)
      BY <1>2 DEF Types
    <3> HIDE DEF p, run
    <3> QED BY <1>9, <3>1, <3>2 DEF p
  <2>5. (\E S : runs' \in Seq(S)) /\ Len(runs') = Len(runs) /\ DOMAIN runs' = DOMAIN runs
    <3> HIDE DEF run
    <3> QED BY <1>2, <2>4, RunsSame
  <2>6. IsRun(run) /\ run.pc = "stopping" /\ run.awaits = p /\ run.prev = runs[r].prev
    BY DEF IsRun
  <2>7. Len(runs) \in Nat /\ DOMAIN runs = 1 .. Len(runs)
    BY <1>2, RunsFacts
  <2> HIDE DEF run, p
  <2>8. \A q \in DOMAIN runs' : runs'[q] = IF q = r THEN run ELSE runs[q]
    BY <2>4
  <2>9. Types'
    BY <1>2, <1>9, <2>2, <2>5, <2>6, <2>8 DEF Types
  <2>10. RunsInv'
    <3>1. PICK c \in 1 .. Len(runs) : At(c)
      BY <1>2, <2>7 DEF RunsInv
    <3>2. c = r
      BY <1>2, <2>7, <3>1 DEF At, Working
    <3>3. At(r)'
      BY <1>9, <2>5, <2>6, <2>7, <2>8, <3>1, <3>2 DEF At, Working
    <3> QED BY <2>5, <2>7, <3>3 DEF RunsInv
  <2>11. EngineInv'
    <3>1. runs'[r].pc = "stopping" /\ runs'[r].awaits = p /\ r \in DOMAIN runs'
      BY <2>5, <2>6, <2>8
    <3> QED BY <1>9, <2>2, <3>1 DEF EngineInv
  <2> QED BY <2>9, <2>10, <2>11 DEF Serial
<1> QED BY <1>1, <1>6, <1>7, <1>8, <1>9

LEMMA ResumeGood ==
  ASSUME Serial, NEW r \in DOMAIN runs, Resume(r)
  PROVE  Serial'
<1> DEFINE l == runs[r].links
<1>1. /\ runs[r].pc = "resumed"
      /\ Finish(r, transport \/ l # <<>>)
      /\ IF l # <<>> THEN Spawn(engine.links, engine.child) ELSE UNCHANGED <<engine, procs>>
  BY DEF Resume
<1> HIDE DEF l
<1>2. Types /\ RunsInv /\ EngineInv /\ runs[r].pc \in Working
  BY <1>1 DEF Serial, Working
<1>3. \A q \in DOMAIN runs \ {r} : runs[q].pc \notin Working
  BY <1>2, Alone
<1>4. engine.child \in {None, Unborn} /\ DOMAIN procs = {}
  BY <1>1, <1>2, <1>3 DEF EngineInv, Midway, Working
<1>5. /\ \E S : runs' \in Seq(S)
      /\ \A q \in DOMAIN runs' : IsRun(runs'[q])
      /\ RunsInv' /\ ~Midway'
  BY <1>1, <1>2, <1>3, FinishGood
<1>6. CASE l # <<>>
  <2>1. /\ engine' = [links |-> engine'.links, child |-> engine'.child,
                      restart |-> engine'.restart, failed |-> engine'.failed]
        /\ procs' = [p \in DOMAIN procs' |-> procs'[p]]
        /\ Types' => EngineInv'
    BY <1>1, <1>2, <1>4, <1>5, <1>6, SpawnGood
  <2>2. Types'
    BY <1>5, <2>1 DEF Types
  <2>3. EngineInv'
    BY <2>1, <2>2
  <2> QED BY <1>5, <2>2, <2>3 DEF Serial
<1>7. CASE l = <<>>
  <2>1. UNCHANGED <<engine, procs>>
    BY <1>1, <1>7
  <2>2. Types'
    BY <1>2, <1>5, <2>1 DEF Types
  <2>3. EngineInv'
    BY <1>4, <1>5, <2>1 DEF EngineInv, Midway
  <2> QED BY <1>5, <2>2, <2>3 DEF Serial
<1> QED BY <1>6, <1>7

LEMMA CallGood ==
  ASSUME Serial, Call, ~forked'
  PROVE  Serial'
<1>1. Types /\ RunsInv /\ EngineInv
  BY DEF Serial
<1>2. Len(runs) \in Nat /\ DOMAIN runs = 1 .. Len(runs)
  BY <1>1, RunsFacts
<1>3. CASE ApplyLink
  <2> DEFINE pc  == IF applying = None THEN "ready" ELSE "queued"
             run == [pc |-> pc, prev |-> applying, links |-> <<>>, awaits |-> None]
  <2>1. /\ runs' = Append(runs, run) /\ applying' = Len(runs) + 1
        /\ UNCHANGED <<engine, procs>>
        /\ forked' = (forked \/ (runs # <<>> /\ applying = None))
    BY <1>3 DEF ApplyLink
  <2>2. IsRun(run) /\ run.pc = pc /\ run.prev = applying
    BY DEF IsRun
  <2>3. PICK S : runs \in Seq(S)
    BY <1>1 DEF Types
  <2> HIDE DEF run
  <2>4. runs \in Seq(S \cup {run})
    BY <2>3
  <2>5. /\ runs' \in Seq(S \cup {run}) /\ Len(runs') = Len(runs) + 1
        /\ DOMAIN runs' = 1 .. Len(runs) + 1
        /\ \A r \in 1 .. Len(runs) : runs'[r] = runs[r]
        /\ runs'[Len(runs) + 1] = run
    BY <2>1, <2>4, AppendProperties
  <2>6. Types'
    <3>1. ASSUME NEW r \in DOMAIN runs' PROVE IsRun(runs'[r])
      <4>1. CASE r \in 1 .. Len(runs)
        BY <1>1, <1>2, <2>5, <4>1 DEF Types
      <4>2. CASE r = Len(runs) + 1
        BY <2>2, <2>5, <4>2
      <4> QED BY <1>2, <2>5, <4>1, <4>2
    <3> QED BY <1>1, <2>1, <2>5, <3>1 DEF Types
  <2>7. RunsInv'
    <3>1. CASE Len(runs) = 0
      <4>1. applying = None
        BY <1>1, <3>1 DEF RunsInv
      <4>2. Len(runs') = 1 /\ applying' = 1 /\ runs'[1].pc = "ready"
        BY <2>1, <2>2, <2>5, <3>1, <4>1
      <4>3. At(1)'
        BY <4>2 DEF At, Working
      <4> QED BY <4>2, <4>3 DEF RunsInv
    <3>2. CASE Len(runs) # 0
      <4>1. applying # None
        <5>1. runs # <<>>
          BY <3>2
        <5> QED BY <2>1, <5>1
      <4>2. At(1) /\ applying = Len(runs)
        BY <1>1, <3>2, <4>1 DEF RunsInv, At
      <4>3. run.pc = "queued" /\ run.prev = Len(runs)
        BY <2>2, <4>1, <4>2
      <4>4. ASSUME NEW q \in 2 .. Len(runs')
            PROVE  runs'[q].pc = "queued" /\ runs'[q].prev = q - 1
        <5>1. CASE q \in 2 .. Len(runs)
          BY <1>2, <2>5, <4>2, <5>1 DEF At
        <5>2. CASE q = Len(runs) + 1
          BY <1>2, <2>5, <4>3, <5>2
        <5> QED BY <1>2, <2>5, <5>1, <5>2
      <4>5. At(1)'
        BY <1>2, <2>1, <2>5, <3>2, <4>2, <4>4 DEF At, Working
      <4> QED BY <1>2, <2>5, <4>5 DEF RunsInv
    <3> QED BY <3>1, <3>2
  <2>8. EngineInv'
    <3>1. pc \notin {"stopping", "resumed"}
      OBVIOUS
    <3>2. \A r \in DOMAIN runs' : (r \in DOMAIN runs /\ runs'[r] = runs[r]) \/ runs'[r] = run
      BY <1>2, <2>5
    <3>3. \A r \in DOMAIN runs : r \in DOMAIN runs' /\ runs'[r] = runs[r]
      BY <1>2, <2>5
    <3> HIDE DEF pc
    <3> QED BY <1>1, <2>1, <2>2, <3>1, <3>2, <3>3, ZenonT(30) DEF EngineInv, Midway
  <2> QED BY <2>6, <2>7, <2>8 DEF Serial
<1>4. CASE UNCHANGED <<runs, applying, engine, procs>>
  BY <1>1, <1>4 DEF Serial, Types, RunsInv, At, EngineInv, Midway
<1> QED BY <1>3, <1>4, CallApplies

LEMMA ExitGood ==
  ASSUME Serial, NEW p \in DOMAIN procs, Exit(p)
  PROVE  Serial'
<1> DEFINE run(r) == IF runs[r].pc = "stopping" /\ runs[r].awaits = p
                     THEN [runs[r] EXCEPT !.pc = "resumed"] ELSE runs[r]
<1>1. /\ Quiet /\ procs[p] = "stopping"
      /\ procs' = [q \in DOMAIN procs \ {p} |-> procs[q]]
      /\ runs' = [r \in DOMAIN runs |-> run(r)]
      /\ UNCHANGED <<applying, engine>>
  BY DEF Exit, Remaining
<1>2. Types /\ RunsInv /\ EngineInv
  BY DEF Serial
<1>3. Len(runs) \in Nat /\ DOMAIN runs = 1 .. Len(runs)
  BY <1>2, RunsFacts
<1>4. ASSUME NEW r \in DOMAIN runs
      PROVE  /\ IsRun(run(r)) /\ run(r).prev = runs[r].prev
             /\ run(r).pc = IF runs[r].pc = "stopping" /\ runs[r].awaits = p
                            THEN "resumed" ELSE runs[r].pc
  <2>1. IsRun(runs[r])
    BY <1>2 DEF Types
  <2> QED BY <2>1 DEF IsRun
<1> HIDE DEF run
<1>5. /\ \E S : runs' \in Seq(S)
      /\ Len(runs') = Len(runs) /\ DOMAIN runs' = DOMAIN runs
      /\ \A r \in DOMAIN runs : runs'[r] = run(r)
  BY <1>1, <1>2, RunsSame
<1>6. Types'
  BY <1>1, <1>2, <1>4, <1>5 DEF Types
<1>7. RunsInv'
  <2>1. ASSUME NEW c \in 1 .. Len(runs), At(c)
        PROVE  At(c)'
    BY <1>1, <1>3, <1>4, <1>5, <2>1 DEF At, Working
  <2> QED BY <1>1, <1>2, <1>5, <2>1 DEF RunsInv
<1>8. EngineInv'
  <2>1. PICK r \in DOMAIN runs : /\ engine.child = None /\ runs[r].pc = "stopping"
                                /\ DOMAIN procs = {runs[r].awaits}
    BY <1>1, <1>2 DEF EngineInv
  <2>2. p = runs[r].awaits /\ DOMAIN procs' = {}
    BY <1>1, <2>1
  <2>3. \A q \in DOMAIN runs \ {r} : runs[q].pc # "stopping"
    BY <1>2, <2>1, Alone DEF Working
  <2> QED BY <1>1, <1>4, <1>5, <2>1, <2>2, <2>3 DEF EngineInv
<1> QED BY <1>6, <1>7, <1>8 DEF Serial

LEMMA CrashGood ==
  ASSUME Serial, NEW p \in DOMAIN procs, Crash(p)
  PROVE  Serial'
<1>1. /\ procs[p] = "running"
      /\ procs' = [q \in DOMAIN procs \ {p} |-> procs[q]]
      /\ engine' = IF engine.child = p
                   THEN [engine EXCEPT !.child = None, !.restart = engine.links # <<>>]
                   ELSE engine
      /\ UNCHANGED <<runs, applying>>
  BY DEF Crash, Remaining
<1>2. Types /\ RunsInv /\ EngineInv
  BY DEF Serial
<1>3. p = engine.child /\ DOMAIN procs = {p} /\ ~Midway
  BY <1>1, <1>2 DEF EngineInv
<1>4. engine' = [links |-> engine.links, child |-> None, restart |-> engine.links # <<>>,
                 failed |-> engine.failed]
  BY <1>1, <1>2, <1>3 DEF Types
<1>5. DOMAIN procs' = {} /\ procs' = [q \in DOMAIN procs' |-> procs'[q]]
  BY <1>1, <1>3
<1>6. Types'
  BY <1>1, <1>2, <1>4, <1>5 DEF Types
<1>7. RunsInv'
  BY <1>1, <1>2 DEF RunsInv, At
<1>8. EngineInv'
  BY <1>1, <1>3, <1>4, <1>5 DEF EngineInv, Midway
<1> QED BY <1>6, <1>7, <1>8 DEF Serial

LEMMA RestartGood == Serial /\ Restart => Serial'
<1> SUFFICES ASSUME Serial, Restart PROVE Serial'
  OBVIOUS
<1>1. Quiet /\ engine.restart /\ Spawn(engine.links, engine.child) /\ UNCHANGED <<runs, applying>>
  BY DEF Restart
<1>2. Types /\ RunsInv /\ EngineInv
  BY DEF Serial
<1>3. DOMAIN procs = {} /\ ~Midway /\ engine.child \in {None, Unborn}
  BY <1>1, <1>2 DEF EngineInv, Quiet, Midway
<1>4. /\ engine' = [links |-> engine'.links, child |-> engine'.child,
                    restart |-> engine'.restart, failed |-> engine'.failed]
      /\ procs' = [p \in DOMAIN procs' |-> procs'[p]]
      /\ Types' => EngineInv'
  <2>1. ~Midway'
    BY <1>1, <1>3 DEF Midway
  <2> QED BY <1>1, <1>2, <1>3, <2>1, SpawnGood
<1>5. Types'
  BY <1>1, <1>2, <1>4 DEF Types
<1>6. RunsInv'
  BY <1>1, <1>2 DEF RunsInv, At
<1>7. EngineInv'
  BY <1>4, <1>5
<1> QED BY <1>5, <1>6, <1>7 DEF Serial

LEMMA OtherGood ==
  ASSUME Serial, UNCHANGED <<runs, applying, engine, procs>>
  PROVE  Serial'
BY DEF Serial, Types, RunsInv, At, EngineInv, Midway

(* A fork is not forgotten.                                                  *)
LEMMA ForkStays ==
  ASSUME [Next]_vars, forked
  PROVE  forked'
<1>1. CASE Call
  BY <1>1, CallApplies DEF ApplyLink
<1> QED BY <1>1 DEF Next, Microtask, Start, Resume, Exit, Crash, Restart, Heartbeat,
       VehicleLost, history, vars

LEMMA NextGood ==
  ASSUME IInv, [Next]_vars
  PROVE  IInv'
<1> SUFFICES ASSUME ~forked' PROVE Serial'
  BY DEF IInv
<1>0. Serial
  BY ForkStays DEF IInv
<1>1. CASE Microtask
  BY <1>0, <1>1, StartGood, ResumeGood DEF Microtask
<1>2. CASE Call
  BY <1>0, <1>2, CallGood
<1>3. CASE \E p \in DOMAIN procs : Exit(p) \/ Crash(p)
  BY <1>0, <1>3, ExitGood, CrashGood
<1>4. CASE Restart
  BY <1>0, <1>4, RestartGood
<1>5. CASE \E state \in {"safe", "armed"} : Heartbeat(state)
  BY <1>0, <1>5, OtherGood DEF Heartbeat
<1>6. CASE VehicleLost
  BY <1>0, <1>6, OtherGood DEF VehicleLost
<1>7. CASE UNCHANGED vars
  BY <1>0, <1>7, OtherGood DEF vars
<1> QED BY <1>1, <1>2, <1>3, <1>4, <1>5, <1>6, <1>7 DEF Next

-----------------------------------------------------------------------------
(* The chain of applyLink runs serves any number of changes one after the    *)
(* other, as long as none is asked for while a run is at work that the end   *)
(* of an earlier one has wiped from this.applying.                           *)
THEOREM LinkInvariance == Spec => []IInv
<1>1. Init => IInv
  BY InitGood
<1>2. IInv /\ [Next]_vars => IInv'
  BY NextGood
<1> QED BY <1>1, <1>2, PTL DEF Spec

(* One engine at a time, until a run begins beside another: apply() kills    *)
(* the old process and waits for its exit before it spawns, and a restart    *)
(* timer never runs beside either.                                           *)
THEOREM OneEngineAtATime == Spec => []OneEngine
<1>1. IInv => OneEngine
  <2> SUFFICES ASSUME IInv, ~forked PROVE OneEngine
    BY DEF OneEngine
  <2>1. DOMAIN procs = {} \/ \E p : DOMAIN procs = {p}
    BY DEF IInv, Serial, EngineInv
  <2>2. CASE DOMAIN procs = {}
    BY <2>2, FS_EmptySet DEF OneEngine
  <2>3. ASSUME NEW p, DOMAIN procs = {p} PROVE OneEngine
    <3>1. Cardinality({p}) = 1
      BY FS_Singleton
    <3> QED BY <2>3, <3>1 DEF OneEngine
  <2> QED BY <2>1, <2>2, <2>3
<1> QED BY <1>1, LinkInvariance, PTL

-----------------------------------------------------------------------------
(* What is applied.  The transport is heard once while it is open, and is    *)
(* closed while a run waits for an engine.  The engine has the links that    *)
(* run read, which are those of the settings unless another run is queued    *)
(* behind it, or join: true has edited a connection in use since.            *)

Served ==
  /\ listeners = IF transport THEN 1 ELSE 0
  /\ \A r \in DOMAIN runs :
       runs[r].pc \in {"stopping", "resumed"} =>
         /\ ~transport /\ runs[r].links = engine.links
         /\ r = Len(runs) /\ ~unplaced => engine.links = EngineLinks
  /\ Idle /\ ~unplaced => engine.links = EngineLinks /\ transport = (EngineLinks # <<>>)

AppliedInv == forked \/ Served

(* Adding or replacing a connection that is not in use changes no link.      *)
LEMMA WithKeepsLinks ==
  ASSUME WellFormed(settings), NEW c \in Connections, c.id \notin InUseIds,
         settings' = With(c), extra' = extra
  PROVE  EngineLinks' = EngineLinks
<1> DEFINE s == settings.connections
           t == settings'.connections
           I == {i \in DOMAIN s : s[i].id # c.id}
           K == {k \in DOMAIN t : t[k].id \in InUseIds}
           m == Cardinality(I)
<1>1. /\ settings'.enabled = settings.enabled /\ settings'.active = settings.active
      /\ settings'.joined = settings.joined
      /\ t = Append(Picked(s, I), c)
  BY WithFacts DEF Others
<1>2. InUseIds' = InUseIds
  BY <1>1 DEF InUseIds
<1>3. InUse' = K /\ InUse = {i \in DOMAIN s : s[i].id \in InUseIds}
  BY <1>2 DEF InUse
<1>4. s \in Seq(Connections) /\ I \in SUBSET DOMAIN s /\ InUse \in SUBSET I
  BY <1>3 DEF WellFormed, SettingsShape
<1> HIDE DEF s, t, I, K
<1>5. /\ Picked(s, I) \in Seq(Connections) /\ DOMAIN Picked(s, I) = 1 .. m
      /\ Len(Picked(s, I)) = m /\ m \in Nat
      /\ \A k \in 1 .. m : Picked(s, I)[k] = s[Place(I, k)] /\ Place(I, k) \in I
  BY <1>4, PickedFacts
<1> DEFINE u == Picked(s, I)
<1> HIDE DEF u, m
<1>6. /\ DOMAIN t = 1 .. (m + 1) /\ t[m + 1] = c
      /\ \A k \in 1 .. m : t[k] = u[k]
  <2>1. /\ u \in Seq(Connections) /\ Len(u) = m /\ m \in Nat /\ DOMAIN u = 1 .. m
        /\ t = Append(u, c)
    BY <1>1, <1>5 DEF u
  <2> QED BY <2>1, AppendProperties
<1>7. \A k \in 1 .. m : t[k] = s[Place(I, k)]
  BY <1>5, <1>6 DEF u
<1>8. \A k \in DOMAIN t : k \in 1 .. m \/ t[k] = c
  BY <1>5, <1>6
<1>9. 1 .. m \subseteq DOMAIN t
  BY <1>5, <1>6
<1>10. K \in SUBSET (1 .. m)
  BY <1>8 DEF K
<1>11. \A k \in 1 .. m : k \in K <=> Place(I, k) \in InUse
  BY <1>3, <1>4, <1>5, <1>7, <1>9 DEF K
<1>12. Picked(t, K) = Picked(s, InUse)
  BY <1>4, <1>7, <1>10, <1>11, PickedAgain DEF m
<1> QED BY <1>1, <1>3, <1>12 DEF EngineLinks, s, t

LEMMA AppliedInitGood == Init => Served
<1> SUFFICES ASSUME Init PROVE Served
  OBVIOUS
<1>1. runs = <<[pc |-> "ready", prev |-> None, links |-> <<>>, awaits |-> None]>>
  BY DEF Init
<1>2. runs # <<>> /\ \A r \in DOMAIN runs : runs[r].pc = "ready"
  BY <1>1
<1>3. transport = FALSE /\ listeners = 0
  BY DEF Init
<1> QED BY <1>2, <1>3 DEF Served, Idle

(* A batch ends with its last run.                                           *)
LEMMA FinishLast ==
  ASSUME Types, RunsInv, NEW r \in DOMAIN runs, runs[r].pc \in Working,
         NEW open, Finish(r, open)
  PROVE  Idle' => r = Len(runs)
<1>1. Len(runs) \in Nat /\ DOMAIN runs = 1 .. Len(runs)
  BY RunsFacts
<1>2. CASE \A q \in DOMAIN runs \ {r} : runs[q].pc = "done"
  <2>1. PICK c \in 1 .. Len(runs) : At(c)
    BY <1>1 DEF RunsInv
  <2> QED BY <1>1, <1>2, <2>1 DEF At, Working
<1>3. CASE ~\A q \in DOMAIN runs \ {r} : runs[q].pc = "done"
  <2>1. runs' = [q \in DOMAIN runs |-> runs'[q]]
    BY <1>3 DEF Finish
  <2>2. DOMAIN runs' = DOMAIN runs
    BY <2>1
  <2>3. r \in DOMAIN runs' /\ DOMAIN <<>> = {}
    BY <2>2
  <2> QED BY <2>3 DEF Idle
<1> QED BY <1>2, <1>3

LEMMA StartApplies ==
  ASSUME Serial, Served, NEW r \in DOMAIN runs, Start(r)
  PROVE  Served'
<1> DEFINE l        == EngineLinks
           attached == IF transport THEN 0 ELSE listeners
           stopped  == [links |-> l, child |-> None, restart |-> FALSE, failed |-> engine.failed]
<1>1. /\ runs[r].pc = "ready" /\ UNCHANGED <<settings, extra>>
      /\ \/ /\ l = engine.links
            /\ Finish(r, l # <<>>)
            /\ listeners' = attached + (IF l # <<>> THEN 1 ELSE 0)
            /\ UNCHANGED <<engine, procs>>
         \/ /\ Finish(r, l # <<>>)
            /\ listeners' = attached + (IF l # <<>> THEN 1 ELSE 0)
            /\ Spawn(l, None) \/ engine' = stopped
         \/ /\ transport' = FALSE /\ listeners' = attached
            /\ engine' = stopped
            /\ runs' = [runs EXCEPT ![r].pc = "stopping", ![r].links = l,
                                    ![r].awaits = engine.child]
  BY DEF Start
<1>2. EngineLinks' = l
  BY <1>1 DEF EngineLinks, InUse, InUseIds
<1>3. attached = 0
  BY DEF Served
<1> HIDE DEF l, attached
<1>4. Types /\ RunsInv /\ runs[r].pc \in Working
  BY <1>1 DEF Serial, Working
<1>5. \A q \in DOMAIN runs \ {r} : runs[q].pc \notin Working
  BY <1>4, Alone
<1>6. CASE /\ Finish(r, l # <<>>) /\ engine'.links = l
           /\ listeners' = attached + (IF l # <<>> THEN 1 ELSE 0)
  <2>1. ~Midway' /\ transport' = (l # <<>>)
    BY <1>4, <1>5, <1>6, FinishGood DEF Finish
  <2>2. listeners' = IF transport' THEN 1 ELSE 0
    <3>1. listeners' = IF l # <<>> THEN 1 ELSE 0
      <4>1. CASE l # <<>>
        BY <1>3, <1>6, <4>1
      <4>2. CASE l = <<>>
        BY <1>3, <1>6, <4>2
      <4> QED BY <4>1, <4>2
    <3> QED BY <2>1, <3>1, Zenon
  <2> QED BY <1>2, <1>6, <2>1, <2>2 DEF Served, Midway
<1>7. CASE /\ transport' = FALSE /\ listeners' = attached
           /\ engine' = stopped
           /\ runs' = [runs EXCEPT ![r].pc = "stopping", ![r].links = l,
                                   ![r].awaits = engine.child]
  <2> DEFINE run == [pc |-> "stopping", prev |-> runs[r].prev, links |-> l, awaits |-> engine.child]
  <2>1. IsRun(runs[r])
    BY <1>4 DEF Types
  <2>2. runs' = [q \in DOMAIN runs |-> IF q = r THEN run ELSE runs[q]]
    <3> DEFINE p == engine.child
    <3>1. [runs[r] EXCEPT !.pc = "stopping", !.links = l, !.awaits = p] = run
      BY <2>1, RunStopping
    <3>2. PICK S : runs \in Seq(S)
      BY <1>4 DEF Types
    <3>3. runs' = [runs EXCEPT ![r].pc = "stopping", ![r].links = l, ![r].awaits = p]
      BY <1>7
    <3> HIDE DEF p, run
    <3> QED BY <3>1, <3>2, <3>3
  <2>3. run.links = l
    OBVIOUS
  <2> HIDE DEF run
  <2>4. DOMAIN runs' = DOMAIN runs /\ \A q \in DOMAIN runs' : runs'[q] = IF q = r THEN run ELSE runs[q]
    BY <2>2
  <2>5. \A q \in DOMAIN runs' : runs'[q].pc \in {"stopping", "resumed"} => runs'[q].links = l
    BY <1>5, <2>3, <2>4 DEF Working
  <2>6. r \in DOMAIN runs' /\ DOMAIN <<>> = {}
    BY <2>4
  <2>7. ~Idle'
    BY <2>6 DEF Idle
  <2>8. engine'.links = l /\ transport' = FALSE /\ listeners' = 0
    BY <1>3, <1>7
  <2> QED BY <1>2, <2>5, <2>7, <2>8 DEF Served
<1>8. ASSUME Spawn(l, None) PROVE engine'.links = l
  BY <1>8 DEF Spawn
<1>9. engine' = stopped => engine'.links = l
  OBVIOUS
<1> QED BY <1>1, <1>6, <1>7, <1>8, <1>9

LEMMA ResumeApplies ==
  ASSUME Serial, Served, NEW r \in DOMAIN runs, Resume(r)
  PROVE  Served'
<1> DEFINE l == runs[r].links
<1>1. /\ runs[r].pc = "resumed" /\ UNCHANGED <<settings, extra, unplaced>>
      /\ Finish(r, transport \/ l # <<>>)
      /\ \/ l # <<>> /\ listeners' = listeners + 1 /\ Spawn(engine.links, engine.child)
         \/ l = <<>> /\ UNCHANGED <<listeners, engine, procs>>
  BY DEF Resume, history
<1>2. EngineLinks' = EngineLinks
  BY <1>1 DEF EngineLinks, InUse, InUseIds
<1>3. /\ ~transport /\ listeners = 0 /\ l = engine.links
      /\ r = Len(runs) /\ ~unplaced => l = EngineLinks
  BY <1>1 DEF Served
<1> HIDE DEF l
<1>4. Types /\ RunsInv /\ runs[r].pc \in Working
  BY <1>1 DEF Serial, Working
<1>5. \A q \in DOMAIN runs \ {r} : runs[q].pc \notin Working
  BY <1>4, Alone
<1>6. ~Midway' /\ transport' = (transport \/ l # <<>>) /\ (Idle' => r = Len(runs))
  BY <1>1, <1>4, <1>5, FinishGood, FinishLast DEF Finish
<1>7. transport' = (l # <<>>)
  BY <1>3, <1>6
<1>8. engine'.links = l
  BY <1>1, <1>3 DEF Spawn
<1>9. listeners' = IF transport' THEN 1 ELSE 0
  <2>1. listeners' = IF l # <<>> THEN 1 ELSE 0
    <3>1. CASE l # <<>>
      BY <1>1, <1>3, <3>1
    <3>2. CASE l = <<>>
      BY <1>1, <1>3, <3>2
    <3> QED BY <3>1, <3>2
  <2> QED BY <1>7, <2>1, Zenon
<1> QED BY <1>1, <1>2, <1>3, <1>6, <1>7, <1>8, <1>9 DEF Served, Midway

LEMMA CallApplied ==
  ASSUME Serial, Served, SettingsInv, Call
  PROVE  Served'
<1>1. Types /\ Quiet /\ WellFormed(settings) /\ UNCHANGED <<transport, listeners, engine>>
  BY DEF Serial, SettingsInv, Call, Ready, ApplyLink, SetEnabled, SetActive, Join, JoinFrom, Leave,
     RemoveConnection, Upsert, UpsertJoin, SetExtraLinks, Commit
<1>2. CASE ApplyLink
  <2> DEFINE run == [pc |-> IF applying = None THEN "ready" ELSE "queued",
                     prev |-> applying, links |-> <<>>, awaits |-> None]
             n   == Len(runs)
  <2>1. PICK S : runs \in Seq(S)
    BY <1>1 DEF Types
  <2>2. runs' = Append(runs, run) /\ run.pc \in {"ready", "queued"} /\ unplaced' = unplaced
    BY <1>2 DEF ApplyLink
  <2> HIDE DEF run
  <2>3. runs \in Seq(S \cup {run})
    BY <2>1
  <2>4. /\ n \in Nat /\ DOMAIN runs = 1 .. n
        /\ runs' \in Seq(S \cup {run}) /\ Len(runs') = n + 1 /\ DOMAIN runs' = 1 .. n + 1
        /\ runs'[n + 1] = run /\ \A r \in 1 .. n : runs'[r] = runs[r]
    BY <2>2, <2>3, AppendProperties, LenProperties
  <2> HIDE DEF n
  <2>5. \A r \in DOMAIN runs' :
          \/ r \in DOMAIN runs /\ runs'[r] = runs[r] /\ r # Len(runs')
          \/ runs'[r] = run
    BY <2>4
  <2>6. n + 1 \in DOMAIN runs' /\ DOMAIN <<>> = {}
    BY <2>4
  <2>7. ~Idle'
    BY <2>6 DEF Idle
  <2> QED BY <1>1, <2>2, <2>5, <2>7 DEF Served
<1>3. CASE ~ApplyLink
  <2>1. PICK c \in Connections : UpsertJoin(c)
    BY <1>3 DEF Call, SetEnabled, SetActive, Join, JoinFrom, Leave, RemoveConnection, Upsert,
       SetExtraLinks, Commit
  <2>2. /\ settings' = With(c) /\ UNCHANGED <<extra, runs>>
        /\ unplaced' = (unplaced \/ c.id \in InUseIds)
    BY <1>3, <2>1 DEF UpsertJoin, JoinFrom, Commit
  <2>3. ~unplaced' => EngineLinks' = EngineLinks
    BY <1>1, <2>2, WithKeepsLinks
  <2> QED BY <1>1, <2>2, <2>3 DEF Served, Idle
<1> QED BY <1>2, <1>3

LEMMA AppliedNextGood ==
  ASSUME Serial, Served, SettingsInv, [Next]_vars
  PROVE  Served'
<1>1. ASSUME UNCHANGED <<settings, extra>>
      PROVE  EngineLinks' = EngineLinks
  BY <1>1 DEF EngineLinks, InUse, InUseIds
<1>2. ASSUME UNCHANGED <<settings, extra, runs, transport, listeners, unplaced>>,
             engine'.links = engine.links
      PROVE  Served'
  BY <1>1, <1>2 DEF Served, Idle
<1>3. CASE Microtask
  BY <1>3, StartApplies, ResumeApplies DEF Microtask
<1>4. CASE Call
  BY <1>4, CallApplied
<1>5. ASSUME NEW p \in DOMAIN procs, Exit(p)
      PROVE  Served'
  <2> DEFINE run(r) == IF runs[r].pc = "stopping" /\ runs[r].awaits = p
                       THEN [runs[r] EXCEPT !.pc = "resumed"] ELSE runs[r]
  <2>1. /\ runs' = [r \in DOMAIN runs |-> run(r)]
        /\ UNCHANGED <<settings, extra, transport, listeners, engine, unplaced>>
    BY <1>5 DEF Exit, history
  <2>2. ASSUME NEW r \in DOMAIN runs
        PROVE  /\ run(r).links = runs[r].links
               /\ run(r).pc \in {"stopping", "resumed"} => runs[r].pc \in {"stopping", "resumed"}
    <3>1. IsRun(runs[r])
      BY DEF Serial, Types
    <3> QED BY <3>1 DEF IsRun
  <2> HIDE DEF run
  <2>3. Types
    BY DEF Serial
  <2>4. /\ Len(runs') = Len(runs) /\ DOMAIN runs' = DOMAIN runs
        /\ \A r \in DOMAIN runs : runs'[r] = run(r)
    BY <2>1, <2>3, RunsSame
  <2>5. Idle' => Idle
    <3>1. Len(runs) \in Nat /\ (Len(runs) = 0 => runs = <<>>) /\ Len(<<>>) = 0
      <4>1. PICK S : runs \in Seq(S)
        BY <2>3 DEF Types
      <4> QED BY <4>1, LenProperties, EmptySeq
    <3> QED BY <2>4, <3>1 DEF Idle
  <2>6. EngineLinks' = EngineLinks
    BY <1>1, <2>1
  <2> QED BY <2>1, <2>2, <2>4, <2>5, <2>6 DEF Served
<1>6. ASSUME NEW p \in DOMAIN procs, Crash(p)
      PROVE  Served'
  <2>1. engine = [links |-> engine.links, child |-> engine.child, restart |-> engine.restart,
                  failed |-> engine.failed]
    BY DEF Serial, Types
  <2>2. engine' = engine \/ engine' = [engine EXCEPT !.child = None, !.restart = engine.links # <<>>]
    BY <1>6 DEF Crash
  <2>3. engine'.links = engine.links
    BY <2>1, <2>2
  <2> QED BY <1>2, <1>6, <2>3 DEF Crash, history
<1>7. CASE Restart
  <2>1. engine'.links = engine.links
    BY <1>7 DEF Restart, Spawn
  <2> QED BY <1>2, <1>7, <2>1 DEF Restart, history
<1>8. CASE \E state \in {"safe", "armed"} : Heartbeat(state)
  BY <1>2, <1>8 DEF Heartbeat, history
<1>9. CASE VehicleLost
  BY <1>2, <1>9 DEF VehicleLost, history
<1>10. CASE UNCHANGED vars
  BY <1>2, <1>10 DEF vars
<1> QED BY <1>3, <1>4, <1>5, <1>6, <1>7, <1>8, <1>9, <1>10 DEF Next

(* Once every call is answered the engine runs exactly the links of the      *)
(* settings, and the transport to it is open, and heard once, when there are *)
(* any, until a run begins beside another.  Edits by join: true of a         *)
(* connection in use are applied with the next change: they change the       *)
(* settings and start no run.                                                *)
THEOREM SettingsApplied == Spec => []Applied
<1> DEFINE All == IInv /\ SettingsInv /\ AppliedInv
<1>1. Init => All
  BY InitGood, SettingsInitGood, AppliedInitGood DEF AppliedInv
<1>2. All /\ [Next]_vars => All'
  BY ForkStays, NextGood, SettingsNextGood, AppliedNextGood DEF IInv, AppliedInv
<1>3. All => Applied
  BY DEF AppliedInv, Served, Applied
<1> QED BY <1>1, <1>2, <1>3, PTL DEF Spec
=============================================================================
