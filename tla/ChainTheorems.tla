---------------------------- MODULE ChainTheorems ----------------------------
(***************************************************************************)
(* What appending to a chain and removing from it does to a bucket table   *)
(* of Dict, for tables of any size.  The lemmas take the table and the     *)
(* keys of the entries as parameters: the same ones serve d->buckets and   *)
(* dict_rehash's new_buckets.                                              *)
(***************************************************************************)
EXTENDS Dict, SequenceTheorems, TLAPS

USE DictAssumption DEF DictAssumption

\* t1 is t with the element at position p taken out.
Without(s, p, s1) ==
  /\ Len(s1) = Len(s) - 1
  /\ \A q \in 1 .. Len(s) - 1 : s1[q] = IF q < p THEN s[q] ELSE s[q + 1]

LEMMA RemoveAtWithout ==
  ASSUME NEW S, NEW s \in Seq(S), NEW p \in 1 .. Len(s)
  PROVE  RemoveAt(s, p) \in Seq(S) /\ Without(s, p, RemoveAt(s, p))
<1> DEFINE a == SubSeq(s, 1, p - 1)
           b == SubSeq(s, p + 1, Len(s))
<1>1. a \in Seq(S) /\ Len(a) = p - 1 /\ \A q \in 1 .. p - 1 : a[q] = s[q]
  OBVIOUS
<1>2. b \in Seq(S) /\ Len(b) = Len(s) - p
      /\ \A q \in 1 .. Len(s) - p : b[q] = s[p + q]
  OBVIOUS
<1>3. RemoveAt(s, p) = a \o b
  BY DEF RemoveAt
<1> HIDE DEF a, b
<1>a. a \in Seq(S) /\ b \in Seq(S)
  BY <1>1, <1>2
<1>4. /\ a \o b \in Seq(S) /\ Len(a \o b) = Len(a) + Len(b)
      /\ \A q \in 1 .. Len(a) + Len(b) :
           (a \o b)[q] = IF q <= Len(a) THEN a[q] ELSE b[q - Len(a)]
  BY <1>a, ConcatProperties
<1>5. ASSUME NEW q \in 1 .. Len(s) - 1
      PROVE  (a \o b)[q] = IF q < p THEN s[q] ELSE s[q + 1]
  <2>0. Len(s) \in Nat /\ q \in 1 .. Len(a) + Len(b)
    BY <1>1, <1>2
  <2>1. CASE q < p
    BY <2>0, <2>1, <1>1, <1>4
  <2>2. CASE q >= p
    <3>1. (a \o b)[q] = b[q - (p - 1)]
      BY <2>0, <2>2, <1>1, <1>4
    <3> DEFINE j == q - (p - 1)
    <3>2. j \in 1 .. Len(s) - p /\ p + j = q + 1 /\ ~ (q < p)
      BY <2>0, <2>2
    <3>3. (a \o b)[q] = b[j]
      BY <3>1
    <3> HIDE DEF j
    <3>4. b[j] = s[p + j]
      BY <3>2, <1>2
    <3> QED
      BY <3>2, <3>3, <3>4
  <2> QED
    BY <2>0, <2>1, <2>2
<1> QED
  BY <1>1, <1>2, <1>3, <1>4, <1>5 DEF Without

LEMMA TailWithout ==
  ASSUME NEW S, NEW s \in Seq(S), s # <<>>
  PROVE  Tail(s) \in Seq(S) /\ Without(s, 1, Tail(s)) /\ 1 \in 1 .. Len(s)
         /\ Head(s) = s[1]
BY DEF Without

\* PlacedIn, with the keys as a parameter.
Homed(t, n, ky) ==
  \A b \in 0 .. n - 1 : \A p \in 1 .. Len(t[b]) :
    /\ ky[t[b][p]] \in Keys
    /\ Hash[ky[t[b][p]]] % n = b
    /\ \A q \in 1 .. Len(t[b]) : p # q => t[b][p] # t[b][q]

\* e is somewhere in the table.
Occurs(t, n, e) == \E b \in 0 .. n - 1 : \E p \in 1 .. Len(t[b]) : t[b][p] = e

Sizes == {n \in PowersOfTwo : n >= 4}
Keyings == [Entries -> Keys \cup {None}]

LEMMA Home ==
  ASSUME NEW k \in Keys, NEW n \in Sizes
  PROVE  Hash[k] % n \in 0 .. n - 1
BY DEF Sizes

LEMMA ElementType ==
  ASSUME NEW n \in Sizes, NEW t \in Table(n), NEW b \in 0 .. n - 1,
         NEW p \in 1 .. Len(t[b])
  PROVE  t[b] \in Seq(Entries) /\ t[b][p] \in Entries
BY DEF Table

LEMMA SameKeys ==
  ASSUME NEW n \in Sizes, NEW t \in Table(n), NEW ky \in Keyings,
         NEW ky1 \in Keyings, Homed(t, n, ky),
         \A e \in Entries : Occurs(t, n, e) => ky1[e] = ky[e]
  PROVE  Homed(t, n, ky1)
<1> SUFFICES ASSUME NEW b \in 0 .. n - 1, NEW p \in 1 .. Len(t[b])
             PROVE  ky1[t[b][p]] = ky[t[b][p]]
  BY DEF Homed
<1> QED
  BY ElementType DEF Occurs

LEMMA AppendHomed ==
  ASSUME NEW n \in Sizes, NEW t \in Table(n), NEW ky \in Keyings,
         Homed(t, n, ky), NEW e \in Entries, ky[e] \in Keys,
         ~ Occurs(t, n, e)
  PROVE  LET b == Hash[ky[e]] % n
             t1 == [t EXCEPT ![b] = Append(@, e)]
         IN /\ t1 \in Table(n)
            /\ Homed(t1, n, ky)
            /\ \A f \in Entries : Occurs(t1, n, f) <=> f = e \/ Occurs(t, n, f)
            /\ \A c \in 0 .. n - 1 : c # b => t1[c] = t[c]
<1> DEFINE b == Hash[ky[e]] % n
           t1 == [t EXCEPT ![b] = Append(@, e)]
<1>1. b \in 0 .. n - 1
  BY Home
<1>2. t1 \in Table(n) /\ t1[b] = Append(t[b], e)
      /\ \A c \in 0 .. n - 1 : c # b => t1[c] = t[c]
  BY <1>1 DEF Table
<1>3. /\ t[b] \in Seq(Entries) /\ Len(t1[b]) = Len(t[b]) + 1
      /\ \A p \in 1 .. Len(t[b]) : t1[b][p] = t[b][p]
      /\ t1[b][Len(t[b]) + 1] = e
      /\ Len(t[b]) \in Nat
  BY <1>1, <1>2 DEF Table
<1>b. b = Hash[ky[e]] % n
  OBVIOUS
<1> HIDE DEF b, t1
<1>4. \A f \in Entries : Occurs(t1, n, f) <=> f = e \/ Occurs(t, n, f)
  <2> SUFFICES ASSUME NEW f \in Entries
               PROVE  Occurs(t1, n, f) <=> f = e \/ Occurs(t, n, f)
    OBVIOUS
  <2>1. ASSUME Occurs(t1, n, f) PROVE f = e \/ Occurs(t, n, f)
    <3>0. PICK c \in 0 .. n - 1 : \E p \in 1 .. Len(t1[c]) : t1[c][p] = f
      BY <2>1 DEF Occurs
    <3>1. PICK p \in 1 .. Len(t1[c]) : t1[c][p] = f
      BY <3>0
    <3>2. CASE c # b
      BY <1>2, <3>1, <3>2 DEF Occurs
    <3>3. CASE c = b
      <4>1. p \in 1 .. Len(t[b]) \/ p = Len(t[b]) + 1
        BY <1>3, <3>1, <3>3
      <4> QED
        BY <1>1, <1>3, <3>1, <3>3, <4>1 DEF Occurs
    <3> QED
      BY <3>2, <3>3
  <2>2. ASSUME f = e PROVE Occurs(t1, n, f)
    BY <1>1, <1>3, <2>2 DEF Occurs
  <2>3. ASSUME Occurs(t, n, f) PROVE Occurs(t1, n, f)
    <3>0. PICK c \in 0 .. n - 1 : \E p \in 1 .. Len(t[c]) : t[c][p] = f
      BY <2>3 DEF Occurs
    <3>1. PICK p \in 1 .. Len(t[c]) : t[c][p] = f
      BY <3>0
    <3>2. p \in 1 .. Len(t1[c]) /\ t1[c][p] = f
      <4>1. CASE c # b
        BY <1>2, <3>1, <4>1
      <4>2. CASE c = b
        BY <1>3, <3>1, <4>2
      <4> QED
        BY <4>1, <4>2
    <3> QED
      BY <3>2 DEF Occurs
  <2> QED
    BY <2>1, <2>2, <2>3
<1>5. Homed(t1, n, ky)
  <2> SUFFICES ASSUME NEW c \in 0 .. n - 1, NEW p \in 1 .. Len(t1[c])
               PROVE  /\ ky[t1[c][p]] \in Keys
                      /\ Hash[ky[t1[c][p]]] % n = c
                      /\ \A q \in 1 .. Len(t1[c]) : p # q => t1[c][p] # t1[c][q]
    BY DEF Homed
  <2>1. CASE c # b
    BY <1>2, <2>1 DEF Homed
  <2>2. CASE c = b
    <3>1. \A q \in 1 .. Len(t[b]) : t[b][q] # e
      BY <1>1 DEF Occurs
    <3>a. \A q \in 1 .. Len(t1[b]) :
            \/ q \in 1 .. Len(t[b]) /\ t1[b][q] = t[b][q]
            \/ q = Len(t[b]) + 1 /\ t1[b][q] = e
      BY <1>3
    <3>b. p \in 1 .. Len(t1[b])
      BY <2>2
    <3>2. CASE p \in 1 .. Len(t[b])
      <4>1. /\ ky[t[b][p]] \in Keys
            /\ Hash[ky[t[b][p]]] % n = b
            /\ \A q \in 1 .. Len(t[b]) : p # q => t[b][p] # t[b][q]
        BY <1>1, <3>2 DEF Homed
      <4>2. t1[b][p] = t[b][p]
        BY <1>3, <3>2
      <4> QED
        BY <2>2, <3>a, <3>1, <3>2, <4>1, <4>2
    <3>3. CASE p = Len(t[b]) + 1
      <4>1. t1[b][p] = e
        BY <1>3, <3>3
      <4> QED
        BY <1>b, <2>2, <3>a, <3>1, <3>3, <4>1
    <3> QED
      BY <1>3, <2>2, <3>2, <3>3
  <2> QED
    BY <2>1, <2>2
<1> QED
  BY <1>2, <1>4, <1>5 DEF b, t1

LEMMA RemoveHomed ==
  ASSUME NEW n \in Sizes, NEW t \in Table(n), NEW ky \in Keyings,
         Homed(t, n, ky), NEW b \in 0 .. n - 1, NEW p \in 1 .. Len(t[b]),
         NEW s \in Seq(Entries), Without(t[b], p, s)
  PROVE  LET t1 == [t EXCEPT ![b] = s]
         IN /\ t1 \in Table(n)
            /\ Homed(t1, n, ky)
            /\ \A f \in Entries :
                 Occurs(t1, n, f) <=> f # t[b][p] /\ Occurs(t, n, f)
            /\ \A c \in 0 .. n - 1 : c # b => t1[c] = t[c]
            /\ t1[b] = s
<1> DEFINE t1 == [t EXCEPT ![b] = s]
<1>1. t1 \in Table(n) /\ t1[b] = s /\ \A c \in 0 .. n - 1 : c # b => t1[c] = t[c]
  BY DEF Table
<1> HIDE DEF t1
<1>2. /\ t[b] \in Seq(Entries) /\ Len(t[b]) \in Nat /\ Len(s) = Len(t[b]) - 1
      /\ \A q \in 1 .. Len(s) : s[q] = IF q < p THEN t[b][q] ELSE t[b][q + 1]
  <2>1. t[b] \in Seq(Entries) /\ Len(t[b]) \in Nat
    BY DEF Table
  <2> QED
    BY <2>1 DEF Without
<1>3. Homed(t1, n, ky)
  <2> SUFFICES ASSUME NEW c \in 0 .. n - 1, NEW r \in 1 .. Len(t1[c])
               PROVE  /\ ky[t1[c][r]] \in Keys
                      /\ Hash[ky[t1[c][r]]] % n = c
                      /\ \A q \in 1 .. Len(t1[c]) : r # q => t1[c][r] # t1[c][q]
    BY DEF Homed
  <2>1. CASE c # b
    BY <1>1, <2>1 DEF Homed
  <2>2. CASE c = b
    <3> DEFINE w(q) == IF q < p THEN q ELSE q + 1
    <3>1. \A q \in 1 .. Len(s) : w(q) \in 1 .. Len(t[b]) /\ s[q] = t[b][w(q)]
      BY <1>2
    <3>2. \A q \in 1 .. Len(s) : r # q => w(r) # w(q)
      BY <1>1, <1>2, <2>2
    <3> HIDE DEF w
    <3>3. r \in 1 .. Len(s) /\ t1[c] = s
      BY <1>1, <2>2
    <3>4. /\ ky[t[b][w(r)]] \in Keys
          /\ Hash[ky[t[b][w(r)]]] % n = b
          /\ \A q \in 1 .. Len(s) : r # q => t[b][w(r)] # t[b][w(q)]
      BY <3>1, <3>2, <3>3 DEF Homed
    <3> QED
      BY <2>2, <3>1, <3>3, <3>4
  <2> QED
    BY <2>1, <2>2
<1>4. ASSUME NEW f \in Entries
      PROVE  Occurs(t1, n, f) <=> f # t[b][p] /\ Occurs(t, n, f)
  <2>1. ASSUME Occurs(t1, n, f) PROVE f # t[b][p] /\ Occurs(t, n, f)
    <3>0. PICK c \in 0 .. n - 1 : \E r \in 1 .. Len(t1[c]) : t1[c][r] = f
      BY <2>1 DEF Occurs
    <3>1. PICK r \in 1 .. Len(t1[c]) : t1[c][r] = f
      BY <3>0
    <3>2. CASE c # b
      <4>1. t[c][r] = f /\ r \in 1 .. Len(t[c])
        BY <1>1, <3>1, <3>2
      <4>2. Hash[ky[f]] % n = c /\ Hash[ky[t[b][p]]] % n = b
        BY <4>1 DEF Homed
      <4> QED
        BY <3>2, <4>1, <4>2 DEF Occurs
    <3>3. CASE c = b
      <4>1. PICK q \in 1 .. Len(t[b]) : q # p /\ t[b][q] = f
        <5>1. CASE r < p
          BY <1>1, <1>2, <3>1, <3>3, <5>1
        <5>2. CASE r >= p
          <6>1. r + 1 \in 1 .. Len(t[b]) /\ r + 1 # p /\ t[b][r + 1] = f
            BY <1>1, <1>2, <3>1, <3>3, <5>2
          <6> QED
            BY <6>1
        <5> QED
          BY <5>1, <5>2, <1>1, <1>2, <3>3
      <4> QED
        BY <4>1 DEF Homed, Occurs
    <3> QED
      BY <3>2, <3>3
  <2>2. ASSUME f # t[b][p], Occurs(t, n, f) PROVE Occurs(t1, n, f)
    <3>0. PICK c \in 0 .. n - 1 : \E r \in 1 .. Len(t[c]) : t[c][r] = f
      BY <2>2 DEF Occurs
    <3>1. PICK r \in 1 .. Len(t[c]) : t[c][r] = f
      BY <3>0
    <3>2. CASE c # b
      BY <1>1, <3>1, <3>2 DEF Occurs
    <3>3. CASE c = b /\ r < p
      <4>1. r \in 1 .. Len(s) /\ s[r] = f
        BY <1>2, <3>1, <3>3
      <4> QED
        BY <1>1, <4>1 DEF Occurs
    <3>4. CASE c = b /\ r > p
      <4>1. r - 1 \in 1 .. Len(s) /\ s[r - 1] = f
        BY <1>2, <3>1, <3>4
      <4> QED
        BY <1>1, <4>1 DEF Occurs
    <3> QED
      BY <2>2, <3>1, <3>2, <3>3, <3>4
  <2> QED
    BY <2>1, <2>2
<1> QED
  BY <1>1, <1>3, <1>4 DEF t1

\* In a table whose entries are all at home, an entry that occurs is found in
\* the bucket of its key.
LEMMA OccursAtHome ==
  ASSUME NEW n \in Sizes, NEW t \in Table(n), NEW ky \in Keyings,
         Homed(t, n, ky), NEW e \in Entries, Occurs(t, n, e)
  PROVE  /\ ky[e] \in Keys
         /\ \E p \in 1 .. Len(t[Hash[ky[e]] % n]) : t[Hash[ky[e]] % n][p] = e
BY DEF Occurs, Homed

LEMMA EmptyHomed ==
  ASSUME NEW n \in Sizes, NEW ky \in Keyings
  PROVE  /\ Empty(n) \in Table(n)
         /\ Homed(Empty(n), n, ky)
         /\ \A e \in Entries : ~ Occurs(Empty(n), n, e)
BY DEF Empty, Table, Homed, Occurs
=============================================================================
