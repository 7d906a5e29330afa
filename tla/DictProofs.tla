----------------------------- MODULE DictProofs -----------------------------
(***************************************************************************)
(* Proofs about Dict, for any sets of keys, values and entries, any hash   *)
(* function and any word size.                                             *)
(***************************************************************************)
EXTENDS ChainTheorems, FiniteSetTheorems

USE DictAssumption DEF DictAssumption

-----------------------------------------------------------------------------
(* The inductive invariant *)

\* Placed, in the terms of ChainTheorems.
Placing ==
  /\ Homed(buckets, nbuckets, key)
  /\ pc # "rehash" => \A e \in Live : Occurs(buckets, nbuckets, e)
  /\ pc = "rehash" =>
       /\ Homed(fresh, nfresh, key)
       /\ \A e \in Live :
            Occurs(buckets, nbuckets, e) <=> ~ Occurs(fresh, nfresh, e)
       /\ \A b \in 0 .. i - 1 : buckets[b] = <<>>

\* The table an unforced rehash moves to is large enough for the entries.
RoomAhead == pc = "rehash" /\ ~ loose => count * 4 < nfresh * 3

IInv ==
  TypeOK /\ Placing /\ UniqueKeys /\ CountOK /\ ValuesLive /\ LoadOK /\ RoomAhead

\* Where the scan for k looks, and what it finds.
LEMMA ChainFacts ==
  ASSUME TypeOK, Placing, NEW k \in Keys
  PROVE  /\ nbuckets \in Sizes /\ key \in Keyings
         /\ bucket_for_n(k, nbuckets) \in 0 .. nbuckets - 1
         /\ Chain(k) = buckets[bucket_for_n(k, nbuckets)]
         /\ Chain(k) \in Seq(Entries)
         /\ DOMAIN Chain(k) = 1 .. Len(Chain(k))
         /\ \A p \in 1 .. Len(Chain(k)) :
              Chain(k)[p] \in Live /\ Occurs(buckets, nbuckets, Chain(k)[p])
<1>1. nbuckets \in Sizes /\ key \in Keyings
  BY DEF TypeOK, Sizes, Keyings
<1>2. bucket_for_n(k, nbuckets) \in 0 .. nbuckets - 1
  BY <1>1, Home DEF bucket_for_n
<1>3. Chain(k) = buckets[bucket_for_n(k, nbuckets)]
  BY DEF Chain
<1>4. Chain(k) \in Seq(Entries)
  BY <1>2, <1>3 DEF TypeOK, Table
<1>5. DOMAIN Chain(k) = 1 .. Len(Chain(k))
  BY <1>4
<1>6. \A p \in 1 .. Len(Chain(k)) :
        Chain(k)[p] \in Live /\ Occurs(buckets, nbuckets, Chain(k)[p])
  BY <1>2, <1>3, <1>4 DEF Placing, Homed, Live, Occurs
<1> QED
  BY <1>1, <1>2, <1>3, <1>4, <1>5, <1>6

\* A key that is not found is not stored.
LEMMA NotFound ==
  ASSUME TypeOK, Placing, pc # "rehash", NEW k \in Keys, ~ Has(k)
  PROVE  \A e \in Live : key[e] # k
<1> SUFFICES ASSUME NEW e \in Live, key[e] = k PROVE FALSE
  OBVIOUS
<1>1. /\ nbuckets \in Sizes /\ key \in Keyings /\ buckets \in Table(nbuckets)
      /\ Chain(k) = buckets[Hash[k] % nbuckets]
      /\ DOMAIN Chain(k) = 1 .. Len(Chain(k))
  BY ChainFacts DEF TypeOK, bucket_for_n
<1>2. e \in Entries /\ Homed(buckets, nbuckets, key)
      /\ Occurs(buckets, nbuckets, e)
  BY DEF Placing, Live
<1>3. \E p \in 1 .. Len(Chain(k)) : Chain(k)[p] = e
  BY <1>1, <1>2, OccursAtHome
<1> QED
  BY <1>1, <1>3 DEF Has

LEMMA EmptyType ==
  ASSUME NEW n \in Sizes
  PROVE  Empty(n) \in Table(n)
BY DEF Empty, Table, Sizes

\* Doubling stays below Word.
LEMMA DoubleSize ==
  ASSUME NEW n \in Sizes, CanDouble(n)
  PROVE  2 * n \in Sizes
<1>1. 2 * n < Word
  BY DEF Sizes, CanDouble
<1> QED
  BY <1>1, DoublingAssumption DEF Sizes

-----------------------------------------------------------------------------
(* Insertion *)

LEMMA InsertStep ==
  ASSUME IInv, NEW k \in Keys, NEW v \in Vals \cup {None}, SetInsert(k, v)
  PROVE  IInv'
<1>1. /\ TypeOK /\ Placing /\ UniqueKeys /\ CountOK /\ ValuesLive
      /\ LoadOK /\ RoomAhead
  BY DEF IInv
<1>2. pc = "idle" /\ ~ Has(k)
  BY DEF SetInsert
<1>3. PICK e \in Entries \ Live :
        /\ key' = [key EXCEPT ![e] = k]
        /\ val' = [val EXCEPT ![e] = v]
        /\ buckets' = [buckets EXCEPT ![bucket_for_n(k, nbuckets)] =
                         Append(@, e)]
  BY DEF SetInsert
<1>4. /\ nbuckets \in Sizes /\ key \in Keyings /\ key' \in Keyings
      /\ buckets \in Table(nbuckets)
      /\ key[e] = None /\ key'[e] = k
  BY <1>1, <1>3 DEF TypeOK, Sizes, Keyings, Live
<1>4a. e \in Entries /\ key'[e] \in Keys
  BY <1>3, <1>4
<1>5. Homed(buckets, nbuckets, key)
  BY <1>1 DEF Placing
<1>6. ~ Occurs(buckets, nbuckets, e)
  BY <1>4, <1>5, OccursAtHome
<1>7. Homed(buckets, nbuckets, key')
  <2>1. \A f \in Entries : Occurs(buckets, nbuckets, f) => key'[f] = key[f]
    BY <1>3, <1>4, <1>6 DEF Keyings
  <2> QED
    BY <1>4, <1>5, <2>1, SameKeys
<1>8. buckets' = [buckets EXCEPT ![Hash[key'[e]] % nbuckets] = Append(@, e)]
  BY <1>3, <1>4 DEF bucket_for_n
<1>9. /\ buckets' \in Table(nbuckets)
      /\ Homed(buckets', nbuckets, key')
      /\ \A f \in Entries : Occurs(buckets', nbuckets, f) <=>
                              f = e \/ Occurs(buckets, nbuckets, f)
  <2> DEFINE t1 == [buckets EXCEPT ![Hash[key'[e]] % nbuckets] = Append(@, e)]
  <2>1. t1 \in Table(nbuckets)
    BY <1>4, <1>4a, <1>6, <1>7, AppendHomed
  <2>2. Homed(t1, nbuckets, key')
    BY <1>4, <1>4a, <1>6, <1>7, AppendHomed
  <2>3. \A f \in Entries : Occurs(t1, nbuckets, f) <=>
                             f = e \/ Occurs(buckets, nbuckets, f)
    BY <1>4, <1>4a, <1>6, <1>7, AppendHomed
  <2>4. buckets' = t1
    BY <1>8
  <2> HIDE DEF t1
  <2> QED
    BY <2>1, <2>2, <2>3, <2>4
<1>10. Live' = Live \cup {e}
  BY <1>3, <1>4 DEF Live, Keyings
<1>11. nbuckets' = nbuckets /\ count' = count + 1 /\ liveVals' = With(v)
       /\ UNCHANGED cursor
  BY DEF SetInsert
<1>12. \A f \in Live' : Occurs(buckets', nbuckets', f)
  BY <1>1, <1>2, <1>9, <1>10, <1>11 DEF Placing, Live
\* Either the dict stays idle or it begins to move into a table twice the size.
<1>13. \/ /\ pc' = "idle" /\ UNCHANGED <<rehash, i>>
          /\ Full(count', nbuckets) => loose'
          /\ ~ Full(count', nbuckets) => UNCHANGED loose
          /\ loose' \in BOOLEAN
       \/ /\ StartRehash(2 * nbuckets)
          /\ 2 * nbuckets \in Sizes
          /\ UNCHANGED loose
  BY <1>1, <1>2, <1>4, DoubleSize DEF SetInsert, TypeOK
<1>14. TypeOK'
  <2>1. val' \in [Entries -> Vals \cup {None}] /\ liveVals' \in SUBSET Vals
    BY <1>1, <1>3, <1>11 DEF TypeOK, With
  <2>2. count' \in Nat
    BY <1>1, <1>11 DEF TypeOK
  <2>3. /\ pos' \in Entries \cup {None} /\ tmp' \in Entries \cup {None}
        /\ seen' \in SUBSET Entries /\ due' \in SUBSET Entries
    BY <1>1, <1>11 DEF TypeOK, cursor
  <2>4. CASE pc' = "idle" /\ UNCHANGED <<rehash, i>> /\ loose' \in BOOLEAN
    BY <1>1, <1>4, <1>9, <1>11, <2>1, <2>2, <2>3, <2>4
       DEF TypeOK, Sizes, Keyings
  <2>5. CASE StartRehash(2 * nbuckets) /\ 2 * nbuckets \in Sizes
             /\ UNCHANGED loose
    <3>1. /\ pc' = "rehash" /\ nfresh' \in Sizes /\ fresh' \in Table(nfresh')
          /\ i' = 0
      BY <2>5, EmptyType DEF StartRehash
    <3> QED
      BY <1>1, <1>4, <1>9, <1>11, <2>1, <2>2, <2>3, <2>5, <3>1
         DEF TypeOK, Sizes, Keyings
  <2> QED
    BY <1>13, <2>4, <2>5
<1>15. Placing'
  <2>1. CASE pc' = "idle"
    BY <1>9, <1>11, <1>12, <2>1 DEF Placing
  <2>2. CASE StartRehash(2 * nbuckets) /\ 2 * nbuckets \in Sizes
    <3>1. /\ pc' = "rehash" /\ nfresh' = 2 * nbuckets /\ i' = 0
          /\ fresh' = Empty(2 * nbuckets)
      BY <2>2 DEF StartRehash
    <3>2. /\ Homed(fresh', nfresh', key')
          /\ \A f \in Entries : ~ Occurs(fresh', nfresh', f)
      BY <1>4, <2>2, <3>1, EmptyHomed
    <3> QED
      BY <1>9, <1>10, <1>11, <1>12, <3>1, <3>2 DEF Placing, Live
  <2> QED
    BY <1>13, <2>1, <2>2
<1>16. UniqueKeys'
  <2>1. \A f \in Live : key[f] # k
    BY <1>1, <1>2, NotFound
  <2>2. \A f \in Live : key'[f] = key[f] /\ f # e
    BY <1>3, <1>4 DEF Live, Keyings
  <2> QED
    BY <1>1, <1>4, <1>10, <2>1, <2>2 DEF UniqueKeys
<1>17. CountOK'
  BY <1>1, <1>10, <1>11, FS_AddElement DEF CountOK
<1>18. ValuesLive'
  <2>1. \A f \in Live : f # e /\ val'[f] = val[f]
    BY <1>1, <1>3 DEF Live, TypeOK
  <2>2. val'[e] = v
    BY <1>1, <1>3 DEF TypeOK
  <2> QED
    BY <1>1, <1>10, <1>11, <2>1, <2>2 DEF ValuesLive, With
<1>19. LoadOK' /\ RoomAhead'
  <2>1. count \in Nat /\ nbuckets \in Nat /\ nbuckets >= 4
    BY <1>1, <1>4 DEF TypeOK, Sizes
  <2>2. ~ loose => count * 4 < nbuckets * 3
    BY <1>1, <1>2 DEF LoadOK
  <2>3. CASE pc' = "idle"
    BY <1>11, <1>13, <2>1, <2>2, <2>3
       DEF LoadOK, RoomAhead, Full, StartRehash
  <2>4. CASE StartRehash(2 * nbuckets) /\ UNCHANGED loose
    BY <1>11, <2>1, <2>2, <2>4 DEF LoadOK, RoomAhead, StartRehash
  <2> QED
    BY <1>13, <2>3, <2>4
<1> QED
  BY <1>14, <1>15, <1>16, <1>17, <1>18, <1>19 DEF IInv

-----------------------------------------------------------------------------
(* Replacing a value *)

LEMMA UpdateStep ==
  ASSUME IInv, NEW k \in Keys, NEW v \in Vals \cup {None},
         SetUpdate(k, v) \/ SetOwnedUpdate(k, v)
  PROVE  IInv'
<1>1. /\ TypeOK /\ Placing /\ UniqueKeys /\ CountOK /\ ValuesLive
      /\ LoadOK /\ RoomAhead
  BY DEF IInv
<1>2. UNCHANGED <<table, count, key, pc, rehash, i, cursor, loose>>
  BY DEF SetUpdate, SetOwnedUpdate
<1>3. PICK p \in 1 .. Len(Chain(k)) :
        /\ FoundAt(k, p)
        /\ val' = [val EXCEPT ![Chain(k)[p]] = v]
        /\ \/ liveVals' = With(v)
           \/ MayOwn(k) /\ liveVals' = FreeOld(val[Chain(k)[p]], v)
  BY DEF SetUpdate, SetOwnedUpdate, Assign
<1> DEFINE e == Chain(k)[p]
<1>4. e \in Entries /\ key[e] = k
  BY <1>1, <1>3, ChainFacts DEF FoundAt, Live
<1>5. /\ val' = [val EXCEPT ![e] = v]
      /\ \/ liveVals' = With(v)
         \/ MayOwn(k) /\ liveVals' = FreeOld(val[e], v)
  BY <1>3
<1> HIDE DEF e
<1>6. TypeOK'
  <2>1. val' \in [Entries -> Vals \cup {None}] /\ liveVals' \in SUBSET Vals
    BY <1>1, <1>4, <1>5 DEF TypeOK, With, FreeOld
  <2> QED
    BY <1>1, <1>2, <2>1 DEF TypeOK, table, rehash, cursor
<1>7. Placing' /\ UniqueKeys' /\ CountOK' /\ LoadOK' /\ RoomAhead' /\ Live' = Live
  BY <1>1, <1>2
     DEF Placing, UniqueKeys, CountOK, LoadOK, RoomAhead, Live, Homed, Occurs,
         table, rehash, cursor
<1>8. ValuesLive'
  <2> SUFFICES ASSUME NEW f \in Live, val'[f] # None PROVE val'[f] \in liveVals'
    BY <1>7 DEF ValuesLive
  <2>1. CASE f = e
    BY <1>1, <1>4, <1>5, <2>1 DEF TypeOK, With, FreeOld
  <2>2. CASE f # e
    <3>1. val'[f] = val[f] /\ val[f] \in liveVals /\ e \in Live
      BY <1>1, <1>4, <1>5, <2>2 DEF TypeOK, ValuesLive, Live
    <3>2. MayOwn(k) => val[f] # val[e]
      BY <1>4, <2>2, <3>1 DEF MayOwn
    <3> QED
      BY <1>5, <3>1, <3>2 DEF With, FreeOld
  <2> QED
    BY <2>1, <2>2
<1> QED
  BY <1>6, <1>7, <1>8 DEF IInv

-----------------------------------------------------------------------------
(* Rehashing *)

LEMMA RehashStep ==
  ASSUME IInv, NEW n \in CallerSizes, Rehash(n)
  PROVE  IInv'
<1>1. /\ TypeOK /\ Placing /\ UniqueKeys /\ CountOK /\ ValuesLive
      /\ LoadOK /\ RoomAhead
  BY DEF IInv
<1>2. /\ pc = "idle" /\ n \in Sizes /\ loose' = TRUE
      /\ pc' = "rehash" /\ fresh' = Empty(n) /\ nfresh' = n /\ i' = 0
      /\ UNCHANGED <<table, count, fields, liveVals, cursor>>
  BY DEF Rehash, Valid, Sizes, StartRehash
<1>3. TypeOK'
  <2>1. fresh' \in Table(nfresh')
    BY <1>2, EmptyType
  <2> QED
    BY <1>1, <1>2, <2>1 DEF TypeOK, Sizes, table, fields, cursor
<1>4. Placing'
  <2>1. Homed(fresh', nfresh', key) /\ \A e \in Entries : ~ Occurs(fresh', nfresh', e)
    <3>1. key \in Keyings
      BY <1>1 DEF TypeOK, Keyings
    <3> QED
      BY <1>2, <3>1, EmptyHomed
  <2>2. UNCHANGED <<key, buckets, nbuckets, Live>>
    BY <1>2 DEF table, fields, Live
  <2>3. \A b \in 0 .. i' - 1 : buckets[b] = <<>>
    BY <1>2
  <2>4. \A e \in Live : e \in Entries /\ Occurs(buckets, nbuckets, e)
    BY <1>1, <1>2 DEF Placing, Live
  <2> QED
    BY <1>1, <1>2, <2>1, <2>2, <2>3, <2>4 DEF Placing
<1>5. UniqueKeys' /\ CountOK' /\ ValuesLive' /\ LoadOK' /\ RoomAhead'
  BY <1>1, <1>2
     DEF UniqueKeys, CountOK, ValuesLive, LoadOK, RoomAhead, Live, fields
<1> QED
  BY <1>3, <1>4, <1>5 DEF IInv

\* The entry that is moved has left d->buckets, and no other has.
LEMMA HeadLeaves ==
  ASSUME IInv, RehashMove, NEW e, e = Head(buckets[i])
  PROVE  /\ e \in Live /\ Occurs(buckets, nbuckets, e)
         /\ buckets' \in Table(nbuckets)
         /\ Homed(buckets', nbuckets, key)
         /\ \A f \in Entries :
              Occurs(buckets', nbuckets, f) <=> f # e /\ Occurs(buckets, nbuckets, f)
         /\ \A c \in 0 .. nbuckets - 1 : c # i => buckets'[c] = buckets[c]
<1>1. /\ TypeOK /\ Placing /\ UniqueKeys /\ CountOK /\ ValuesLive
      /\ LoadOK /\ RoomAhead
  BY DEF IInv
<1>2. /\ pc = "rehash" /\ i < nbuckets /\ buckets[i] # <<>>
      /\ fresh' = [fresh EXCEPT ![Hash[key[e]] % nfresh] = Append(@, e)]
      /\ buckets' = [buckets EXCEPT ![i] = Tail(buckets[i])]
      /\ UNCHANGED <<nbuckets, count, key, val, liveVals, pc, nfresh, i, pos,
                     tmp, seen, due, loose>>
  BY DEF RehashMove, NewHome, bucket_for_n, fields, cursor
<1>3. /\ nbuckets \in Sizes /\ buckets \in Table(nbuckets)
      /\ nfresh \in Sizes /\ fresh \in Table(nfresh)
      /\ key \in Keyings /\ i \in 0 .. nbuckets - 1
      /\ buckets[i] \in Seq(Entries)
      /\ Homed(buckets, nbuckets, key) /\ Homed(fresh, nfresh, key)
  <2>0. pc = "rehash"
    BY <1>2
  <2>1. /\ nbuckets \in Sizes /\ buckets \in Table(nbuckets)
        /\ nfresh \in Sizes /\ fresh \in Table(nfresh)
        /\ key \in Keyings /\ i \in Nat /\ nbuckets \in Nat
    BY <1>1, <2>0 DEF TypeOK, Sizes, Keyings
  <2>2. i < nbuckets /\ i \in Nat /\ nbuckets \in Nat
    BY <1>2, <2>1
  <2>3. i \in 0 .. nbuckets - 1
    BY <2>2
  <2>4. buckets[i] \in Seq(Entries)
    BY <2>1, <2>3 DEF Table
  <2> QED
    BY <1>1, <1>2, <2>1, <2>3, <2>4 DEF Placing
<1>4. /\ Tail(buckets[i]) \in Seq(Entries)
      /\ Without(buckets[i], 1, Tail(buckets[i]))
      /\ 1 \in 1 .. Len(buckets[i])
      /\ e = buckets[i][1]
  BY <1>2, <1>3, TailWithout
<1>5. /\ e \in Live
      /\ Occurs(buckets, nbuckets, e)
  <2>1. e \in Entries
    BY <1>3, <1>4, ElementType
  <2>2. key[e] \in Keys
    BY <1>3, <1>4 DEF Homed
  <2> QED
    BY <1>3, <1>4, <2>1, <2>2 DEF Live, Occurs
<1>7. /\ buckets' \in Table(nbuckets)
      /\ Homed(buckets', nbuckets, key)
      /\ \A f \in Entries :
           Occurs(buckets', nbuckets, f) <=> f # e /\ Occurs(buckets, nbuckets, f)
      /\ \A c \in 0 .. nbuckets - 1 : c # i => buckets'[c] = buckets[c]
  <2> DEFINE t1 == [buckets EXCEPT ![i] = Tail(buckets[i])]
             s == Tail(buckets[i])
  <2>0. s \in Seq(Entries) /\ Without(buckets[i], 1, s)
    BY <1>4
  <2>1. t1 \in Table(nbuckets)
    BY <1>3, <1>4, <2>0, RemoveHomed
  <2>2. Homed(t1, nbuckets, key)
    BY <1>3, <1>4, <2>0, RemoveHomed
  <2>3. \A f \in Entries :
          Occurs(t1, nbuckets, f) <=> f # buckets[i][1] /\ Occurs(buckets, nbuckets, f)
    BY <1>3, <1>4, <2>0, RemoveHomed
  <2>4. \A c \in 0 .. nbuckets - 1 : c # i => t1[c] = buckets[c]
    BY <1>3 DEF Table
  <2>5. buckets' = t1
    BY <1>2
  <2> HIDE DEF t1, s
  <2> QED
    BY <1>4, <2>1, <2>2, <2>3, <2>4, <2>5
<1> QED
  BY <1>5, <1>7

LEMMA RehashMoveStep ==
  ASSUME IInv, RehashMove
  PROVE  IInv'
<1>1. /\ TypeOK /\ Placing /\ UniqueKeys /\ CountOK /\ ValuesLive
      /\ LoadOK /\ RoomAhead
  BY DEF IInv
<1> DEFINE e == Head(buckets[i])
<1>2. /\ pc = "rehash" /\ i < nbuckets /\ buckets[i] # <<>>
      /\ fresh' = [fresh EXCEPT ![Hash[key[e]] % nfresh] = Append(@, e)]
      /\ buckets' = [buckets EXCEPT ![i] = Tail(buckets[i])]
      /\ UNCHANGED <<nbuckets, count, key, val, liveVals, pc, nfresh, i, pos,
                     tmp, seen, due, loose>>
  BY DEF RehashMove, NewHome, bucket_for_n, fields, cursor
<1>3. /\ nbuckets \in Sizes /\ buckets \in Table(nbuckets)
      /\ nfresh \in Sizes /\ fresh \in Table(nfresh)
      /\ key \in Keyings /\ i \in 0 .. nbuckets - 1
      /\ buckets[i] \in Seq(Entries)
      /\ Homed(buckets, nbuckets, key) /\ Homed(fresh, nfresh, key)
  <2>0. pc = "rehash"
    BY <1>2
  <2>1. /\ nbuckets \in Sizes /\ buckets \in Table(nbuckets)
        /\ nfresh \in Sizes /\ fresh \in Table(nfresh)
        /\ key \in Keyings /\ i \in Nat /\ nbuckets \in Nat
    BY <1>1, <2>0 DEF TypeOK, Sizes, Keyings
  <2>2. i < nbuckets /\ i \in Nat /\ nbuckets \in Nat
    BY <1>2, <2>1
  <2>3. i \in 0 .. nbuckets - 1
    BY <2>2
  <2>4. buckets[i] \in Seq(Entries)
    BY <2>1, <2>3 DEF Table
  <2> QED
    BY <1>1, <1>2, <2>1, <2>3, <2>4 DEF Placing
<1>4. /\ Tail(buckets[i]) \in Seq(Entries)
      /\ Without(buckets[i], 1, Tail(buckets[i]))
      /\ 1 \in 1 .. Len(buckets[i])
      /\ e = buckets[i][1]
  BY <1>2, <1>3, TailWithout
<1> HIDE DEF e
<1>5. e \in Live /\ Occurs(buckets, nbuckets, e)
  BY HeadLeaves DEF e
<1>6. ~ Occurs(fresh, nfresh, e)
  BY <1>1, <1>2, <1>5 DEF Placing
<1>7. /\ buckets' \in Table(nbuckets)
      /\ Homed(buckets', nbuckets, key)
      /\ \A f \in Entries :
           Occurs(buckets', nbuckets, f) <=> f # e /\ Occurs(buckets, nbuckets, f)
      /\ \A c \in 0 .. nbuckets - 1 : c # i => buckets'[c] = buckets[c]
  BY HeadLeaves DEF e
<1>8. /\ fresh' \in Table(nfresh)
      /\ Homed(fresh', nfresh, key)
      /\ \A f \in Entries :
           Occurs(fresh', nfresh, f) <=> f = e \/ Occurs(fresh, nfresh, f)
  <2> DEFINE t1 == [fresh EXCEPT ![Hash[key[e]] % nfresh] = Append(@, e)]
  <2>0. e \in Entries /\ key[e] \in Keys
    BY <1>3, <1>5 DEF Live, Keyings
  <2>1. t1 \in Table(nfresh)
    BY <1>3, <1>6, <2>0, AppendHomed
  <2>2. Homed(t1, nfresh, key)
    BY <1>3, <1>6, <2>0, AppendHomed
  <2>3. \A f \in Entries :
          Occurs(t1, nfresh, f) <=> f = e \/ Occurs(fresh, nfresh, f)
    BY <1>3, <1>6, <2>0, AppendHomed
  <2>4. fresh' = t1
    BY <1>2
  <2> HIDE DEF t1
  <2> QED
    BY <2>1, <2>2, <2>3, <2>4
<1>9. TypeOK'
  BY <1>1, <1>2, <1>7, <1>8 DEF TypeOK
<1>10. Placing'
  <2>1. \A f \in Live :
          Occurs(buckets', nbuckets, f) <=> ~ Occurs(fresh', nfresh, f)
    BY <1>1, <1>2, <1>6, <1>7, <1>8 DEF Placing, Live
  <2>2. \A b \in 0 .. i - 1 : buckets'[b] = <<>>
    BY <1>1, <1>2, <1>3, <1>7 DEF Placing, TypeOK, Sizes
  <2> QED
    BY <1>2, <1>7, <1>8, <2>1, <2>2 DEF Placing, Live
<1>11. /\ UniqueKeys' /\ CountOK' /\ ValuesLive' /\ LoadOK' /\ RoomAhead'
  BY <1>1, <1>2 DEF UniqueKeys, CountOK, ValuesLive, LoadOK, RoomAhead, Live
<1> QED
  BY <1>9, <1>10, <1>11 DEF IInv

LEMMA RehashNextStep ==
  ASSUME IInv, RehashNext
  PROVE  IInv'
<1>1. /\ TypeOK /\ Placing /\ UniqueKeys /\ CountOK /\ ValuesLive
      /\ LoadOK /\ RoomAhead
  BY DEF IInv
<1>2. /\ pc = "rehash" /\ i < nbuckets /\ buckets[i] = <<>> /\ i' = i + 1
      /\ UNCHANGED <<buckets, nbuckets, count, key, val, liveVals, pc, fresh,
                     nfresh, pos, tmp, seen, due, loose>>
  BY DEF RehashNext, table, fields, rehash, cursor
<1>3. i \in Nat /\ nbuckets \in Nat
  BY <1>1 DEF TypeOK
<1>4. TypeOK'
  BY <1>1, <1>2, <1>3 DEF TypeOK
<1>5. Placing'
  <2>1. \A b \in 0 .. i' - 1 : buckets'[b] = <<>>
    BY <1>1, <1>2, <1>3 DEF Placing
  <2> QED
    BY <1>1, <1>2, <2>1 DEF Placing, Live
<1>6. UniqueKeys' /\ CountOK' /\ ValuesLive' /\ LoadOK' /\ RoomAhead'
  BY <1>1, <1>2 DEF UniqueKeys, CountOK, ValuesLive, LoadOK, RoomAhead, Live
<1> QED
  BY <1>4, <1>5, <1>6 DEF IInv

\* When every old bucket is empty, every entry is in the new table.
LEMMA RehashEndStep ==
  ASSUME IInv, RehashEnd
  PROVE  IInv'
<1>1. /\ TypeOK /\ Placing /\ UniqueKeys /\ CountOK /\ ValuesLive
      /\ LoadOK /\ RoomAhead
  BY DEF IInv
<1>2. /\ pc = "rehash" /\ i = nbuckets
      /\ buckets' = fresh /\ nbuckets' = nfresh /\ pc' = "idle" /\ i' = 0
      /\ UNCHANGED <<count, key, val, liveVals, pos, tmp, seen, due, loose>>
  BY DEF RehashEnd, fields, cursor
<1>3. TypeOK'
  BY <1>1, <1>2 DEF TypeOK
<1>4. \A f \in Live : ~ Occurs(buckets, nbuckets, f)
  BY <1>1, <1>2 DEF Placing, Occurs, TypeOK
<1>5. Placing'
  BY <1>1, <1>2, <1>4 DEF Placing, Live
<1>6. UniqueKeys' /\ CountOK' /\ ValuesLive' /\ LoadOK' /\ RoomAhead'
  BY <1>1, <1>2 DEF UniqueKeys, CountOK, ValuesLive, LoadOK, RoomAhead, Live
<1> QED
  BY <1>3, <1>5, <1>6 DEF IInv

-----------------------------------------------------------------------------
(* Deletion *)

\* What dict_del does to the table, the loops' cursors aside.
LEMMA DeleteFacts ==
  ASSUME IInv, pc # "rehash", NEW k \in Keys, Delete(k)
  PROVE  /\ buckets' \in Table(nbuckets) /\ Homed(buckets', nbuckets, key')
         /\ key' \in Keyings /\ val' \in [Entries -> Vals \cup {None}]
         /\ \A f \in Live' : Occurs(buckets', nbuckets, f)
         /\ count' \in Nat /\ count' <= count
         /\ UniqueKeys' /\ CountOK'
         /\ Live' \subseteq Live /\ \A f \in Live' : val'[f] = val[f]
         /\ UNCHANGED <<nbuckets, liveVals, rehash, loose>>
         /\ \A c \in 0 .. nbuckets - 1 :
              c # bucket_for_n(k, nbuckets) => buckets'[c] = buckets[c]
         /\ \E p \in 1 .. Len(Chain(k)) :
              /\ key[Chain(k)[p]] = k
              /\ buckets'[bucket_for_n(k, nbuckets)] \in Seq(Entries)
              /\ Without(Chain(k), p, buckets'[bucket_for_n(k, nbuckets)])
<1>1. TypeOK /\ Placing /\ UniqueKeys /\ CountOK
  BY DEF IInv
<1> DEFINE b == bucket_for_n(k, nbuckets)
           s == Chain(k)
<1>2. PICK p \in 1 .. Len(s) :
        /\ FoundAt(k, p)
        /\ buckets' = [buckets EXCEPT ![b] = RemoveAt(@, p)]
        /\ key' = [key EXCEPT ![s[p]] = None]
        /\ val' = [val EXCEPT ![s[p]] = None]
  BY DEF Delete
<1>3. /\ b \in 0 .. nbuckets - 1 /\ s = buckets[b] /\ s \in Seq(Entries)
      /\ nbuckets \in Sizes /\ key \in Keyings
      /\ buckets \in Table(nbuckets) /\ Homed(buckets, nbuckets, key)
      /\ s[p] \in Live
  BY <1>1, <1>2, ChainFacts DEF TypeOK, Placing
<1>4. key[s[p]] = k
  BY <1>2 DEF FoundAt
<1> HIDE DEF b, s
<1>5. RemoveAt(s, p) \in Seq(Entries) /\ Without(s, p, RemoveAt(s, p))
  BY <1>3, RemoveAtWithout
<1> DEFINE e == s[p]
           s1 == RemoveAt(s, p)
<1>6. /\ buckets' \in Table(nbuckets)
      /\ Homed(buckets', nbuckets, key)
      /\ \A f \in Entries :
           Occurs(buckets', nbuckets, f) <=> f # e /\ Occurs(buckets, nbuckets, f)
      /\ \A c \in 0 .. nbuckets - 1 : c # b => buckets'[c] = buckets[c]
      /\ buckets'[b] = s1
  <2> DEFINE t1 == [buckets EXCEPT ![b] = s1]
  <2>0. s1 \in Seq(Entries) /\ Without(buckets[b], p, s1) /\ p \in 1 .. Len(buckets[b])
        /\ e = buckets[b][p]
    BY <1>3, <1>5
  <2>6. buckets' = t1
    BY <1>2, <1>3
  <2> HIDE DEF s1, e
  <2>1. t1 \in Table(nbuckets)
    BY <1>3, <2>0, RemoveHomed
  <2>2. Homed(t1, nbuckets, key)
    BY <1>3, <2>0, RemoveHomed
  <2>3. \A f \in Entries :
          Occurs(t1, nbuckets, f) <=>
            f # buckets[b][p] /\ Occurs(buckets, nbuckets, f)
    BY <1>3, <2>0, RemoveHomed
  <2>4. (\A c \in 0 .. nbuckets - 1 : c # b => t1[c] = buckets[c]) /\ t1[b] = s1
    BY <1>3 DEF Table
  <2> HIDE DEF t1
  <2> QED
    BY <2>0, <2>1, <2>2, <2>3, <2>4, <2>6
<1>7. e \in Live
  BY <1>3
<1>8. key' = [key EXCEPT ![e] = None] /\ val' = [val EXCEPT ![e] = None]
  BY <1>2
<1> HIDE DEF e, s1
<1>9. key' \in Keyings /\ val' \in [Entries -> Vals \cup {None}]
  BY <1>1, <1>3, <1>8 DEF Keyings, TypeOK
<1>10. Live' = Live \ {e}
  BY <1>3, <1>8 DEF Live, Keyings
<1>11. Homed(buckets', nbuckets, key')
  <2>1. \A f \in Entries : Occurs(buckets', nbuckets, f) => key'[f] = key[f]
    BY <1>3, <1>6, <1>8 DEF Keyings
  <2> QED
    BY <1>3, <1>6, <1>9, <2>1, SameKeys
<1>12. \A f \in Live' : Occurs(buckets', nbuckets, f)
  BY <1>1, <1>6, <1>10 DEF Placing, Live
<1>13. \A f \in Live' : key'[f] = key[f] /\ val'[f] = val[f]
  BY <1>1, <1>8, <1>10 DEF TypeOK, Live
<1>14. UniqueKeys'
  BY <1>1, <1>10, <1>13 DEF UniqueKeys
<1>15. count' = count - 1 /\ UNCHANGED <<nbuckets, liveVals, rehash, loose>>
  BY DEF Delete, CountAfterDel
<1>16. CountOK' /\ count' \in Nat /\ count' <= count
  <2>1. /\ IsFiniteSet(Live \ {e})
        /\ Cardinality(Live \ {e}) = Cardinality(Live) - 1
    BY <1>1, <1>7, FS_RemoveElement DEF CountOK
  <2>2. Cardinality(Live \ {e}) \in Nat
    BY <2>1, FS_CardinalityType
  <2>3. count \in Nat
    BY <1>1 DEF TypeOK
  <2> QED
    BY <1>1, <1>10, <1>15, <2>1, <2>2, <2>3 DEF CountOK
<1>17. \E q \in 1 .. Len(s) :
         /\ key[s[q]] = k
         /\ buckets'[b] \in Seq(Entries)
         /\ Without(s, q, buckets'[b])
  BY <1>4, <1>5, <1>6 DEF s1
<1> QED
  BY <1>6, <1>9, <1>10, <1>11, <1>12, <1>13, <1>14, <1>15, <1>16, <1>17
     DEF b, s

LEMMA SmallerLoad ==
  ASSUME NEW c \in Nat, NEW c1 \in Nat, NEW n \in Nat, c1 <= c, c * 4 < n * 3
  PROVE  c1 * 4 < n * 3
OBVIOUS

LEMMA DelStep ==
  ASSUME IInv, NEW k \in Keys, Del(k)
  PROVE  IInv'
<1>1. /\ TypeOK /\ Placing /\ UniqueKeys /\ CountOK /\ ValuesLive
      /\ LoadOK /\ RoomAhead
  BY DEF IInv
<1>2. pc = "idle" /\ Delete(k) /\ UNCHANGED <<pc, i, cursor>>
  BY DEF Del
<1>3. TypeOK'
  BY <1>1, <1>2, DeleteFacts DEF TypeOK, Keyings, cursor
<1>4. Placing'
  BY <1>2, DeleteFacts DEF Placing
<1>5. UniqueKeys' /\ CountOK'
  BY <1>2, DeleteFacts
<1>6. ValuesLive'
  BY <1>1, <1>2, DeleteFacts DEF ValuesLive
<1>7. LoadOK' /\ RoomAhead'
  <2>1. count' \in Nat /\ count' <= count /\ count \in Nat /\ nbuckets \in Nat
        /\ nbuckets' = nbuckets /\ loose' = loose /\ pc' = "idle"
    BY <1>1, <1>2, DeleteFacts DEF TypeOK
  <2>2. ~ loose => count * 4 < nbuckets * 3
    BY <1>1, <1>2 DEF LoadOK
  <2>3. ~ loose => count' * 4 < nbuckets * 3
    BY <2>1, <2>2, SmallerLoad
  <2> QED
    BY <2>1, <2>3 DEF LoadOK, RoomAhead
<1> QED
  BY <1>3, <1>4, <1>5, <1>6, <1>7 DEF IInv

-----------------------------------------------------------------------------
(* Iteration *)

\* f is still to be visited when the cursor is at position p of bucket i.
Ahead(f, p) ==
  \/ \E b \in i + 1 .. nbuckets - 1 : \E q \in 1 .. Len(buckets[b]) : buckets[b][q] = f
  \/ i < nbuckets /\ \E q \in p .. Len(buckets[i]) : buckets[i][q] = f

\* The cursors stand at positions p and p + 1 of bucket i; what is ahead has
\* not been visited, and what was due and is not ahead has been.
EachAt(p) ==
  /\ i < ToInt(nbuckets) =>
       /\ i \in 0 .. nbuckets - 1
       /\ p \in 1 .. Len(buckets[i]) + 1
       /\ pos = At(buckets[i], p)
       /\ tmp = At(buckets[i], p + 1)
  /\ ~ (i < ToInt(nbuckets)) => pos = None
  /\ \A f \in seen : ~ Ahead(f, p)
  /\ nbuckets < Word \div 2 => due = seen \cup {f \in Entries : Ahead(f, p)}

EachInv == pc = "each" => \E p \in Nat \ {0} : EachAt(p)

LEMMA ToIntFact ==
  ASSUME NEW n \in Sizes
  PROVE  \/ n < Word \div 2 /\ ToInt(n) = n
         \/ ~ (n < Word \div 2) /\ ToInt(n) < 0 /\ ToInt(n) \in Int
BY DEF ToInt, Sizes

LEMMA AtType ==
  ASSUME NEW s \in Seq(Entries), NEW r \in Nat \ {0}
  PROVE  /\ At(s, r) \in Entries \cup {None}
         /\ r \in 1 .. Len(s) => At(s, r) = s[r] /\ At(s, r) # None
         /\ ~ (r \in 1 .. Len(s)) => At(s, r) = None
BY DEF At

\* In a chain without repetitions, what comes after position r is at r + 1.
LEMMA AfterAt ==
  ASSUME NEW s \in Seq(Entries), NEW r \in 1 .. Len(s) + 1,
         \A p, q \in 1 .. Len(s) : p # q => s[p] # s[q]
  PROVE  After(s, At(s, r)) = At(s, r + 1)
<1>1. Len(s) \in Nat /\ DOMAIN s = 1 .. Len(s)
  OBVIOUS
<1>2. CASE r \in 1 .. Len(s)
  <2>1. At(s, r) = s[r]
    BY <1>1, <1>2 DEF At
  <2>2. \E p \in DOMAIN s : s[p] = s[r]
    BY <1>1, <1>2
  <2>3. (CHOOSE p \in DOMAIN s : s[p] = s[r]) = r
    BY <1>1, <1>2
  <2>4. After(s, At(s, r)) = At(s, 1 + r)
    BY <2>1, <2>2, <2>3 DEF After
  <2> QED
    BY <2>4
<1>3. CASE r = Len(s) + 1
  <2>1. At(s, r) = None /\ At(s, r + 1) = None
    BY <1>1, <1>3 DEF At
  <2>2. ~ \E p \in DOMAIN s : s[p] = None
    BY <1>1
  <2> QED
    BY <2>1, <2>2 DEF After
<1> QED
  BY <1>1, <1>2, <1>3

LEMMA EachBeginStep ==
  ASSUME IInv, EachBegin
  PROVE  IInv' /\ EachInv'
<1>1. /\ TypeOK /\ Placing /\ UniqueKeys /\ CountOK /\ ValuesLive
      /\ LoadOK /\ RoomAhead
  BY DEF IInv
<1>2. /\ pc = "idle" /\ pc' = "each" /\ Enter(0) /\ seen' = {} /\ due' = Live
      /\ UNCHANGED <<buckets, nbuckets, count, key, val, liveVals, fresh,
                     nfresh, loose, Live>>
  BY DEF EachBegin, table, fields, rehash, Live
<1>3. /\ nbuckets \in Sizes /\ nbuckets \in Nat /\ nbuckets >= 4
      /\ Word \div 2 \in Nat
      /\ buckets[0] \in Seq(Entries)
  BY <1>1 DEF TypeOK, Sizes, Table
<1>4. i' = 0 /\ (0 < ToInt(nbuckets) <=> nbuckets < Word \div 2)
      /\ (0 < ToInt(nbuckets) => pos' = At(buckets[0], 1) /\ tmp' = At(buckets[0], 2))
      /\ (~ (0 < ToInt(nbuckets)) => pos' = None /\ tmp' = None)
  BY <1>2, <1>3, ToIntFact DEF Enter
<1>5. TypeOK'
  <2>1. pos' \in Entries \cup {None} /\ tmp' \in Entries \cup {None}
    BY <1>3, <1>4, AtType
  <2> QED
    BY <1>1, <1>2, <1>4, <2>1 DEF TypeOK, Live
<1>6. /\ Placing' /\ UniqueKeys' /\ CountOK' /\ ValuesLive' /\ LoadOK'
      /\ RoomAhead'
  BY <1>1, <1>2
     DEF Placing, UniqueKeys, CountOK, ValuesLive, LoadOK, RoomAhead
<1>7. EachAt(1)'
  <2>1. \A f \in Entries : Occurs(buckets, nbuckets, f) <=> f \in Live
    BY <1>1, <1>2 DEF Placing, Live, Homed, Occurs
  <2>2. \A f \in Entries : Ahead(f, 1)' <=> Occurs(buckets, nbuckets, f)
    <3> SUFFICES ASSUME NEW f \in Entries
                 PROVE  Ahead(f, 1)' <=> Occurs(buckets, nbuckets, f)
      OBVIOUS
    <3>1. \A b \in 0 .. nbuckets - 1 : b = 0 \/ b \in 0 + 1 .. nbuckets - 1
      BY <1>3
    <3>2. \A b \in 0 + 1 .. nbuckets - 1 : b \in 0 .. nbuckets - 1
      BY <1>3
    <3>3. 0 \in 0 .. nbuckets - 1 /\ 0 < nbuckets
      BY <1>3
    <3>4. Ahead(f, 1)' <=>
            \/ \E b \in 0 + 1 .. nbuckets - 1 :
                 \E q \in 1 .. Len(buckets[b]) : buckets[b][q] = f
            \/ \E q \in 1 .. Len(buckets[0]) : buckets[0][q] = f
      BY <1>2, <1>4, <3>3 DEF Ahead
    <3> QED
      BY <3>1, <3>2, <3>3, <3>4 DEF Occurs
  <2>3. due' = {f \in Entries : Ahead(f, 1)'}
    BY <1>2, <2>1, <2>2 DEF Live
  <2>4. 1 \in 1 .. Len(buckets[0]) + 1 /\ 0 \in 0 .. nbuckets - 1
    BY <1>3
  <2> QED
    BY <1>2, <1>4, <2>3, <2>4 DEF EachAt
<1>8. EachInv'
  BY <1>7 DEF EachInv
<1> QED
  BY <1>5, <1>6, <1>8 DEF IInv

LEMMA EachNextStep ==
  ASSUME IInv, EachInv, EachNext
  PROVE  IInv' /\ EachInv'
<1>1. /\ TypeOK /\ Placing /\ UniqueKeys /\ CountOK /\ ValuesLive
      /\ LoadOK /\ RoomAhead
  BY DEF IInv
<1>2. /\ pc = "each" /\ pc' = "each" /\ pos = None /\ i < ToInt(nbuckets)
      /\ Enter(i + 1) /\ i' = i + 1
      /\ UNCHANGED <<buckets, nbuckets, count, key, val, liveVals, fresh,
                     nfresh, loose, seen, due, Live>>
  BY DEF EachNext, Enter, table, fields, rehash, Live
<1>3. /\ nbuckets \in Sizes /\ nbuckets \in Nat /\ i \in Nat
      /\ buckets \in Table(nbuckets)
  BY <1>1 DEF TypeOK, Sizes
<1>4. nbuckets < Word \div 2 /\ ToInt(nbuckets) = nbuckets /\ i < nbuckets
  BY <1>2, <1>3, ToIntFact
<1>5. PICK p \in Nat \ {0} : EachAt(p)
  BY <1>2 DEF EachInv
<1>6. i + 1 < nbuckets =>
        /\ i + 1 \in 0 .. nbuckets - 1 /\ buckets[i + 1] \in Seq(Entries)
        /\ pos' = At(buckets[i + 1], 1) /\ tmp' = At(buckets[i + 1], 2)
  BY <1>2, <1>3, <1>4 DEF Enter, Table
<1>7. ~ (i + 1 < nbuckets) => pos' = None /\ tmp' = None
  BY <1>2, <1>4 DEF Enter
<1>8. TypeOK'
  <2>1. pos' \in Entries \cup {None} /\ tmp' \in Entries \cup {None}
    BY <1>6, <1>7, AtType
  <2> QED
    BY <1>1, <1>2, <1>3, <2>1 DEF TypeOK
<1>9. /\ Placing' /\ UniqueKeys' /\ CountOK' /\ ValuesLive' /\ LoadOK'
      /\ RoomAhead'
  BY <1>1, <1>2
     DEF Placing, UniqueKeys, CountOK, ValuesLive, LoadOK, RoomAhead
<1>10. EachAt(1)'
  <2>0. i \in 0 .. nbuckets - 1 /\ buckets[i] \in Seq(Entries)
    BY <1>3, <1>4 DEF Table
  <2>1. p = Len(buckets[i]) + 1
    <3>1. p \in 1 .. Len(buckets[i]) + 1 /\ pos = At(buckets[i], p)
      BY <1>2, <1>5 DEF EachAt
    <3> QED
      BY <1>2, <2>0, <3>1, AtType
  <2>2. \A f \in Entries : Ahead(f, 1)' <=> Ahead(f, p)
    <3> SUFFICES ASSUME NEW f \in Entries PROVE Ahead(f, 1)' <=> Ahead(f, p)
      OBVIOUS
    <3>1. ~ \E q \in p .. Len(buckets[i]) : buckets[i][q] = f
      BY <2>0, <2>1
    <3> DEFINE B(b) == \E q \in 1 .. Len(buckets[b]) : buckets[b][q] = f
    <3>2. /\ Ahead(f, 1)' <=> \/ \E b \in (i + 1) + 1 .. nbuckets - 1 : B(b)
                              \/ i + 1 < nbuckets /\ B(i + 1)
          /\ Ahead(f, p) <=> \E b \in i + 1 .. nbuckets - 1 : B(b)
      BY <1>2, <3>1 DEF Ahead
    <3> HIDE DEF B
    <3>3. \A b : b \in i + 1 .. nbuckets - 1 <=>
                   \/ b \in (i + 1) + 1 .. nbuckets - 1
                   \/ i + 1 < nbuckets /\ b = i + 1
      BY <1>3
    <3> QED
      BY <3>2, <3>3
  <2>3. {f \in Entries : Ahead(f, 1)'} = {f \in Entries : Ahead(f, p)}
    BY <2>2
  <2>4. \A f \in seen : ~ Ahead(f, 1)'
    BY <1>1, <1>5, <2>2 DEF EachAt, TypeOK
  <2>5. due' = seen' \cup {f \in Entries : Ahead(f, 1)'}
    BY <1>2, <1>4, <1>5, <2>3 DEF EachAt
  <2>6. i + 1 < nbuckets => 1 \in 1 .. Len(buckets[i + 1]) + 1
    BY <1>6
  <2> QED
    BY <1>2, <1>4, <1>6, <1>7, <2>4, <2>5, <2>6 DEF EachAt
<1>11. EachInv'
  BY <1>10 DEF EachInv
<1> QED
  BY <1>8, <1>9, <1>11 DEF IInv

LEMMA EachEndStep ==
  ASSUME IInv, EachEnd
  PROVE  IInv' /\ EachInv'
<1>1. /\ TypeOK /\ Placing /\ UniqueKeys /\ CountOK /\ ValuesLive
      /\ LoadOK /\ RoomAhead
  BY DEF IInv
<1>2. /\ pc = "each" /\ pc' = "idle" /\ i' = 0 /\ pos' = None /\ tmp' = None
      /\ seen' = {} /\ due' = {}
      /\ UNCHANGED <<buckets, nbuckets, count, key, val, liveVals, fresh,
                     nfresh, loose, Live>>
  BY DEF EachEnd, table, fields, rehash, Live
<1> QED
  BY <1>1, <1>2
     DEF IInv, TypeOK, Placing, UniqueKeys, CountOK, ValuesLive, LoadOK,
         RoomAhead, EachInv

\* fn may leave the chain alone or take the current entry out of it: what was
\* at position p + 1 is then at r.
LEMMA EachVisitStep ==
  ASSUME IInv, EachInv, EachVisit
  PROVE  IInv' /\ EachInv'
<1>1. /\ TypeOK /\ Placing /\ UniqueKeys /\ CountOK /\ ValuesLive
      /\ LoadOK /\ RoomAhead
  BY DEF IInv
<1>2. /\ pc = "each" /\ pc' = "each" /\ pos # None /\ i' = i /\ due' = due
      /\ seen' = seen \cup {pos}
      /\ pos' = tmp /\ tmp' = After(buckets'[i], tmp)
  BY DEF EachVisit, Step
<1>3. /\ nbuckets \in Sizes /\ nbuckets \in Nat /\ i \in Nat
      /\ buckets \in Table(nbuckets) /\ key \in Keyings
      /\ Homed(buckets, nbuckets, key)
  BY <1>1 DEF TypeOK, Sizes, Keyings, Placing
<1>4. PICK p \in Nat \ {0} : EachAt(p)
  BY <1>2 DEF EachInv
<1> DEFINE s == buckets[i]
<1>5. /\ i < ToInt(nbuckets) /\ i \in 0 .. nbuckets - 1
      /\ s \in Seq(Entries) /\ p \in 1 .. Len(s)
      /\ pos = s[p] /\ tmp = At(s, p + 1) /\ Len(s) \in Nat
  <2>1. /\ i < ToInt(nbuckets) /\ i \in 0 .. nbuckets - 1
        /\ p \in 1 .. Len(s) + 1 /\ pos = At(s, p) /\ tmp = At(s, p + 1)
    BY <1>2, <1>4 DEF EachAt
  <2>2. s \in Seq(Entries)
    BY <1>3, <2>1 DEF Table
  <2> QED
    BY <1>2, <2>1, <2>2, AtType
<1>6. /\ pos \in Live /\ key[pos] \in Keys
      /\ bucket_for_n(key[pos], nbuckets) = i
  BY <1>3, <1>5 DEF Homed, Live, bucket_for_n
\* What the callback does.
<1> DEFINE s1 == buckets'[i]
           Called ==
             /\ buckets' \in Table(nbuckets) /\ Homed(buckets', nbuckets, key')
             /\ key' \in Keyings /\ val' \in [Entries -> Vals \cup {None}]
             /\ liveVals' \in SUBSET Vals
             /\ \A f \in Live' : Occurs(buckets', nbuckets, f)
             /\ count' \in Nat /\ count' <= count
             /\ UniqueKeys' /\ CountOK' /\ ValuesLive'
             /\ nbuckets' = nbuckets /\ loose' = loose
             /\ \A c \in 0 .. nbuckets - 1 : c # i => buckets'[c] = buckets[c]
             /\ s1 \in Seq(Entries)
             /\ s1 = s \/ Without(s, p, s1)
<1>7. Called
  <2>1. CASE UNCHANGED <<table, count, fields, liveVals, rehash, loose>>
    BY <1>1, <1>2, <1>3, <1>5, <2>1
       DEF table, fields, TypeOK, Placing, UniqueKeys, CountOK, ValuesLive, Live
  <2>2. ASSUME NEW k \in Keys, NEW v \in Vals \cup {None}, Assign(k, v),
               liveVals' = With(v),
               UNCHANGED <<table, count, key, rehash, loose>>
        PROVE  Called
    <3>1. PICK q \in 1 .. Len(Chain(k)) : val' = [val EXCEPT ![Chain(k)[q]] = v]
      BY <2>2 DEF Assign
    <3>2. val' \in [Entries -> Vals \cup {None}] /\ liveVals' \in SUBSET Vals
      BY <1>1, <2>2, <3>1 DEF TypeOK, With
    <3>3. Live' = Live
      BY <2>2 DEF Live
    <3>4. ValuesLive'
      BY <1>1, <2>2, <3>1, <3>3 DEF ValuesLive, With, TypeOK, Live
    <3> QED
      BY <1>1, <1>2, <1>3, <1>5, <2>2, <3>2, <3>3, <3>4
         DEF table, TypeOK, Placing, UniqueKeys, CountOK
  <2>3. CASE Delete(key[pos])
    <3>1. /\ liveVals' = liveVals /\ nbuckets' = nbuckets /\ loose' = loose
          /\ Live' \subseteq Live /\ \A f \in Live' : val'[f] = val[f]
      BY <1>2, <1>6, <2>3, DeleteFacts
    <3>2. ValuesLive'
      BY <1>1, <3>1 DEF ValuesLive
    <3>3. PICK q \in 1 .. Len(s) :
            /\ key[s[q]] = key[pos]
            /\ s1 \in Seq(Entries)
            /\ Without(s, q, s1)
      BY <1>1, <1>2, <1>6, <2>3, DeleteFacts, ChainFacts
    <3>4. q = p
      <4>1. s[q] \in Live
        BY <1>3, <1>5, <3>3 DEF Homed, Live
      <4>2. s[q] = s[p]
        BY <1>1, <1>5, <1>6, <3>3, <4>1 DEF UniqueKeys
      <4> QED
        BY <1>3, <1>5, <3>3, <4>2 DEF Homed
    <3>5. /\ buckets' \in Table(nbuckets) /\ Homed(buckets', nbuckets, key')
          /\ key' \in Keyings /\ val' \in [Entries -> Vals \cup {None}]
          /\ \A f \in Live' : Occurs(buckets', nbuckets, f)
          /\ count' \in Nat /\ count' <= count
          /\ UniqueKeys' /\ CountOK'
          /\ \A c \in 0 .. nbuckets - 1 : c # i => buckets'[c] = buckets[c]
      BY <1>2, <1>6, <2>3, DeleteFacts
    <3> QED
      BY <1>1, <3>1, <3>2, <3>3, <3>4, <3>5 DEF TypeOK
  <2> HIDE DEF Called
  <2> QED
    BY <2>1, <2>2, <2>3 DEF EachVisit
<1>8. PICK r \in Nat \ {0} :
        /\ r \in 1 .. Len(s1) + 1
        /\ At(s, p + 1) = At(s1, r)
        /\ \A f : (\E q \in r .. Len(s1) : s1[q] = f)
                  <=> \E q \in p + 1 .. Len(s) : s[q] = f
  <2>1. CASE s1 = s
    <3>1. p + 1 \in 1 .. Len(s1) + 1
      BY <1>5, <2>1
    <3> QED
      BY <1>5, <2>1, <3>1
  <2>2. CASE Without(s, p, s1)
    <3> HIDE DEF s, s1
    <3>1. /\ Len(s1) = Len(s) - 1 /\ Len(s1) \in Nat
          /\ \A q \in p .. Len(s1) : s1[q] = s[q + 1]
      BY <1>5, <1>7, <2>2 DEF Without
    <3>2. p \in 1 .. Len(s1) + 1
      BY <1>5, <3>1
    <3>3. At(s, p + 1) = At(s1, p)
      <4>1. CASE p = Len(s)
        BY <1>5, <1>7, <3>1, <4>1, AtType
      <4>2. CASE p < Len(s)
        <5>1. p \in p .. Len(s1) /\ p \in 1 .. Len(s1) /\ p + 1 \in 1 .. Len(s)
          BY <1>5, <3>1, <4>2
        <5> QED
          BY <1>5, <1>7, <3>1, <5>1, AtType
      <4> QED
        BY <1>5, <4>1, <4>2
    <3>4. ASSUME NEW f
          PROVE  (\E q \in p .. Len(s1) : s1[q] = f)
                 <=> \E q \in p + 1 .. Len(s) : s[q] = f
      <4>1. \A q \in p .. Len(s1) : q + 1 \in p + 1 .. Len(s)
        BY <1>5, <3>1
      <4>2. \A q \in p + 1 .. Len(s) : q - 1 \in p .. Len(s1) /\ (q - 1) + 1 = q
        BY <1>5, <3>1
      <4> QED
        BY <3>1, <4>1, <4>2
    <3> QED
      BY <1>5, <3>2, <3>3, <3>4
  <2> QED
    BY <1>7, <2>1, <2>2
<1>9. tmp' = At(s1, r + 1)
  <2>1. \A q1, q2 \in 1 .. Len(s1) : q1 # q2 => s1[q1] # s1[q2]
    BY <1>5, <1>7 DEF Homed
  <2> QED
    BY <1>2, <1>5, <1>7, <1>8, <2>1, AfterAt
<1>10. TypeOK'
  <2>1. tmp' \in Entries \cup {None}
    BY <1>7, <1>8, <1>9, AtType
  <2>2. pos' \in Entries \cup {None} /\ seen' \in SUBSET Entries
    BY <1>1, <1>2, <1>6 DEF TypeOK, Live
  <2> QED
    BY <1>1, <1>2, <1>7, <2>1, <2>2 DEF TypeOK, Keyings
<1>11. Placing' /\ RoomAhead'
  BY <1>2, <1>7 DEF Placing, RoomAhead
<1>12. LoadOK'
  <2>1. count \in Nat /\ (~ loose => count * 4 < nbuckets * 3)
    BY <1>1, <1>2 DEF TypeOK, LoadOK
  <2>2. ~ loose => count' * 4 < nbuckets * 3
    BY <1>3, <1>7, <2>1, SmallerLoad
  <2> QED
    BY <1>2, <1>7, <2>2 DEF LoadOK
<1>13. \A f \in Entries : Ahead(f, r)' <=> Ahead(f, p) /\ f # pos
  <2> SUFFICES ASSUME NEW f \in Entries
               PROVE  Ahead(f, r)' <=> Ahead(f, p) /\ f # pos
    OBVIOUS
  <2> DEFINE Later == \E b \in i + 1 .. nbuckets - 1 :
                        \E q \in 1 .. Len(buckets[b]) : buckets[b][q] = f
             Rest == \E q \in p + 1 .. Len(s) : s[q] = f
  <2>1. Ahead(f, r)' <=> Later \/ Rest
    <3>1. \A b \in i + 1 .. nbuckets - 1 : buckets'[b] = buckets[b]
      BY <1>3, <1>5, <1>7
    <3>2. i < nbuckets
      BY <1>3, <1>5
    <3>3. Ahead(f, r)' <=>
            \/ \E b \in i + 1 .. nbuckets - 1 :
                 \E q \in 1 .. Len(buckets'[b]) : buckets'[b][q] = f
            \/ i < nbuckets /\ \E q \in r .. Len(s1) : s1[q] = f
      BY <1>2, <1>7 DEF Ahead
    <3>4. (\E b \in i + 1 .. nbuckets - 1 :
             \E q \in 1 .. Len(buckets'[b]) : buckets'[b][q] = f) <=> Later
      BY <3>1
    <3>5. (\E q \in r .. Len(s1) : s1[q] = f) <=> Rest
      BY <1>8
    <3> QED
      BY <3>2, <3>3, <3>4, <3>5
  <2>2. Ahead(f, p) <=> Later \/ f = pos \/ Rest
    <3>1. \A q : q \in p .. Len(s) <=> q = p \/ q \in p + 1 .. Len(s)
      BY <1>5
    <3>2. i < nbuckets
      BY <1>3, <1>5
    <3> QED
      BY <1>5, <3>1, <3>2 DEF Ahead
  <2>3. Later => f # pos
    <3> SUFFICES ASSUME NEW b \in i + 1 .. nbuckets - 1, NEW q \in 1 .. Len(buckets[b])
                 PROVE  buckets[b][q] # pos
      OBVIOUS
    <3>1. b \in 0 .. nbuckets - 1 /\ b # i
      BY <1>3, <1>5
    <3>2. Hash[key[buckets[b][q]]] % nbuckets = b
      BY <1>3, <3>1 DEF Homed
    <3> QED
      BY <1>6, <3>1, <3>2 DEF bucket_for_n
  <2>4. Rest => f # pos
    BY <1>3, <1>5 DEF Homed
  <2> QED
    BY <2>1, <2>2, <2>3, <2>4
<1>14. EachAt(r)'
  <2>1. \A f \in seen' : ~ Ahead(f, r)'
    BY <1>1, <1>2, <1>4, <1>6, <1>13 DEF EachAt, TypeOK, Live
  <2>2. Ahead(pos, p)
    <3>1. p \in p .. Len(s) /\ i < nbuckets
      BY <1>3, <1>5
    <3> QED
      BY <1>5, <3>1 DEF Ahead
  <2>3. nbuckets < Word \div 2 =>
          due' = seen' \cup {f \in Entries : Ahead(f, r)'}
    <3>1. nbuckets < Word \div 2 =>
            due = seen \cup {f \in Entries : Ahead(f, p)}
      BY <1>4 DEF EachAt
    <3>2. {f \in Entries : Ahead(f, r)'} = {f \in Entries : Ahead(f, p)} \ {pos}
      BY <1>13
    <3>3. pos \in {f \in Entries : Ahead(f, p)}
      BY <1>6, <2>2 DEF Live
    <3> DEFINE A == {f \in Entries : Ahead(f, p)}
               A1 == {f \in Entries : Ahead(f, r)'}
    <3> HIDE DEF A, A1
    <3>4. pos \in A /\ A1 = A \ {pos}
      BY <3>2, <3>3 DEF A, A1
    <3>5. nbuckets < Word \div 2 => due = seen \cup A
      BY <3>1 DEF A
    <3>6. nbuckets < Word \div 2 => due' = seen' \cup A1
      BY <1>2, <3>4, <3>5
    <3> QED
      BY <3>6 DEF A1
  <2> QED
    BY <1>2, <1>5, <1>7, <1>8, <1>9, <2>1, <2>3 DEF EachAt
<1>15. EachInv'
  BY <1>14 DEF EachInv
<1> QED
  BY <1>7, <1>10, <1>11, <1>12, <1>15 DEF IInv

-----------------------------------------------------------------------------
(* The theorems *)

LEMMA InitInv == Init => IInv /\ EachInv
<1> SUFFICES ASSUME Init PROVE IInv /\ EachInv
  OBVIOUS
<1>1. Live = {}
  BY DEF Init, Live
<1>2. FirstSize \in Sizes /\ key \in Keyings
  BY DEF Init, Sizes, Keyings
<1>3. TypeOK
  BY <1>2, EmptyType DEF Init, TypeOK, Sizes
<1>4. Placing
  BY <1>1, <1>2, EmptyHomed DEF Init, Placing
<1>5. CountOK
  BY <1>1, FS_EmptySet DEF Init, CountOK
<1>6. UniqueKeys /\ ValuesLive
  BY <1>1 DEF UniqueKeys, ValuesLive
<1>7. LoadOK /\ RoomAhead /\ EachInv
  BY <1>2 DEF Init, LoadOK, RoomAhead, EachInv, Sizes
<1> QED
  BY <1>3, <1>4, <1>5, <1>6, <1>7 DEF IInv

LEMMA NextInv == IInv /\ EachInv /\ [Next]_vars => IInv' /\ EachInv'
<1> SUFFICES ASSUME IInv, EachInv, [Next]_vars PROVE IInv' /\ EachInv'
  OBVIOUS
<1>1. ASSUME NEW k \in Keys, Del(k) PROVE IInv' /\ EachInv'
  BY <1>1, DelStep DEF Del, EachInv
<1>2. ASSUME NEW k \in Keys, NEW v \in Vals \cup {None},
             SetUpdate(k, v) \/ SetOwnedUpdate(k, v)
      PROVE  IInv' /\ EachInv'
  <2>1. pc' = "idle"
    BY <1>2 DEF SetUpdate, SetOwnedUpdate
  <2> QED
    BY <1>2, <2>1, UpdateStep DEF EachInv
<1>3. ASSUME NEW k \in Keys, NEW v \in Vals \cup {None}, SetInsert(k, v)
      PROVE  IInv' /\ EachInv'
  <2>1. pc' = "idle" \/ pc' = "rehash"
    BY <1>3 DEF SetInsert, StartRehash
  <2> QED
    BY <1>3, <2>1, InsertStep DEF EachInv
<1>4. ASSUME NEW n \in CallerSizes, Rehash(n) PROVE IInv' /\ EachInv'
  BY <1>4, RehashStep DEF Rehash, StartRehash, EachInv
<1>5. CASE RehashMove
  BY <1>5, RehashMoveStep DEF RehashMove, EachInv
<1>6. CASE RehashNext
  BY <1>6, RehashNextStep DEF RehashNext, EachInv
<1>7. CASE RehashEnd
  BY <1>7, RehashEndStep DEF RehashEnd, EachInv
<1>8. CASE EachBegin \/ EachVisit \/ EachNext \/ EachEnd
  BY <1>8, EachBeginStep, EachVisitStep, EachNextStep, EachEndStep
<1>9. CASE UNCHANGED vars
  <2>1. UNCHANGED Live
    BY <1>9 DEF vars, Live
  <2>2. TypeOK' /\ CountOK' /\ LoadOK' /\ RoomAhead'
    BY <1>9, <2>1 DEF vars, IInv, TypeOK, CountOK, LoadOK, RoomAhead
  <2>3. Placing'
    BY <1>9, <2>1 DEF vars, IInv, Placing
  <2>4. UniqueKeys' /\ ValuesLive'
    BY <1>9, <2>1 DEF vars, IInv, UniqueKeys, ValuesLive
  <2>5. \A p : EachAt(p)' <=> EachAt(p)
    BY <1>9 DEF vars, EachAt, Ahead
  <2>6. EachInv'
    BY <1>9, <2>5 DEF vars, EachInv
  <2> QED
    BY <2>2, <2>3, <2>4, <2>6 DEF IInv
<1> QED
  BY <1>1, <1>2, <1>3, <1>4, <1>5, <1>6, <1>7, <1>8, <1>9 DEF Next, LoopNext

LEMMA Always == Spec => [](IInv /\ EachInv)
BY InitInv, NextInv, PTL DEF Spec

\* The fields of the dict and the cursors of its loops always have their types.
THEOREM DictTypes == Spec => []TypeOK
<1>1. IInv => TypeOK
  BY DEF IInv
<1> QED
  BY <1>1, Always, PTL

\* Every entry is in the bucket of its key's hash and in no other, in
\* d->buckets and, while dict_rehash moves the entries, in one of two tables.
THEOREM EntriesPlaced == Spec => []Placed
<1>1. IInv => Placed
  <2> SUFFICES ASSUME IInv PROVE Placed
    OBVIOUS
  <2>1. TypeOK /\ Placing
    BY DEF IInv
  <2>2. /\ nbuckets \in Sizes /\ buckets \in Table(nbuckets) /\ key \in Keyings
        /\ (pc = "rehash" => nfresh \in Sizes /\ fresh \in Table(nfresh))
    BY <2>1 DEF TypeOK, Sizes, Keyings
  <2>3. ASSUME NEW n \in Sizes, NEW t \in Table(n), Homed(t, n, key)
        PROVE  /\ PlacedIn(t, n)
               /\ \A e \in Live : Occurs(t, n, e) <=> In(t, bucket_for_n(key[e], n), e)
    <3>1. \A b \in 0 .. n - 1 : DOMAIN t[b] = 1 .. Len(t[b])
      BY DEF Table
    <3>2. \A b \in 0 .. n - 1 : \A p \in 1 .. Len(t[b]) :
            t[b][p] \in Live /\ bucket_for_n(key[t[b][p]], n) = b
      BY <2>3, ElementType DEF Homed, Live, bucket_for_n
    <3>3. PlacedIn(t, n)
      BY <2>3, <3>1, <3>2 DEF PlacedIn, Homed
    <3>4. ASSUME NEW e \in Live
          PROVE  Occurs(t, n, e) <=> In(t, bucket_for_n(key[e], n), e)
      <4>1. key[e] \in Keys /\ e \in Entries
        BY <2>2 DEF Live, Keyings
      <4>2. bucket_for_n(key[e], n) \in 0 .. n - 1
        BY <4>1, Home DEF bucket_for_n
      <4> QED
        BY <3>1, <3>2, <4>2 DEF Occurs, In
    <3> QED
      BY <3>3, <3>4
  <2>4. PlacedIn(buckets, nbuckets)
        /\ \A e \in Live : Occurs(buckets, nbuckets, e) <=> InOld(e)
    BY <2>1, <2>2, <2>3 DEF Placing, InOld
  <2>5. pc = "rehash" =>
          /\ PlacedIn(fresh, nfresh)
          /\ \A e \in Live : Occurs(fresh, nfresh, e) <=> InFresh(e)
    BY <2>1, <2>2, <2>3 DEF Placing, InFresh
  <2>6. pc # "rehash" => \A e \in Live : InOld(e)
    BY <2>1, <2>4 DEF Placing
  <2>7. pc = "rehash" => \A e \in Live : InOld(e) # InFresh(e)
    <3> SUFFICES ASSUME pc = "rehash", NEW e \in Live PROVE InOld(e) # InFresh(e)
      OBVIOUS
    <3>1. Occurs(buckets, nbuckets, e) <=> ~ Occurs(fresh, nfresh, e)
      BY <2>1 DEF Placing
    <3>2. InOld(e) \in BOOLEAN /\ InFresh(e) \in BOOLEAN
      BY DEF InOld, InFresh, In
    <3> QED
      BY <2>4, <2>5, <3>1, <3>2
  <2> QED
    BY <2>1, <2>4, <2>5, <2>6, <2>7 DEF Placed, Placing
<1> QED
  BY <1>1, Always, PTL

\* No key is ever in the dict twice.
THEOREM KeysUnique == Spec => []UniqueKeys
<1>1. IInv => UniqueKeys
  BY DEF IInv
<1> QED
  BY <1>1, Always, PTL

\* d->count is always the number of entries.
THEOREM CountExact == Spec => []CountOK
<1>1. IInv => CountOK
  BY DEF IInv
<1> QED
  BY <1>1, Always, PTL

\* The dict never holds a value dict_set_owned has freed.
THEOREM NoFreedValue == Spec => []ValuesLive
<1>1. IInv => ValuesLive
  BY DEF IInv
<1> QED
  BY <1>1, Always, PTL

\* The load stays below 3/4 until growth fails or the caller chooses a size.
THEOREM LoadBounded == Spec => []LoadOK
<1>1. IInv => LoadOK
  BY DEF IInv
<1> QED
  BY <1>1, Always, PTL

LEMMA CurrentLive ==
  ASSUME IInv, EachInv, pc = "each", pos # None
  PROVE  pos \in Live
<1>1. PICK p \in Nat \ {0} : EachAt(p)
  BY DEF EachInv
<1>2. i \in 0 .. nbuckets - 1 /\ pos = At(buckets[i], p)
  BY <1>1 DEF EachAt
<1>3. buckets[i] \in Seq(Entries)
  BY <1>2 DEF IInv, TypeOK, Table
<1>4. p \in 1 .. Len(buckets[i]) /\ pos = buckets[i][p] /\ pos \in Entries
  BY <1>2, <1>3, AtType
<1> QED
  BY <1>2, <1>4 DEF IInv, Placing, Homed, Live

\* dict_each always stands on a live entry it has not visited, whatever its
\* callback deletes.
THEOREM IterationSafe == Spec => []EachSafe
<1>1. IInv /\ EachInv => EachSafe
  <2> SUFFICES ASSUME IInv, EachInv, pc = "each", pos # None
               PROVE  /\ i \in DOMAIN buckets
                      /\ pos \notin seen
                      /\ \E p \in DOMAIN buckets[i] :
                           buckets[i][p] = pos /\ tmp = At(buckets[i], p + 1)
    BY DEF EachSafe
  <2>1. PICK p \in Nat \ {0} : EachAt(p)
    BY DEF EachInv
  <2>2. /\ i < ToInt(nbuckets) /\ i \in 0 .. nbuckets - 1
        /\ pos = At(buckets[i], p) /\ tmp = At(buckets[i], p + 1)
    BY <2>1 DEF EachAt
  <2>3. /\ nbuckets \in Nat /\ DOMAIN buckets = 0 .. nbuckets - 1
        /\ buckets[i] \in Seq(Entries)
    BY <2>2 DEF IInv, TypeOK, Table
  <2>4. p \in 1 .. Len(buckets[i]) /\ pos = buckets[i][p]
    BY <2>2, <2>3, AtType
  <2>5. Ahead(pos, p)
    <3>1. p \in p .. Len(buckets[i]) /\ i < nbuckets
      BY <2>2, <2>3, <2>4
    <3> QED
      BY <2>4, <3>1 DEF Ahead
  <2> QED
    BY <2>1, <2>2, <2>3, <2>4, <2>5 DEF EachAt
<1> QED
  BY <1>1, Always, PTL

\* In a table of fewer than 2^31 buckets dict_each calls fn on every entry the
\* dict had, although fn deletes entries as it goes.
THEOREM IterationComplete == Spec => []EachComplete
<1>1. IInv /\ EachInv => EachComplete
  <2> SUFFICES ASSUME IInv, EachInv, pc = "each", nbuckets < Word \div 2,
                      i >= ToInt(nbuckets)
               PROVE  seen = due
    BY DEF EachComplete
  <2>1. PICK p \in Nat \ {0} : EachAt(p)
    BY DEF EachInv
  <2>2. nbuckets \in Sizes /\ nbuckets \in Nat /\ i \in Nat
    BY DEF IInv, TypeOK, Sizes
  <2>3. i >= nbuckets
    BY <2>2, ToIntFact
  <2>4. \A f \in Entries : ~ Ahead(f, p)
    BY <2>2, <2>3 DEF Ahead
  <2> QED
    BY <2>1, <2>4 DEF EachAt
<1> QED
  BY <1>1, Always, PTL

-----------------------------------------------------------------------------
(* Both loops go on *)

\* The entries dict_rehash has still to move, or dict_each to call fn on.
LeftOver ==
  IF pc = "rehash" THEN {e \in Live : Occurs(buckets, nbuckets, e)} ELSE due \ seen

\* A step deals with one of them, or goes on to the next of the buckets there
\* were when the loop began, or ends the loop.
Onward ==
  \/ pc' = "idle"
  \/ /\ pc' = pc /\ nbuckets' = nbuckets
     /\ \/ i' = i /\ \E e \in LeftOver : LeftOver' = LeftOver \ {e}
        \/ i' = i + 1 /\ i < nbuckets /\ LeftOver' = LeftOver
LoopAdvances == [][pc # "idle" => Onward]_vars

DueFinite == IsFiniteSet(due)

LEMMA DueStep == IInv /\ DueFinite /\ [Next]_vars => DueFinite'
<1> SUFFICES ASSUME IInv, DueFinite, [Next]_vars PROVE due' \in {due, Live, {}}
  BY FS_EmptySet DEF IInv, CountOK, DueFinite
<1>1. ASSUME NEW k \in Keys, Del(k) PROVE due' = due
  BY <1>1 DEF Del, cursor
<1>2. ASSUME NEW k \in Keys, NEW v,
             SetUpdate(k, v) \/ SetOwnedUpdate(k, v) \/ SetInsert(k, v)
      PROVE  due' = due
  BY <1>2 DEF SetUpdate, SetOwnedUpdate, SetInsert, cursor
<1>3. ASSUME NEW n, Rehash(n) PROVE due' = due
  BY <1>3 DEF Rehash, cursor
<1>4. CASE RehashMove \/ RehashNext \/ RehashEnd
  BY <1>4 DEF RehashMove, RehashNext, RehashEnd, cursor
<1>5. CASE EachBegin \/ EachVisit \/ EachNext \/ EachEnd
  BY <1>5 DEF EachBegin, EachVisit, EachNext, EachEnd
<1>6. CASE UNCHANGED vars
  BY <1>6 DEF vars
<1> QED
  BY <1>1, <1>2, <1>3, <1>4, <1>5, <1>6 DEF Next, LoopNext

LEMMA LoopStep ==
  ASSUME IInv, EachInv, LoopNext, pc # "idle"
  PROVE  Onward
<1>1. CASE RehashMove
  <2>1. PICK e : e = Head(buckets[i])
    OBVIOUS
  <2>2. /\ e \in Live /\ Occurs(buckets, nbuckets, e)
        /\ \A f \in Entries :
             Occurs(buckets', nbuckets, f) <=> f # e /\ Occurs(buckets, nbuckets, f)
    BY <1>1, <2>1, HeadLeaves
  <2>3. pc = "rehash" /\ pc' = pc /\ i' = i /\ nbuckets' = nbuckets /\ Live' = Live
    BY <1>1 DEF RehashMove, fields, Live
  <2>4. Live \subseteq Entries
    BY DEF Live
  <2>5. e \in LeftOver /\ LeftOver' = LeftOver \ {e}
    BY <2>2, <2>3, <2>4 DEF LeftOver
  <2> QED
    BY <2>3, <2>5 DEF Onward
<1>2. CASE RehashNext
  BY <1>2 DEF RehashNext, table, fields, Live, LeftOver, Occurs, Onward
<1>3. CASE RehashEnd \/ EachEnd
  BY <1>3 DEF RehashEnd, EachEnd, Onward
<1>4. CASE EachVisit
  <2>1. /\ pc = "each" /\ pos # None /\ i' = i /\ due' = due /\ seen' = seen \cup {pos}
        /\ pc' = pc /\ nbuckets' = nbuckets
    BY <1>4 DEF EachVisit, Delete, table
  <2>2. PICK p \in Nat \ {0} : EachAt(p)
    BY <2>1 DEF EachInv
  <2>3. /\ i < ToInt(nbuckets) /\ i \in 0 .. nbuckets - 1
        /\ p \in 1 .. Len(buckets[i]) + 1 /\ pos = At(buckets[i], p)
    BY <2>1, <2>2 DEF EachAt
  <2>4. /\ nbuckets \in Sizes /\ nbuckets \in Nat /\ buckets[i] \in Seq(Entries)
    BY <2>3 DEF IInv, TypeOK, Sizes, Table
  <2>5. p \in 1 .. Len(buckets[i]) /\ pos = buckets[i][p] /\ pos \in Entries
    BY <2>1, <2>3, <2>4, AtType
  <2>6. Ahead(pos, p)
    <3>1. p \in p .. Len(buckets[i]) /\ i < nbuckets
      BY <2>3, <2>4, <2>5
    <3> QED
      BY <2>5, <3>1 DEF Ahead
  <2>7. pos \notin seen
    BY <2>2, <2>6 DEF EachAt
  <2>8. nbuckets < Word \div 2
    <3>1. i \in Nat /\ (nbuckets < Word \div 2 \/ (ToInt(nbuckets) < 0 /\ ToInt(nbuckets) \in Int))
      BY <2>3, <2>4, ToIntFact
    <3> QED
      BY <2>3, <3>1
  <2>9. pos \in due
    BY <2>2, <2>5, <2>6, <2>8 DEF EachAt
  <2>10. pos \in LeftOver /\ LeftOver' = LeftOver \ {pos}
    BY <2>1, <2>7, <2>9 DEF LeftOver
  <2> QED
    BY <2>1, <2>10 DEF Onward
<1>5. CASE EachNext
  <2>1. /\ pc = "each" /\ pc' = pc /\ i' = i + 1 /\ seen' = seen /\ due' = due
        /\ nbuckets' = nbuckets /\ i < ToInt(nbuckets)
    BY <1>5 DEF EachNext, Enter, table
  <2>2. i < nbuckets
    <3>1. nbuckets \in Sizes /\ nbuckets \in Nat /\ i \in Nat
      BY DEF IInv, TypeOK, Sizes
    <3> QED
      BY <2>1, <3>1, ToIntFact
  <2> QED
    BY <2>1, <2>2 DEF Onward, LeftOver
<1> QED
  BY <1>1, <1>2, <1>3, <1>4, <1>5 DEF LoopNext

\* Neither dict_rehash nor dict_each goes round in a chain: each step deals with
\* one of finitely many entries, which it never comes to again, or leaves a bucket
\* of finitely many for the next, although dict_rehash links entries into chains
\* while it goes through others and fn deletes what dict_each stands on.
THEOREM LoopsMakeHeadway == Spec => [](pc # "idle" => IsFiniteSet(LeftOver)) /\ LoopAdvances
<1>1. Init => DueFinite
  BY FS_EmptySet DEF Init, DueFinite
<1>2. IInv /\ DueFinite => (pc # "idle" => IsFiniteSet(LeftOver))
  <2> SUFFICES ASSUME IInv, DueFinite PROVE IsFiniteSet(LeftOver)
    OBVIOUS
  <2>1. LeftOver \subseteq Live \/ LeftOver \subseteq due
    BY DEF LeftOver
  <2> QED
    BY <2>1, FS_Subset DEF IInv, CountOK, DueFinite
<1>3. IInv /\ EachInv /\ [Next]_vars => [pc # "idle" => Onward]_vars
  <2> SUFFICES ASSUME IInv, EachInv, Next, pc # "idle" PROVE Onward
    BY DEF vars
  <2>1. LoopNext
    BY DEF Next, Del, SetUpdate, SetOwnedUpdate, SetInsert, Rehash, EachBegin
  <2> QED
    BY <2>1, LoopStep
<1> QED
  BY <1>1, <1>2, <1>3, DueStep, Always, PTL DEF Spec, LoopAdvances

-----------------------------------------------------------------------------
(* The refinement *)

\* What dict_get finds is what the entries hold.
SeenFacts ==
  /\ DOMAIN SeenMap = Keys
  /\ \A e \in Live : key[e] \in Keys /\ SeenMap[key[e]] = val[e]
  /\ \A k \in Keys : (\A e \in Live : key[e] # k) => SeenMap[k] = Absent

LEMMA Seen == IInv => SeenFacts
<1> SUFFICES ASSUME IInv PROVE SeenFacts
  OBVIOUS
<1>1. TypeOK /\ Placing /\ UniqueKeys
  BY DEF IInv
<1>2. /\ nbuckets \in Sizes /\ buckets \in Table(nbuckets) /\ key \in Keyings
      /\ (pc = "rehash" => nfresh \in Sizes /\ fresh \in Table(nfresh))
  BY <1>1 DEF TypeOK, Sizes, Keyings
<1>3. ASSUME NEW n \in Sizes, NEW t \in Table(n), Homed(t, n, key),
             NEW e \in Live, Occurs(t, n, e)
      PROVE  In(t, bucket_for_n(key[e], n), e)
  <2>1. e \in Entries /\ key[e] \in Keys
    BY <1>2 DEF Live, Keyings
  <2>2. bucket_for_n(key[e], n) \in 0 .. n - 1
    BY <2>1, Home DEF bucket_for_n
  <2>3. DOMAIN t[bucket_for_n(key[e], n)] = 1 .. Len(t[bucket_for_n(key[e], n)])
    BY <2>2 DEF Table
  <2> QED
    BY <1>2, <1>3, <2>1, <2>3, OccursAtHome DEF In, bucket_for_n
<1>4. ASSUME NEW e \in Live PROVE Found(key[e]) = {e}
  <2>1. e \in Entries /\ key[e] \in Keys
    BY <1>2 DEF Live, Keyings
  <2>2. e \in Found(key[e])
    <3>1. CASE pc # "rehash"
      <4>1. Occurs(buckets, nbuckets, e) /\ Homed(buckets, nbuckets, key)
        BY <1>1, <3>1 DEF Placing
      <4> QED
        BY <1>2, <1>3, <2>1, <4>1 DEF Found
    <3>2. CASE pc = "rehash"
      <4>1. /\ Occurs(buckets, nbuckets, e) \/ Occurs(fresh, nfresh, e)
            /\ Homed(buckets, nbuckets, key) /\ Homed(fresh, nfresh, key)
        BY <1>1, <3>2 DEF Placing
      <4>2. CASE Occurs(buckets, nbuckets, e)
        BY <1>2, <1>3, <2>1, <4>1, <4>2 DEF Found
      <4>3. CASE Occurs(fresh, nfresh, e)
        BY <1>2, <1>3, <2>1, <3>2, <4>1, <4>3 DEF Found
      <4> QED
        BY <4>1, <4>2, <4>3
    <3> QED
      BY <3>1, <3>2
  <2>3. \A f \in Found(key[e]) : f = e
    BY <1>1, <2>1 DEF Found, Live, UniqueKeys
  <2> QED
    BY <2>2, <2>3
<1>5. \A k \in Keys : (\A e \in Live : key[e] # k) => Found(k) = {}
  BY DEF Found, Live
<1>6. \A e \in Live : key[e] \in Keys /\ SeenMap[key[e]] = val[e]
  <2> SUFFICES ASSUME NEW e \in Live
               PROVE  key[e] \in Keys /\ SeenMap[key[e]] = val[e]
    OBVIOUS
  <2>1. key[e] \in Keys
    BY <1>2 DEF Live, Keyings
  <2>2. (CHOOSE f \in {e} : TRUE) = e
    OBVIOUS
  <2> QED
    BY <1>4, <2>1, <2>2 DEF SeenMap
<1>7. \A k \in Keys : (\A e \in Live : key[e] # k) => SeenMap[k] = Absent
  BY <1>5 DEF SeenMap
<1> QED
  BY <1>6, <1>7 DEF SeenFacts, SeenMap

LEMMA SeenNext == IInv' => SeenFacts'
BY Seen, PTL

\* A step that leaves the fields of the entries alone does not show.
LEMMA SeenSame ==
  ASSUME SeenFacts, SeenFacts', key' = key, val' = val
  PROVE  SeenMap' = SeenMap
<1>1. DOMAIN SeenMap = Keys /\ DOMAIN SeenMap' = Keys /\ Live' = Live
  BY DEF SeenFacts, Live
<1>2. \A k \in Keys : SeenMap'[k] = SeenMap[k]
  BY <1>1 DEF SeenFacts
<1>3. SeenMap = [k \in Keys |-> SeenMap[k]] /\ SeenMap' = [k \in Keys |-> SeenMap'[k]]
  BY <1>1 DEF SeenMap
<1> QED
  BY <1>2, <1>3

\* A key that is stored is seen: its value is not Absent, which is no value.
LEMMA SeenAt ==
  ASSUME TypeOK, SeenFacts, NEW e \in Live
  PROVE  SeenMap[key[e]] = val[e] /\ val[e] # Absent /\ key[e] \in Keys
BY DEF SeenFacts, TypeOK, Live

LEMMA UpdateSeen ==
  ASSUME TypeOK, UniqueKeys, SeenFacts, SeenFacts', NEW k \in Keys,
         NEW v \in Vals \cup {None}, NEW e \in Live, key[e] = k,
         key' = key, val' = [val EXCEPT ![e] = v], count' = count
  PROVE  Map!Update(k, v)
<1>1. Live' = Live
  BY DEF Live
<1>2. val'[e] = v /\ \A f \in Live : f # e => val'[f] = val[f]
  BY DEF TypeOK, Live
<1>3. \A j \in Keys : SeenMap'[j] = IF j = k THEN v ELSE SeenMap[j]
  <2> SUFFICES ASSUME NEW j \in Keys
               PROVE  SeenMap'[j] = IF j = k THEN v ELSE SeenMap[j]
    OBVIOUS
  <2>1. CASE j = k
    BY <1>1, <1>2, <2>1 DEF SeenFacts
  <2>2. CASE j # k /\ \E f \in Live : key[f] = j
    <3>1. PICK f \in Live : key[f] = j /\ f # e
      BY <2>2
    <3> QED
      BY <1>1, <1>2, <2>2, <3>1 DEF SeenFacts
  <2>3. CASE j # k /\ \A f \in Live : key[f] # j
    BY <1>1, <2>3 DEF SeenFacts
  <2> QED
    BY <2>1, <2>2, <2>3
<1>4. SeenMap = [j \in Keys |-> SeenMap[j]] /\ SeenMap' = [j \in Keys |-> SeenMap'[j]]
  BY DEF SeenMap
<1>5. SeenMap' = [SeenMap EXCEPT ![k] = v]
  BY <1>3, <1>4
<1>6. SeenMap[k] # Absent
  BY SeenAt
<1> QED
  BY <1>5, <1>6 DEF Map!Update

LEMMA InsertSeen ==
  ASSUME TypeOK, TypeOK', SeenFacts, SeenFacts', NEW k \in Keys,
         NEW v \in Vals \cup {None}, NEW e \in Entries \ Live,
         \A f \in Live : key[f] # k,
         key' = [key EXCEPT ![e] = k], val' = [val EXCEPT ![e] = v],
         count' = count + 1
  PROVE  Map!Insert(k, v)
<1>1. Live' = Live \cup {e}
  BY DEF Live, TypeOK
<1>2. /\ val'[e] = v /\ key'[e] = k
      /\ \A f \in Live : val'[f] = val[f] /\ key'[f] = key[f]
  BY DEF TypeOK, Live
<1>3. \A j \in Keys : SeenMap'[j] = IF j = k THEN v ELSE SeenMap[j]
  <2> SUFFICES ASSUME NEW j \in Keys
               PROVE  SeenMap'[j] = IF j = k THEN v ELSE SeenMap[j]
    OBVIOUS
  <2>1. CASE j = k
    BY <1>1, <1>2, <2>1 DEF SeenFacts
  <2>2. CASE j # k /\ \E f \in Live : key[f] = j
    BY <1>1, <1>2, <2>2 DEF SeenFacts
  <2>3. CASE j # k /\ \A f \in Live : key[f] # j
    BY <1>1, <1>2, <2>3 DEF SeenFacts
  <2> QED
    BY <2>1, <2>2, <2>3
<1>4. SeenMap = [j \in Keys |-> SeenMap[j]] /\ SeenMap' = [j \in Keys |-> SeenMap'[j]]
  BY DEF SeenMap
<1>5. SeenMap' = [SeenMap EXCEPT ![k] = v]
  BY <1>3, <1>4
<1>6. SeenMap[k] = Absent
  BY DEF SeenFacts
<1> QED
  BY <1>5, <1>6 DEF Map!Insert

LEMMA DeleteSeen ==
  ASSUME TypeOK, UniqueKeys, SeenFacts, SeenFacts', NEW k \in Keys,
         NEW e \in Live, key[e] = k,
         key' = [key EXCEPT ![e] = None], val' = [val EXCEPT ![e] = None],
         count' = count - 1
  PROVE  Map!Delete(k)
<1>1. Live' = Live \ {e}
  BY DEF Live, TypeOK
<1>2. \A f \in Live' : val'[f] = val[f] /\ key'[f] = key[f]
  BY <1>1 DEF TypeOK, Live
<1>3. \A j \in Keys : SeenMap'[j] = IF j = k THEN Absent ELSE SeenMap[j]
  <2> SUFFICES ASSUME NEW j \in Keys
               PROVE  SeenMap'[j] = IF j = k THEN Absent ELSE SeenMap[j]
    OBVIOUS
  <2>1. CASE j = k
    <3>1. \A f \in Live' : key'[f] # k
      BY <1>1, <1>2 DEF UniqueKeys
    <3> QED
      BY <2>1, <3>1 DEF SeenFacts
  <2>2. CASE j # k /\ \E f \in Live : key[f] = j
    <3>1. PICK f \in Live : key[f] = j /\ f # e
      BY <2>2
    <3> QED
      BY <1>1, <1>2, <2>2, <3>1 DEF SeenFacts
  <2>3. CASE j # k /\ \A f \in Live : key[f] # j
    BY <1>1, <1>2, <2>3 DEF SeenFacts
  <2> QED
    BY <2>1, <2>2, <2>3
<1>4. SeenMap = [j \in Keys |-> SeenMap[j]] /\ SeenMap' = [j \in Keys |-> SeenMap'[j]]
  BY DEF SeenMap
<1>5. SeenMap' = [SeenMap EXCEPT ![k] = Absent]
  BY <1>3, <1>4
<1>6. SeenMap[k] # Absent
  BY SeenAt
<1> QED
  BY <1>5, <1>6 DEF Map!Delete

\* What the callbacks and the operations that assign and delete do.
LEMMA AssignShows ==
  ASSUME IInv, SeenFacts, SeenFacts', NEW k \in Keys,
         NEW v \in Vals \cup {None}, Assign(k, v), key' = key, count' = count
  PROVE  Map!Next
<1>1. TypeOK /\ Placing /\ UniqueKeys
  BY DEF IInv
<1>2. PICK p \in 1 .. Len(Chain(k)) :
        FoundAt(k, p) /\ val' = [val EXCEPT ![Chain(k)[p]] = v]
  BY DEF Assign
<1>3. Chain(k)[p] \in Live /\ key[Chain(k)[p]] = k
  BY <1>1, <1>2, ChainFacts DEF FoundAt
<1>4. Map!Update(k, v)
  BY <1>1, <1>2, <1>3, UpdateSeen
<1> QED
  BY <1>4 DEF Map!Next

LEMMA DeleteShows ==
  ASSUME IInv, SeenFacts, SeenFacts', NEW k \in Keys, Delete(k)
  PROVE  Map!Next
<1>1. TypeOK /\ Placing /\ UniqueKeys
  BY DEF IInv
<1>2. PICK p \in 1 .. Len(Chain(k)) :
        /\ FoundAt(k, p)
        /\ key' = [key EXCEPT ![Chain(k)[p]] = None]
        /\ val' = [val EXCEPT ![Chain(k)[p]] = None]
  BY DEF Delete
<1>3. Chain(k)[p] \in Live /\ key[Chain(k)[p]] = k
  BY <1>1, <1>2, ChainFacts DEF FoundAt
<1>4. count' = count - 1
  BY DEF Delete, CountAfterDel
<1>5. Map!Delete(k)
  BY <1>1, <1>2, <1>3, <1>4, DeleteSeen
<1> QED
  BY <1>5 DEF Map!Next

\* To its callers the table is DictMap: an operation is one step of it, and
\* moving the entries between tables and visiting them do not show.
THEOREM ImplementsMap == Spec => IsMap
<1>1. Init => Map!Init
  <2> SUFFICES ASSUME Init PROVE Map!Init
    OBVIOUS
  <2>1. \A k \in Keys : Found(k) = {}
    BY DEF Init, Found
  <2> QED
    BY <2>1 DEF Init, Map!Init, SeenMap
<1>2. IInv /\ EachInv /\ IInv' /\ [Next]_vars => [Map!Next]_(Map!vars)
  <2> SUFFICES ASSUME IInv, EachInv, IInv', [Next]_vars
               PROVE  [Map!Next]_(Map!vars)
    OBVIOUS
  <2>0. /\ TypeOK /\ TypeOK' /\ Placing /\ UniqueKeys
        /\ SeenFacts /\ SeenFacts'
    BY Seen, SeenNext DEF IInv
  <2>1. ASSUME UNCHANGED <<key, val, count>> PROVE UNCHANGED Map!vars
    BY <2>0, <2>1, SeenSame DEF Map!vars
  <2>2. ASSUME NEW k \in Keys, Del(k) PROVE Map!Next
    BY <2>0, <2>2, DeleteShows DEF Del
  <2>3. ASSUME NEW k \in Keys, NEW v \in Vals \cup {None}, SetUpdate(k, v)
        PROVE  Map!Next
    BY <2>0, <2>3, AssignShows DEF SetUpdate
  <2>4. ASSUME NEW k \in Keys, NEW v \in Vals \cup {None}, SetOwnedUpdate(k, v)
        PROVE  Map!Next
    BY <2>0, <2>4, AssignShows DEF SetOwnedUpdate, Assign
  <2>5. ASSUME NEW k \in Keys, NEW v \in Vals \cup {None}, SetInsert(k, v)
        PROVE  Map!Next
    <3>1. PICK e \in Entries \ Live :
            key' = [key EXCEPT ![e] = k] /\ val' = [val EXCEPT ![e] = v]
      BY <2>5 DEF SetInsert
    <3>2. count' = count + 1 /\ pc # "rehash" /\ ~ Has(k)
      BY <2>5 DEF SetInsert
    <3>3. \A f \in Live : key[f] # k
      BY <2>0, <3>2, NotFound
    <3>4. Map!Insert(k, v)
      BY <2>0, <3>1, <3>2, <3>3, InsertSeen
    <3> QED
      BY <3>4 DEF Map!Next
  <2>6. ASSUME NEW n \in CallerSizes, Rehash(n) PROVE UNCHANGED Map!vars
    BY <2>1, <2>6 DEF Rehash, fields
  <2>7. CASE RehashMove \/ RehashNext \/ RehashEnd \/ EachBegin \/ EachNext \/ EachEnd
    <3>1. UNCHANGED <<key, val, count>>
      BY <2>7 DEF RehashMove, RehashNext, RehashEnd, EachBegin, EachNext,
                  EachEnd, fields
    <3> QED
      BY <2>1, <3>1
  <2>8. CASE EachVisit
    <3>1. CASE UNCHANGED <<table, count, fields, liveVals, rehash, loose>>
      BY <2>1, <3>1 DEF fields
    <3>2. ASSUME NEW k \in Keys, NEW v \in Vals \cup {None}, Assign(k, v),
                 UNCHANGED <<table, count, key, rehash, loose>>
          PROVE  Map!Next
      BY <2>0, <3>2, AssignShows
    <3>3. CASE Delete(key[pos])
      <4>1. key[pos] \in Keys
        BY <2>0, <2>8, CurrentLive DEF EachVisit, Live, TypeOK
      <4> QED
        BY <2>0, <3>3, <4>1, DeleteShows
    <3> QED
      BY <2>8, <3>1, <3>2, <3>3 DEF EachVisit
  <2>9. CASE UNCHANGED vars
    BY <2>1, <2>9 DEF vars
  <2> QED
    BY <2>2, <2>3, <2>4, <2>5, <2>6, <2>7, <2>8, <2>9 DEF Next, LoopNext
<1> QED
  BY <1>1, <1>2, Always, PTL DEF Spec, IsMap, Map!Spec
=============================================================================
