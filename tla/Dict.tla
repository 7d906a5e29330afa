-------------------------------- MODULE Dict --------------------------------
(***************************************************************************)
(* The hash table of src/src/dict.c: chained buckets, growth by rehashing, *)
(* iteration with callbacks.  Rehashing moves one entry per step, and      *)
(* iteration calls one callback per step on the two cursors of             *)
(* list_for_each_safe; every other operation is one action.  An entry is a *)
(* block of the tracked allocator, so it has an identity besides its key   *)
(* and its memory may be given to another entry once it is freed.          *)
(*                                                                         *)
(* loose, seen and due are history variables that no action reads.         *)
(***************************************************************************)
EXTENDS Naturals, Integers, Sequences, FiniteSets, SequencesExt

CONSTANTS
  Keys,         \* the keys callers use
  Vals,         \* the addresses of the var_t values callers store
  Entries,      \* the blocks ta_malloc can return for an entry
  None,         \* NULL, for entries and for values
  Hash,         \* xxh32 with seed 0, on the keys
  Word,         \* 2^32: nbuckets is a uint32_t
  PowersOfTwo,  \* the powers of two below Word
  CallerSizes,  \* the bucket counts callers pass to dict_rehash
  FirstSize     \* the bucket count dict_new or dict_new_sized was given

\* What a key that is not in the dict is mapped to.
Absent == "absent"

ASSUME DictAssumption ==
  /\ None \notin Keys \cup Vals \cup Entries
  /\ Absent \notin Vals \cup {None}
  /\ Hash \in [Keys -> Nat]
  /\ Word \in Nat
  /\ PowersOfTwo \subseteq 1 .. Word - 1
  /\ CallerSizes \subseteq Nat
  /\ FirstSize \in PowersOfTwo /\ FirstSize >= 4

ASSUME DoublingAssumption ==
  \A n \in PowersOfTwo : 2 * n < Word => 2 * n \in PowersOfTwo

VARIABLES
  buckets,    \* d->buckets: a sequence of entries for each bucket index
  nbuckets,   \* d->nbuckets
  count,      \* d->count
  key, val,   \* the fields of the entries; key is None in a free one
  liveVals,   \* the values that have been allocated and not freed
  pc,         \* "idle", or the loop the dict is in: "rehash", "each"
  fresh,      \* dict_rehash's new_buckets
  nfresh,     \* dict_rehash's new_nbuckets
  i,          \* the bucket either loop has come to
  pos, tmp,   \* dict_each's cursors; None stands for the head of bucket i
  loose,      \* a table was left smaller than the load calls for
  seen,       \* the entries dict_each has called fn on
  due         \* the entries the dict had when dict_each was called

table == <<buckets, nbuckets>>
fields == <<key, val>>
rehash == <<fresh, nfresh>>
cursor == <<pos, tmp, seen, due>>
vars == <<buckets, nbuckets, count, key, val, liveVals, pc, fresh, nfresh, i,
          pos, tmp, loose, seen, due>>

Live == {e \in Entries : key[e] # None}

-----------------------------------------------------------------------------
(* Helpers of dict.c *)

\* bucket_for_n: the & of dict.c is a remainder, n being a power of two.
bucket_for_n(k, n) == Hash[k] % n

\* The arguments dict_new_sized and dict_rehash accept.
Valid(n) == n >= 4 /\ n \in PowersOfTwo

Chain(k) == buckets[bucket_for_n(k, nbuckets)]

\* The scan for k along its chain stops at position p.
FoundAt(k, p) ==
  /\ p \in DOMAIN Chain(k)
  /\ key[Chain(k)[p]] = k
  /\ \A q \in 1 .. p - 1 : key[Chain(k)[q]] # k

\* The scan finds k; one that stops after the first entry, as a slip.
HasFirst(k) == Chain(k) # <<>> /\ key[Chain(k)[1]] = k
Has(k) == \E p \in DOMAIN Chain(k) : key[Chain(k)[p]] = k

Empty(n) == [b \in 0 .. n - 1 |-> <<>>]

\* The load is 3/4 or more; one entry too late, as a slip.
FullLate(c, n) == c * 4 > n * 3
Full(c, n) == c * 4 >= n * 3
CanDouble(n) == n <= (Word - 1) \div 2

\* (int)n
ToInt(n) == IF n < Word \div 2 THEN n ELSE n - Word

Init ==
  /\ buckets = Empty(FirstSize) /\ nbuckets = FirstSize /\ count = 0
  /\ key = [e \in Entries |-> None]
  /\ val = [e \in Entries |-> None]
  /\ liveVals = {}
  /\ pc = "idle" /\ fresh = <<>> /\ nfresh = 0 /\ i = 0
  /\ pos = None /\ tmp = None
  /\ loose = FALSE /\ seen = {} /\ due = {}

-----------------------------------------------------------------------------
(* dict_set_impl *)

\* The values the caller holds after it made or kept v.
With(v) == liveVals \cup ({v} \ {None})

\* A caller may use dict_set_owned when nothing else refers to the value of k.
MayOwn(k) ==
  \A e, f \in Live : key[e] = k /\ e # f /\ val[e] # None => val[e] # val[f]

\* The values left when dict_set_owned replaces old by v; without its test
\* that they differ, as a slip.
FreeOldAlways(old, v) == With(v) \ {old}
FreeOld(old, v) == IF old # v THEN With(v) \ {old} ELSE With(v)

Assign(k, v) ==
  \E p \in 1 .. Len(Chain(k)) :
    /\ FoundAt(k, p)
    /\ val' = [val EXCEPT ![Chain(k)[p]] = v]

SetUpdate(k, v) ==
  /\ pc = "idle"
  /\ Assign(k, v)
  /\ liveVals' = With(v)
  /\ UNCHANGED <<table, count, key, pc, rehash, i, cursor, loose>>

SetOwnedUpdate(k, v) ==
  /\ pc = "idle"
  /\ MayOwn(k)
  /\ \E p \in 1 .. Len(Chain(k)) :
       /\ FoundAt(k, p)
       /\ val' = [val EXCEPT ![Chain(k)[p]] = v]
       /\ liveVals' = FreeOld(val[Chain(k)[p]], v)
  /\ UNCHANGED <<table, count, key, pc, rehash, i, cursor, loose>>

\* dict_rehash once its argument is valid and calloc has succeeded.
StartRehash(n) ==
  /\ pc' = "rehash"
  /\ fresh' = Empty(n)
  /\ nfresh' = n
  /\ i' = 0

\* A new entry at the tail of its chain, then growth if the table is full; the
\* insertion stands when there is no memory to grow.
SetInsert(k, v) ==
  /\ pc = "idle"
  /\ ~ Has(k)
  /\ \E e \in Entries \ Live :
       /\ key' = [key EXCEPT ![e] = k]
       /\ val' = [val EXCEPT ![e] = v]
       /\ buckets' = [buckets EXCEPT ![bucket_for_n(k, nbuckets)] = Append(@, e)]
  /\ count' = count + 1
  /\ liveVals' = With(v)
  /\ \/ /\ Full(count', nbuckets) /\ CanDouble(nbuckets)
        /\ StartRehash(2 * nbuckets)
        /\ UNCHANGED loose
     \/ /\ Full(count', nbuckets)
        /\ loose' = TRUE
        /\ UNCHANGED <<pc, rehash, i>>
     \/ /\ ~ Full(count', nbuckets)
        /\ UNCHANGED <<pc, rehash, i, loose>>
  /\ UNCHANGED <<nbuckets, cursor>>

-----------------------------------------------------------------------------
(* dict_rehash *)

Rehash(n) ==
  /\ pc = "idle"
  /\ Valid(n)
  /\ StartRehash(n)
  /\ loose' = TRUE
  /\ UNCHANGED <<table, count, fields, liveVals, cursor>>

\* Where an entry goes; by the old bucket count, as a slip.
NewHomeStale(e) == bucket_for_n(key[e], nbuckets)
NewHome(e) == bucket_for_n(key[e], nfresh)

\* The first entry of bucket i goes to the tail of its bucket in the new table.
RehashMove ==
  /\ pc = "rehash"
  /\ i < nbuckets
  /\ buckets[i] # <<>>
  /\ fresh' = [fresh EXCEPT ![NewHome(Head(buckets[i]))] =
                 Append(@, Head(buckets[i]))]
  /\ buckets' = [buckets EXCEPT ![i] = Tail(@)]
  /\ UNCHANGED <<nbuckets, count, fields, liveVals, pc, nfresh, i, cursor, loose>>

RehashNext ==
  /\ pc = "rehash"
  /\ i < nbuckets
  /\ buckets[i] = <<>>
  /\ i' = i + 1
  /\ UNCHANGED <<table, count, fields, liveVals, pc, rehash, cursor, loose>>

RehashEnd ==
  /\ pc = "rehash"
  /\ i = nbuckets
  /\ buckets' = fresh
  /\ nbuckets' = nfresh
  /\ pc' = "idle" /\ fresh' = <<>> /\ nfresh' = 0 /\ i' = 0
  /\ UNCHANGED <<count, fields, liveVals, cursor, loose>>

-----------------------------------------------------------------------------
(* dict_del *)

\* d->count--; forgotten or done twice, as slips.
CountAfterDelStale == count
CountAfterDelTwice == count - 2
CountAfterDel == count - 1

Delete(k) ==
  /\ \E p \in 1 .. Len(Chain(k)) :
       /\ FoundAt(k, p)
       /\ buckets' = [buckets EXCEPT ![bucket_for_n(k, nbuckets)] =
                        RemoveAt(@, p)]
       /\ key' = [key EXCEPT ![Chain(k)[p]] = None]
       /\ val' = [val EXCEPT ![Chain(k)[p]] = None]
  /\ count' = CountAfterDel
  /\ UNCHANGED <<nbuckets, liveVals, rehash, loose>>

Del(k) ==
  /\ pc = "idle"
  /\ Delete(k)
  /\ UNCHANGED <<pc, i, cursor>>

-----------------------------------------------------------------------------
(* dict_each *)

At(s, p) == IF p \in DOMAIN s THEN s[p] ELSE None

\* The entry after e in chain s; None after the last one, and after an entry
\* that is not there any more.
After(s, e) ==
  IF \E p \in DOMAIN s : s[p] = e
  THEN At(s, 1 + CHOOSE p \in DOMAIN s : s[p] = e)
  ELSE None

\* The cursors when the loop comes to bucket j.
Enter(j) ==
  /\ i' = j
  /\ IF j < ToInt(nbuckets)
     THEN pos' = At(buckets[j], 1) /\ tmp' = At(buckets[j], 2)
     ELSE pos' = None /\ tmp' = None

EachBegin ==
  /\ pc = "idle"
  /\ pc' = "each"
  /\ Enter(0)
  /\ seen' = {}
  /\ due' = Live
  /\ UNCHANGED <<table, count, fields, liveVals, rehash, loose>>

\* The step to the next entry, after the callback.  Slips: list_for_each's,
\* which reads the entry the callback may have freed, and one that moves only
\* when the callback deleted the entry.
StepUnsafe ==
  /\ pos' = After(buckets'[i], pos)
  /\ tmp' = After(buckets'[i], After(buckets'[i], pos))
StepStuck ==
  /\ pos' = IF pos \in Live' THEN pos ELSE tmp
  /\ tmp' = After(buckets'[i], pos')
Step ==
  /\ pos' = tmp
  /\ tmp' = After(buckets'[i], tmp)

\* fn is called on the current entry.  It may do nothing to the dict, replace
\* the value of a key the dict has, or delete the current key.
EachVisit ==
  /\ pc = "each"
  /\ pos # None
  /\ \/ UNCHANGED <<table, count, fields, liveVals, rehash, loose>>
     \/ \E k \in Keys, v \in Vals \cup {None} :
          /\ Assign(k, v)
          /\ liveVals' = With(v)
          /\ UNCHANGED <<table, count, key, rehash, loose>>
     \/ Delete(key[pos])
  /\ seen' = seen \cup {pos}
  /\ Step
  /\ UNCHANGED <<pc, i, due>>

EachNext ==
  /\ pc = "each"
  /\ pos = None
  /\ i < ToInt(nbuckets)
  /\ Enter(i + 1)
  /\ UNCHANGED <<table, count, fields, liveVals, pc, rehash, loose, seen, due>>

EachEnd ==
  /\ pc = "each"
  /\ i >= ToInt(nbuckets)
  /\ pc' = "idle" /\ i' = 0 /\ pos' = None /\ tmp' = None
  /\ seen' = {} /\ due' = {}
  /\ UNCHANGED <<table, count, fields, liveVals, rehash, loose>>

LoopNext ==
  RehashMove \/ RehashNext \/ RehashEnd \/ EachVisit \/ EachNext \/ EachEnd

Next ==
  \/ \E k \in Keys :
       \/ Del(k)
       \/ \E v \in Vals \cup {None} :
            SetUpdate(k, v) \/ SetOwnedUpdate(k, v) \/ SetInsert(k, v)
  \/ \E n \in CallerSizes : Rehash(n)
  \/ EachBegin
  \/ LoopNext

Spec == Init /\ [][Next]_vars

\* Neither loop waits for anything.
FairSpec == Spec /\ WF_vars(LoopNext)

-----------------------------------------------------------------------------
(* Properties *)

Table(n) == [0 .. n - 1 -> Seq(Entries)]

TypeOK ==
  /\ nbuckets \in PowersOfTwo /\ nbuckets >= 4
  /\ buckets \in Table(nbuckets)
  /\ count \in Nat
  /\ key \in [Entries -> Keys \cup {None}]
  /\ val \in [Entries -> Vals \cup {None}]
  /\ liveVals \in SUBSET Vals
  /\ pc \in {"idle", "rehash", "each"}
  /\ i \in Nat
  /\ pc = "rehash" => /\ nfresh \in PowersOfTwo /\ nfresh >= 4
                      /\ fresh \in Table(nfresh)
                      /\ i <= nbuckets
  /\ pos \in Entries \cup {None}
  /\ tmp \in Entries \cup {None}
  /\ loose \in BOOLEAN
  /\ seen \in SUBSET Entries
  /\ due \in SUBSET Entries

\* e is in bucket b of table t.
In(t, b, e) == \E p \in DOMAIN t[b] : t[b][p] = e

\* An entry is where the hash of its key says, and nowhere else: in d->buckets
\* outside a rehash; while dict_rehash moves the entries one by one, in one of
\* the two tables.  The chains hold no freed entry and no entry twice.
PlacedIn(t, n) ==
  \A b \in 0 .. n - 1 : \A p, q \in DOMAIN t[b] :
    /\ t[b][p] \in Live
    /\ bucket_for_n(key[t[b][p]], n) = b
    /\ p # q => t[b][p] # t[b][q]
InOld(e) == In(buckets, bucket_for_n(key[e], nbuckets), e)
InFresh(e) == In(fresh, bucket_for_n(key[e], nfresh), e)
Placed ==
  /\ PlacedIn(buckets, nbuckets)
  /\ pc # "rehash" => \A e \in Live : InOld(e)
  /\ pc = "rehash" =>
       /\ PlacedIn(fresh, nfresh)
       /\ \A e \in Live : InOld(e) # InFresh(e)
       /\ \A b \in 0 .. i - 1 : buckets[b] = <<>>

\* A key is never stored twice, whatever the chain it is looked up in went
\* through (dict_set_impl's scan before the insertion).
UniqueKeys == \A e, f \in Live : key[e] = key[f] => e = f

\* d->count is the number of entries.
CountOK == IsFiniteSet(Live) /\ count = Cardinality(Live)

\* No value the dict holds has been freed: dict_set and dict_del free none,
\* and dict_set_owned, under its contract, only one that goes out of use.
ValuesLive == \A e \in Live : val[e] # None => val[e] \in liveVals

\* Outside a rehash the load is below 3/4, unless growing failed (no memory,
\* or no larger size) or the caller chose the size.
LoadOK == pc # "rehash" /\ ~ loose => count * 4 < nbuckets * 3

\* dict_each stands on a live entry it has not called fn on yet, and the entry
\* it will go to is the one after it, although fn may delete the current one.
EachSafe ==
  pc = "each" /\ pos # None =>
    /\ i \in DOMAIN buckets
    /\ pos \notin seen
    /\ \E p \in DOMAIN buckets[i] :
         buckets[i][p] = pos /\ tmp = At(buckets[i], p + 1)

\* "Calls fn(key, val, userdata) for every entry in d" (API.md): when it
\* returns it has been called on every entry the dict had, and on no other.
EachComplete ==
  pc = "each" /\ nbuckets < Word \div 2 /\ i >= ToInt(nbuckets) => seen = due

\* The same for every size of the table.
EachCompleteDoc == pc = "each" /\ i >= ToInt(nbuckets) => seen = due

\* Both loops end.
LoopsEnd == pc # "idle" ~> pc = "idle"

\* The map the chains amount to, found as dict_get finds it -- in both tables
\* while entries move from one to the other -- changes as DictMap does.
Found(k) ==
  {e \in Entries :
     /\ key[e] = k
     /\ \/ In(buckets, bucket_for_n(k, nbuckets), e)
        \/ pc = "rehash" /\ In(fresh, bucket_for_n(k, nfresh), e)}
SeenMap ==
  [k \in Keys |-> IF Found(k) = {} THEN Absent ELSE val[CHOOSE e \in Found(k) : TRUE]]
Map == INSTANCE DictMap WITH
         Vals <- Vals \cup {None}, map <- SeenMap, n <- count
IsMap == Map!Spec
=============================================================================
