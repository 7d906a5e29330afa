# TLA+ models of kanek_foundations

kanek_foundations (KFL) is a small C library for user space and, in part, for
a kernel: a tracked allocator, a dictionary on it, typed values, configuration
files, bitmaps, a random number generator, hashes and checksums. This directory
models its stateful parts in TLA+, checks the models with TLC and proves their
most important properties with TLAPS. Paths below are relative to the
repository; `ta.c` is `src/ta.c`.

## 1. Inventory

| component | state | operations | calls | hard because |
|---|---|---|---|---|
| lists, `list.h` | `next`/`prev` of embedded nodes | add, add_tail, del, two iterations | - | a wrong link order loses a node; `list_for_each` reads a node its body may free |
| tracked allocator, `ta.c` | a list of nodes per context; size, mark | malloc and its variants, realloc, free, mark, sweep, destroy, total | lists, malloc | blocks move, change context and are freed while a loop stands on them |
| dictionary, `dict.c` | bucket array of chains, `nbuckets`, `count` | set, set_owned, get, has, del, rehash, each | lists, ta, xxh32 | entries move between tables, callbacks delete, growth may fail |
| values, `var.c` | tagged `var_t`, growable arrays | constructors, push, get, conversions, print | ta, dict | values are shared between arrays and dicts, and owned by the context |
| configuration files, `cfg_parser.c` | a dict of variables, the files being read, the position in a line | load (tokenise, evaluate, assign, include, display), get | ta, dict, var, utils | errors do not stop a file; files include each other; values are shared; memory runs out in the middle of an expression |
| bitmap, `map.c` | the caller's bytes | set, get, extent, count, find, can_grow, zero, fill, popcount | - | ranges that begin and end inside bytes; runs carried over bytes; 64-bit sizes in `int`s |
| random numbers, `krand64.c` | a global seed and a mutex; callers' own seeds | set_kseed64, krand64, krand64_r | pthread | threads |
| hashes, `hash.c` | - | hash_b79, xxh32, xxh64 | - | pure arithmetic |
| CRC-32C, `crc32c.c` | - | crc, verify | - | a table of 256 constants, three implementations |
| string utilities, `utils.c` | - | trim, prefix, suffix | - | - |
| tracing, panic, hexdump | trace masks | output | - | - |

What makes each correct:

* **allocator** - the list of a context is a ring that reaches exactly the
  blocks that belong to it; a loop never reads a freed node, never misses one
  and never frees one of another context.
* **dictionary** - it is a map: one entry per key, in the bucket its hash has in
  the present table, through growth, rehashing and deletion, counted exactly;
  iteration visits every entry once although its callback deletes.
* **random numbers** - a draw is atomic; nothing is drawn twice or skipped.
* **bitmap** - an operation changes the bits of its range and no other; counts
  and searches say what the bits say; callers that hold a lock over find and mark
  are never given the same block.
* **configuration files, values** - every line does what the statement on it
  means, at once and on nothing but its own variable, although values are shared
  through pointers; no error is forgotten; files are closed and a load ends.
* **CRC-32C, hash_b79** - every build computes the same function, for data in
  any pieces; words sort as their hashes do.

The library starts no threads and persists nothing; the only code that threads
enter together on purpose is `krand64.c`. What is hard to test is listed,
line by line, under `hazards` in `PROJECT.json`.

## 2. Modules

| module | models | kind |
|---|---|---|
| `TAContexts` | `ta.h` as its callers see it: which context owns which block | abstract specification |
| `TrackedAlloc` | `ta.c` on `list.h` | implements `TAContexts` |
| `TrackedAllocProofs` | facts about add and del on rings; the theorems | proofs |
| `DictMap` | `dict.h` as its callers see it: a map and a count | abstract specification |
| `Dict` | `dict.c` | implements `DictMap` |
| `ChainTheorems`, `DictProofs` | facts about chains; the theorems | proofs |
| `RandCounters` | `krand64.h`: counters with an atomic draw | abstract specification |
| `KRand` | `krand64.c`, every access of every thread a step | implements `RandCounters` |
| `KRandProofs` | the theorems | proofs |
| `Bitmap` | `map.c`, byte by byte | one module |
| `BitmapProofs` | facts about numbers, bytes and runs of zeros; the theorems | proofs |
| `ExtentPool` | `map.h:13-20` as its users see it: blocks held by claimers | abstract specification |
| `BlockClaim` | claimers that call `Bitmap` under the upper layer's lock | composes `Bitmap`, implements `ExtentPool` |
| `BlockClaimProofs` | the theorems, on those of `BitmapProofs` | proofs |
| `Utils`, `CfgTokens` | `trim`; the tokeniser of `cfg_parser.c` | operators |
| `Var` | the values of `var.c` on a heap | operators |
| `CfgMeaning` | configuration files as `API.md` describes them: statements on values | abstract specification |
| `CfgParser` | `cfg_parser.c` on `CfgTokens`, `Var` and `DictMap`'s map | state machine |
| `CfgParserProofs` | facts about sequences and the heap; the theorems | proofs |
| `CfgRefinement` | values behind pointers, lines as statements; `var_print` | `CfgParser` implements `CfgMeaning` |
| `Crc32c` | `crc32c.c` | operators |
| `Hash79` | `hash_b79` of `hash.c` | operators |
| `AlgorithmProofs` | the theorem about hashes of words | proofs |
| `MC*` | the instances TLC checks | - |

**TrackedAlloc.** The pointers are kept: `next` and `prev` are functions on the
heads and blocks, and `AddNext`, `AddPrev`, `DelNext`, `DelPrev` are the
assignments of `list_add` and `list_del`. Operations without a loop are one
action. `ta_list_destroy`, `ta_sweep` and `ta_list_total_mem` take a step per
node on the cursors `pos` and `nxt` of `list_for_each_safe`, and a freed node's
links become `None`, so that a read of freed memory is visible. `owner`, `below`
and `req` are history: who owns a block, which blocks follow it, what size was
asked for. A failed `malloc` changes nothing and is not an action; a failed
`realloc` does change the list and is (`ReallocFail`). `ta_list_init` is the
initial state: calling it on a context in use is a misuse the model does not
make. A loop is one call of a sequential function, so no other operation runs
inside it. The contents of blocks are left out.

**Dict.** A bucket is the sequence of the entries on its list. An entry is a
block of the allocator, with an identity besides its key, so that a block can be
freed and used for another key. `dict_rehash` moves one entry per step and
`dict_each` makes one callback per step; the callback does nothing, replaces a
value, or deletes the entry it was called for, which is what `API.md` lets it
do. A growth may fail: `SetInsert` has both outcomes. The hash is a constant
function. `liveVals` holds the values that exist, so that a value freed by
`dict_set_owned` and still referred to shows. The caller's part of that
function's contract - no other key has the value - is `MayOwn`.

**KRand.** `_kseed64++` is a load and a store, the mutex is taken and given back
in steps of their own, and threads interleave at every one of them. `krand64_r`
works on a seed its caller owns. The multiplications are a constant function of
the seed (`Mix`); `% max` is kept. It is the `USER_SPACE` build; the other one
has no lock and says so in `krand64.h`.

**Bitmap.** A byte is the set of its bits that are 1, and an address, a count or
a gap is a number below `Word`. Sums wrap as `uint64_t` does, and what the code
passes as `int` goes through `ToInt`. `bm_set_extent`, `bm_count` and `bm_find`
take a step for each byte or group of bytes they come to, with their locals in
`frame`; `bm_extent_can_grow` is its three calls of `bm_count`. The returns the
code marks as not reachable (`-2` at the end of the loops, `-4`, `-100` to
`-102`) are left out; every path of the model that would lead there would
violate `ReadsExact`, `GrowRight` or `CallsEnd`.

**BlockClaim.** The library leaves the serialisation of `bm_find` and
`bm_set_extent` to the layer above it, so the claimers are external: each takes
the lock, calls the functions of `Bitmap` (which is EXTENDed, its steps
unchanged), and gives the lock back. A claim is a find and a mark, a growth is
`bm_extent_can_grow` and a mark of the next bit, a release clears. Growth asks
for one bit more than the claimer has: `bm_extent_can_grow` takes every one that
follows the first bit for the extent's own (`map.c:656`), so a larger request
next to another owner would be counted wrong. That limits how the function can
be used and is noted as a hazard.

**CfgParser.** Recursion becomes a program counter: `stack` holds the calls of
`cfg_load_depth`, `ln` the locals of `parse_line`, `eval_rhs` and `eval_atom`
with the array literals that are open (`nest`), and `pc` says which of them goes
on. A step reads at most one value and makes at most one allocation, so memory
can run out at each of them (`Fails`): in the constructors, in the second
allocation of `var_str`, in a copied text, in the growth of an array or of the
concatenation buffer, in a new entry of the dict. What a file holds is not fixed:
every line is any of `Lines`, and after any line it may end. A character of the
model may stand for a word, so that lines stay short; names, quotes, escapes,
blanks, signs and operators are characters of their own. The dict is the map
that `DictProofs` shows it is. `Var` keeps `len` and `cap` of arrays; there is
no `var_dict` in configuration files.

**CfgMeaning** has values instead of pointers and statements instead of
characters, and carries a statement out in one step. `Wrong` and `Partial` are
what it leaves open: a line with an error may give its own variable any value; a
line during which memory ran out may store a part of its value and may or may
not be reported. Everything else is determined. The mapping reads values through
the heap (`ValueAt`) and the line as the statement `Says` gives for it.

**Crc32c** has a 32-bit number as the set of its one bits. The table is copied
entry by entry; the processors' instructions are their definition, division by
the polynomial, and what is modelled of the hardware paths is the words they
read on a little-endian host. **Hash79** computes in limbs of 16 bits, since a
hash fills 64.

## 3. What is checked

| run | instance | shows |
|---|---|---|
| `ta_lists` | 2 contexts, 3 blocks, requests 1, 2 and 5, `SizeMod` 4 | rings, chains, cursors, loop progress, sizes, what loops free, that they end, and that `TAContexts` is implemented |
| `dict_table` | 3 keys of one chain, 3 entries, 2 values, tables of 4, 8 and 16 buckets | placement, uniqueness, count, values, load, iteration, that loops end, and that `DictMap` is implemented |
| `krand_threads` | 2 threads with 3 calls each, 2-bit seeds | mutual exclusion, draws in order, calls return, and that `RandCounters` is implemented |
| `bitmap_ops` | 7 bits in bytes of 3, every address, length and gap up to 5 | every function does what its name says on every bitmap, within bounds, and returns |
| `block_claims` | 3 claimers of extents of 1 to 4 bits on 7 bits in bytes of 3 | no block is held twice or lost (`HeldExact`), and the calls together are a first-fit pool (`IsPool`) |
| `cfg_files` | 22 kinds of line, 3 lines or 2 and a failing allocation, 3 files, depth 1, arrays and buffers that begin with room for 1 and 2 | types and room of what is allocated, files open and closed, that `CfgMeaning` is implemented, that every load ends |
| `algorithms` | lines of 3 tokens, data of up to 13 bytes in every split, words of up to 12 characters | what is written is read back, every path computes CRC-32C and verification tells, words sort as their hashes |
| `ta_size_doc`, `dict_each_doc`, `bitmap_find_doc`, `crc_table_doc`, `cfg_comment_doc` | as named | five places where the code does not do what its documentation says (section 5) |

Bounds, and why they are enough. Two contexts let `ta_realloc` carry a block
from one to the other; three blocks give a list a first, a middle and a last node
or leave a free address for a block to move to. Three keys on one chain of the
four-bucket table, of which two still share one of the eight-bucket table and
none of the sixteen-bucket one, make rehashing split and merge chains; the third insertion
reaches the load at which the table grows, and `PowersOfTwo` ends where doubling
is refused. Three calls per thread let one thread seed while the other is
anywhere in its draw, and seeds of two bits wrap. Bytes of three bits are the
smallest in which a run of zeros can lie between ones, and seven bits make a
whole extent head, body and tail, with a last byte that is partial. `Word`
stays above every sum in `bitmap_ops`, so that run does not exercise the wrap of
`bit_address + n`; the hazard is listed without a property. Three claimers are
the fewest that leave a gap between two extents when the one in the middle
releases; an extent of four bits spans two bytes wherever it begins. Claimers are
interchangeable, and that run has no liveness property, so their symmetry is used.
In `cfg_files` a failing allocation counts as one of the three lines of a load
(`MoreLines`): a third line can read what the second made of the first, and in
two lines memory can run out at each allocation. `MaxDepth`, `InitCap`,
`ConcatCap`, `MaxLine` and `PrintMax` are so small that lines pass each of them: an
included file that includes, a second element, a text longer than the buffer, a
line that is too long, an array that is printed as dots. `MaxTok`, `MaxNum` and
`IntMax` are modelled but not passed: no run cuts a token or saturates a number.
In `algorithms`, three tokens put every
kind of token between any two others; thirteen bytes pass the words of eight and
of four of the hardware paths and leave a rest for each, cut at every position
between two calls; words of up to twelve characters end before, at and after the
ten that are hashed.

Fairness. The loops of the allocator, the dictionary and the bitmap are code that
neither waits nor blocks, so weak fairness of the loop's steps (`WF_vars(LoopNext)`,
`WF_vars(Loop \/ Return)`) says only that a running call goes on; nothing obliges
a caller to make a call. For `krand64.c` it is weak fairness of each thread's
steps. A pthread mutex is not fair to its waiters, and the model does not say it
is: calls are finite in number (`Calls`), so in the end no other thread takes the
mutex and weak fairness is enough. That run has `CHECK_DEADLOCK FALSE` since it
stops when all calls have been made. For `CfgParser` it is weak fairness of the
steps of a load (`WF_vars(Step)`), which is one sequential call. That files end
is a bound of the instance (`MaxLines`); what `LoadEnds` adds is that the
scanner, the evaluation and the includes get past every line. `algorithms` and
`crc_table_doc` enumerate inputs and stop at the longest, so they too have
`CHECK_DEADLOCK FALSE`.

Every property has a mutant in `PROJECT.json`: a definition of the model
replaced by a plausible slip (defined next to it, and called a slip there), on
which TLC must find the property violated.

## 4. What is proved

TLC's results are for the instances above. The theorems are for any contexts,
blocks, keys, hash function, table sizes, threads and number of calls, bitmaps,
bytes of any width, claimers, lines and files, alphabets and words, from the named assumptions on the
constants (`TAAssumption`, `DictAssumption`, `DoublingAssumption`,
`KRandAssumption`, `BitmapAssumption`, `ClaimAssumption`, `CfgAssumption`,
`TokenAssumption`, `ShownAssumption`, `WordsAssumption`), which TLC evaluates in the runs of the modules
they belong to. Where more is needed of the caller a theorem says so in its own
hypothesis.

* **TrackedAllocProofs** - `TypeCorrect`, `RingsStayWhole`, `NothingLost`,
  `LoopsReadLiveNodes`, `LoopsMissNothing`, `LoopsFreeTheirOwn`,
  `ImplementsContract`, `TotalsAddUp`, `LoopsMakeHeadway`. Ring and chain are not inductive apart: that `list_del`
  repairs the ring needs the neighbours to be on it, and that the cursor saved by
  `list_for_each_safe` survives the removal needs to know that a node is not
  among the nodes below it. The invariant joins types, rings, chains (each
  node's `below` is its successor and what is below that; the sets are nested),
  and the cursors. The effect of one add and one del on a ring is stated once,
  for link functions, and used by every action. `TotalsAddUp` is
  `TotalMem`. Its invariant (`TotalAdds`) says that `acc` and the sum over the nodes
  ahead of the cursor are together the sum over the list. It rests on lemmas about
  sums over finite sets - that one exists, is unique, and loses an element's share
  with the element - proved from the fold by induction on finite sets in the form
  of a least counterexample, and on the heap being finite (`FiniteLive`).
* **DictProofs** - `DictTypes`, `EntriesPlaced`, `KeysUnique`, `CountExact`,
  `NoFreedValue`, `LoadBounded`, `IterationSafe`, `IterationComplete`,
  `ImplementsMap`, `LoopsMakeHeadway`. The invariant `IInv` says where each entry is - in the old
  table at or after bucket `i`, or in the new one - that keys are unique and
  counted, and that after a doubling the new table is large enough for the load,
  which is what makes the load bound inductive across a rehash. `EachInv` says
  that the entries not yet visited are those ahead of the cursors. The
  refinement shows that no step of a rehash changes the map.
* **KRandProofs** - `RandTypes`, `Exclusive`, `DrawsOrdered`, `Atomic`,
  `CallsMakeHeadway`. The invariant adds to mutual exclusion that between load and store the register
  still equals the seed, and that the seed is the successor of the last one
  drawn.
* **BitmapProofs** - two layers, because the code's types make it so. The first
  asks only that a range end below 2^64 (`CallsFit`), which is what the checks of
  `map.c:231`, `352` and `460` rely on and do not establish: `StaysInBounds`,
  `ChangesExactly`, `CallsMakeHeadway`. Its invariant (`SafeInv`) ties the locals of a call in
  progress to its arguments: the next byte is where the range has been done up
  to, and the bytes differ from those at the call in that part and no other. The
  second asks besides that counts and gaps be `int`s (`IntsFit`), which the byte
  primitives take: `TypeCorrect`, `ReadsExactly`, `FindsFirst`, `FoundFree`,
  `GrowsRight`. Its invariant (`ExactInv`) adds what the loops have found out: the
  count so far is that of the bits passed, and the run `bm_find` carries is clear,
  ends where the next byte begins, and has no gap before it. `FoundFree` is the property that
  `bitmap_find_doc` refutes for larger sizes: the hypothesis is exactly what that
  finding is about. The constants of `bitmap_ops` satisfy both hypotheses.
* **BlockClaimProofs** - `HeldExactly`, `ClaimsArePool`, from `TotalFits`: the size
  of the bitmap, and one more, is an `int`; `block_claims` satisfies it. The calls
  between the lock and the unlock are the steps of `Bitmap`, and what they answer
  comes from `BitmapProofs`' second layer. The invariant (`ClaimInv`) adds that a call runs
  only for the claimer that holds the lock and with that claimer's extent, and that the
  marked bits are those of the extents held, up to the part the running call has
  changed. The refinement maps the step that ends a mark, a growth or a release
  to the step of the pool, and shows first fit from `FindFirst`.
* **CfgParserProofs** - `TypeCorrect`, `LoadsMakeHeadway`, `FilesBounded`, `NothingDangles`, `OpenArraysPrivate`,
  `ValuesMadeOnce`, `SharedValuesKept`. The invariant (`CfgInv`)
  gives each call of `cfg_load_depth` its place, depth and return value, makes
  every pointer one into a heap that only grows, and says that
  the arrays of `nest` are arrays and that one is open wherever an item is read
  or pushed. Nothing in it depends on where a token begins or ends. A second invariant
  (`ReadInv`) adds the scanner: the position is on the line or just behind it, a
  token begins and ends there, and texts and buffers are within their room. It
  needs what the recursive functions of the model compute - where a string literal
  closes and what it says, how far the concatenation buffer is doubled - and these are
  proved without the library's induction theorems: among the arguments for which
  the claim fails there would be a least one (`Least`), which the function's
  equation refutes. `PointersInside` is the part of `TypeOK` that is about values.
  The theorems about sharing, `OpenArraysPrivate`, `ValuesMadeOnce` and
  `SharedValuesKept`, are about sharing: variables and arrays hold pointers, so what
  keeps one line from changing another variable's value is that a step changes
  no value but the innermost array being read, and that nothing else refers to that
  array (`OpenPrivate`, inductive together with `CfgInv`; a step is one of five
  kinds, `StepKind`). These three are stated in the proof module and hold on the
  instance of `cfg_files` as well; no run lists them.
* **AlgorithmProofs** - `WordsSort`, which is `HashOrders`: words of any length
  over any alphabet sort as their hashes do, up to ten characters, and collide
  only if those are equal. `WordsAssumption` asks that characters of the alphabet have
  values of their own, which the comment above `hash_b79` says of letters and
  digits, and that none is NUL. What it rests on: the table's ranges go up and
  so do the values in them, with 0 left to the end of a word (`ValuesUp`); one
  turn of the loop, limb by limb with its carries, is `79 * h + cc` (`ShiftedIs`),
  and ten of them stay below 2^64 (`TenDigits`, `StepsAre`); limbs and digits
  compare from the top (`LessIs`, `StepsSort`), a word as its digits (`SpeltSort`).

**That calls end.** `LoopsEnd`, `CallsReturn`, `CallsEnd` and `LoadEnds` are liveness
properties, which TLC checks under fairness. What of them is safety is proved for
every value of the constants: while a call is running each step makes headway by a measure
that cannot fall for ever, so that all the liveness properties add is that steps
are taken.

| theorem | a step |
|---|---|
| `TrackedAllocProofs.LoopsMakeHeadway` | leaves fewer of the finitely many blocks ahead of the cursor |
| `DictProofs.LoopsMakeHeadway` | removes one of the finitely many entries still to be moved or visited, or goes to the next of finitely many buckets |
| `KRandProofs.CallsMakeHeadway` | uses up one thread's steps and nobody else's; and while calls are running one of them does not wait for the mutex |
| `BitmapProofs.CallsMakeHeadway` | goes to the next of the bitmap's bytes or to the next part of the call |
| `CfgParserProofs.LoadsMakeHeadway` | takes a line from a file or closes one (`LoadLeft`), or brings its line nearer to the end (`LineLeft`: characters left, arrays open, stage of the evaluation) |

`LoadLeft` counts the lines still to be read with `budget`, the model's bound for
files being finite; `LineLeft` has no such bound. It falls because every token
but the end of the line takes a character at least (`NextOn`) and an array is opened by
one.

Only model-checked:

* the liveness properties themselves: TLAPS does not reason about fairness and
  `ENABLED` here;
* `Means`: the meaning of an expression and the value behind a pointer are
  recursive over data, and `CfgMeaning` and `CfgRefinement` define them with
  RECURSIVE operators, which the prover does not take;
* `TokensReadBack` and `CrcExact`: what the tokeniser makes of a text that was put
  together from tokens, and that tables and words of eight bytes come to the same as
  dividing bit by bit, are inductions over the data with a computation at each
  step (256 entries of the table; escapes, digits and letters as strings), for
  which these provers are not made.

## 5. Where code and documentation differ

* `ta_size_doc`: `ta.h:69` promises the sum of the user-data sizes; sizes are
  kept modulo 2^32 (`ta.c:41`).
* `dict_each_doc`: `API.md:643` promises a call for every entry; a table of 2^31
  buckets is not iterated over, because its size is compared as an `int`
  (`dict.c:268`).
* `bitmap_find_doc`: `map.h:99-102` promises a gap of `gap_size` zero bits for a
  64-bit size; the size is passed on as an `int` (`map.c:478`), and the gap that
  is reported may have bits set.
* `crc_table_doc`: `crc32c.c:12` says that each entry of the table is the CRC of
  its index; two of them (`crc32c.c:62`) are not what the polynomial gives. The
  software path and the hardware paths therefore differ for data that reaches
  one of the two. `CrcExact` takes the software path for the data that does not.
* `cfg_comment_doc`: trailing comments are ignored, says the syntax; the path of
  an `include` without quotes is the rest of the line with the comment in it.

Noted, without a run of their own:

* `ta.h:29` says that cleared nodes are freed by `ta_sweep()`; the marked ones
  are (`ta.c:218`).
* `API.md:432` calls the generator not thread-safe where `krand64.h` and the code
  make it so; `krand64.h:15` says that `set_kseed64` initialises the mutex, which
  is initialised statically.
* A character that no token begins with ends the line without an error
  (`cfg_parser.c:178`); what follows a complete value is not looked at; `[1, 2`
  without its bracket is an array. A line of exactly 1023 bytes that ends the
  file without a newline is refused as too long.
* When memory runs out inside a concatenation, the part that was built is stored
  and the line returns 0, where `cfg_parser.h:17` says -1 on error. `CfgMeaning`
  allows it (`Partial`).
* A null string coerces to `null` (`var.c:197`). A dict inside a dict takes two
  levels of the printing depth.
* `bm_extent_can_grow` is right for one bit more than the extent has
  (`BlockClaim`, section 2).
* The hardware paths of CRC-32C read words in host order: the model, as the
  processors they are for, is little-endian.

## 6. Plan

Done: every stateful part is modelled and checked, and every safety property of
a state machine is proved but for the refinement `Means`; of the pure functions,
`hash_b79`. What could follow:

1. `CfgMeaning` and `CfgRefinement` with recursive functions over the heap's
   addresses in place of RECURSIVE operators, which would bring `Means` within
   reach of the prover, one statement at a time.
2. `CrcExact`, from lemmas about the division as a linear function of the set of
   one bits, which would leave the table to be compared entry by entry.

Not modelled, and not planned:

* tracing, panic, the hex dump and the printing of dicts: output only, without
  state another part reads;
* `xxh32` and `xxh64`: taken over from the Linux kernel, and the dictionary works
  with any hash;
* the instructions of the processors that compute CRCs: external, modelled by their
  definition;
* `str_starts_with`, `str_ends_with`, `var_to_int`, `var_to_float`, `var_to_bool`:
  single comparisons and conversions that no other part depends on;
* `kfs_config.c` and `globals.c`, which are not built; the test programs.
