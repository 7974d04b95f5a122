# TLA+ models of port-libjansson

A verification project for the Rust port of the jansson JSON library (`src/safe`).
TLC checks the modules on small instances. The theorems hold for every value
of the constants and are checked by TLAPS. All paths below are relative to `src/safe/src`
unless they start with `src/`.

| To run | Command |
| --- | --- |
| parse a module | `tlasany Parser.tla` |
| check a run | `tlc -workers 2 -config MCParser.cfg MCParser` |
| check proofs | `tlapm RefCountProofs.tla` |

`PROJECT.json` lists the components, the runs, the mutants, the source lines of every
definition (`map`), the findings, the hazards and the theorems.

## 1. Inventory

jansson is a C library: values (`json_t *`) are reference counted, containers own
references to their items, and a program calls functions that build, change, read,
parse, print, pack and unpack values. The port keeps the C interface and layout and most
of the manual memory management: `malloc`ed nodes, intrusive lists, raw pointers.
So the compiler proves little of it and most of the hard behaviour is still there.

| Component | State | Operations | Interacts with | What is hard | Correct means |
| --- | --- | --- | --- | --- | --- |
| Hash seed (`object.rs` 16-17, 212-331) | `HASH_SEED`, `HASH_SEED_INITIALIZING`, two atomics of the process | `ensure_seed`, called by `json_object` and `json_object_seed` | every hash of every key | lock-free initialisation by racing threads, a spin loop | one initialiser; nobody returns unseeded; the seed does not change under the keys |
| Reference counts (`abi.rs`, `json_delete` in `scalar.rs`) | `refcount` of each value, `usize::MAX` for the three singletons | `incref`, `decref`, deletion of a whole tree, the reference side of every container operation | everything | last references dropped by two threads; deletion runs in the middle of a replacement | counts exact; no use after free, no double free, everything unreferenced is freed |
| Object (`object.rs`, `raw/table.rs`, `raw/list.rs`, the macros of `jansson.h`) | hash table, bucket runs in one list, order list, iterators held by the program | set, del, clear, three updates, recursive update, iteration, copies, equality | hash seed, reference counts | buckets share one list; growth between two steps of an iteration; updates that fail half-way; keys with a NUL | an insertion-ordered map; iterators stay valid under the documented protocol |
| Array (`array.rs`) | table, `size`, `entries` | set, append, insert, remove, clear, extend (also with itself), copies, equality | reference counts | growth that copies in two parts, uninitialised slots, sizes near `usize::MAX` | a sequence of values; never reads a slot that was not written |
| Parser (`load.rs` 1005-1560, `error.rs`) | stack of frames, pending value, key texts taken from the lexer, the error buffer | `parse_json` | lexer, containers, error buffer | who owns what when any step fails; flags; depth limit | accepts JSON and only JSON, with its value; reports the first error; leaks nothing |
| Lexer and stream (`load.rs` 1-1004) | push-back buffer, UTF-8 sequence buffer, position, token text | `get_char`, `unget`, `scan` | sources, parser, `RawBuf`, UTF-8, number conversion | EOF and errors that stick, one character of push-back, positions across lines, a buffer that cannot grow | the tokens of the text, with right positions |
| Sources (`load.rs` 1586-1862) | buffer position, file, callback chunk | `json_loads`, `json_loadb`, `json_loadf`, `json_loadfd`, `json_load_file`, `json_load_callback` | stream | refill of the callback chunk | each byte once, in order |
| Encoder (`dump.rs`) | set of parents, sink | `json_dump_callback` and the functions on top of it | containers, callback of the program | knots in the data, a callback that refuses | writes the text of the value, fails at a knot |
| Walks over graphs: deep copy, copy, equality, recursive update (`scalar.rs`, `array.rs`, `object.rs`), `PointerSet` (`raw/table.rs`) | set of parents, partial copies | `json_deep_copy`, `json_copy`, `json_equal`, `json_object_update_recursive` | containers, reference counts | knots; values shared by the two arguments; allocation failure deep inside | a new tree equal to the old one, but for keys with a NUL (section 5); the object merged and the other as it was; nothing leaks |
| Pack (`pack.rs`, `csrc/pack_unpack_shim.c`) | format scanner, recursion over partial values, `has_error` | `json_pack`, `json_pack_ex`, `json_vpack_ex` | variadic shim in C, containers, error buffer | the format is scanned three times by two grammars; after an error the call goes on to the end, to release what 'o' was given | builds the value that the format says, or releases everything once |
| Unpack (`unpack.rs`, the same shim) | format scanner, key set of an object in strict mode | `json_unpack`, `json_unpack_ex`, `json_vunpack_ex` | variadic shim, containers, error buffer | a second grammar; optional members that are not there, with all that is below them; targets already written when a later part fails | writes what the format asks, references only for `O` |
| Scalars (`scalar.rs`) | payload of a value | constructors, getters, setters | reference counts | little | - |
| UTF-8 (`utf.rs`) | none | encode, check, iterate | lexer, scalars, encoder | boundaries of the ranges | the table of the Unicode standard |
| Number conversion (`strconv.rs`) | none | text to double and back | C locale | rounding | round trip |
| Growing buffer (`raw/buf.rs`) | `value`, `length`, `size` | append, pop, steal | lexer, `json_dumps` | overflow of the size | a byte sequence |
| Allocation hooks (`raw/alloc.rs`) | two function pointers | set, get, allocate | everything | changed while values live | - |
| Error buffer (`error.rs`) | text, source, position, code in the last byte | set | parser, pack, unpack | the first error stays | - |
| Version, shims, build (`version.rs`, `csrc/`, `build.rs`, packaging) | none | - | - | - | - |

Interaction happens through calls in one thread. The only concurrency is between threads of
the program: they share the hash seed, the counts of shared values, and, under the rules
of the documentation (`src/original/jansson-2.14/doc/threadsafety.rst`), values that nobody changes. Callbacks
to the program occur in the encoder (sink) and in `json_load_callback`. Nothing is persisted,
and no messages or timers exist, so there are no crashes, losses or timeouts to
model. The failure that matters is an allocation that returns `NULL`, at any point.

## 2. What is modelled

### HashSeed (with the last part of ObjectTableProofs)
One action per atomic access of `ensure_seed`: `LoadSeed` is the early return, `CompareExchange`
takes the flag or goes to `Spin`, `StoreSeed` stores the explicit seed or a generated one,
`ClearInitializing` resets the flag. Around it is the program: `Main` runs first, `Spawn`
starts the other threads, each thread creates one object (`CallObject`) and inserts,
deletes and forgets one key. `stored[t]` is the set of seeds this key is in the object under:
two of them mean that the key was not found and inserted again. `CallSeed` keeps the cut
of the `size_t` argument to 32 bits (`% SeedSpace`).

### RefCount (with RefCountProofs)
A reference is a token with a holder (a thread, or a container, whose slots are the tokens it
holds) and a target. `rc` is the field. `Incref` and `Decref` are one step each, as
`fetch_add` and `fetch_sub` are. A value whose count falls to 0 goes on the stack of the thread that
saw it, and this thread releases its children one step at a time (`DeleteChild`), then
frees it (`Free`); in between other threads run. The container operations are those of `array.rs` and of
`object.rs` as far as references go: `Give` (append and insert), `Replace` and `Store` (the
old value is released *before* the slot is overwritten), `IterSet`, `Remove` (the value is released before the slots behind it are moved), `Clear` with one step
per slot, `Extend` with one step per slot. An operation that still writes into its container after a release is in progress (`op`, `at`) until `Store` or `Finish`, the last of
its writes. The rules that the program keeps are guards (`MayMutate`, `MayRead`): one thread changes a container at a time and nobody reads it meanwhile, and a value is used only
through a reference that the thread holds or through borrowed ones: `Reaches(t, w, c)` says that `t` gets at `c` through the containers of `w`, of which it holds the first. A borrowed reference, such as a result
of `json_object_get`, keeps nothing alive by itself, so the containers on the way are remembered while the operation runs (`via`), and no other thread may change them.
A slot is emptied when its value is released, so the pointer that stays in a slot until it is overwritten is not seen; that it is not read is part of `Array`, whose functions read no slot after the release.

### ObjectTable and OrderedMap (with ObjectTableProofs)
`table` is `RawTable` (`size`, `order`, `buckets`, one list that all buckets share),
`ordered` the order list, `value` the values. A doubly linked list is a sequence and an entry is its key. `Set`
is the whole of `json_object_setn_new`: `ensure_capacity` with its rehash first, then the lookup, then
replacement or insertion, which may fail for memory after the table has grown. An update loop
(`UpdateBegin`, `UpdateTurn`, `UpdateEnd`) is a step per key; a turn that fails leaves its record,
with what it and the turns before it did, until the call returns; in two of the three modes keys
are measured with `strlen`, which `CString` models. `walk` is an iteration of the program
over the object, plain or `_safe`, interleaved with what its body may do.
`OrderedMap` is what an object promises: a sequence of distinct keys with values.

### Array, ValueSequence (with ArrayProofs)
`size`, `entries` and `table`, as in `JsonArray`. Memory that `malloc` returns is `Garbage`. `MayGrow` holds
the checked arithmetic of `array_grow`. `OpenGap` is the insertion, which moves in place or
copies in two parts. `ExtendSelf` is `json_array_extend(a, a)`, which reads from the table that it has
just replaced. `ValueSequence` is the abstract sequence.

### Parser and JsonGrammar (with ParserProofs)
One step per turn of the loop of `parse_json`. The lexer is replaced by its interface: any
token may come next. `input` remembers those that came, so the run explores every token sequence up to
`MaxTokens`. `frames` is the stack of the code with its six states, `pending` the
value that is complete and not yet in its container, `keyTexts` counts the key
texts that were stolen from the lexer. Allocations may fail wherever the code allocates. `Reported`
is the rule of `error.rs` that the first error stays; the lexer may have reported one
before the parser complains (`"broken"`, and `"number_before_bad_byte"`, a good number followed by a byte
that is not UTF-8). `JsonGrammar` is not derived from the code: it builds up the texts of RFC 8259 of at most
`MaxText` tokens and their values, and is what `Accepts` and `Rejects` compare the parser with.

### Lexer (with LexerProofs)
`Stream`, `Lexer` and `RawBuf` below the tokens. A byte is one of 17 classes. Each step looks at the last
character `c`, as the loops of `scan`, `scan_string` and `scan_number` do, and reads the next one with `GetChar`
or `GetAndSave`. `Fetch` takes a whole character from the source, which may end anywhere or give bytes that are not UTF-8; both states
of the stream stick. `PutBack` is `unget_char`. `AppendBytes` is the growth of `saved_text`, whose
failure `save_char` ignores (`lost`). `NumberNext` is the control of `scan_number` as a table: where the scan is after a
character that belongs to the number. `Decoded` is the second pass over a string. `from` is where the token begins, for the properties.
The reference (`Pieces`, `IsNumber`, `IsLexeme`) is written from RFC 8259 and not from the code. `Parser`'s tokens are
the results of `Scan`: the strings with and without a NUL, the numbers, with a byte behind them that is not UTF-8 or
without, and the invalid tokens, with an error of the lexer or without.

### Traversal (with TraversalProofs)
`json_deep_copy` and `json_dump_callback`, the two recursive walks that keep a `PointerSet`
of parents. The recursion is a stack of frames. `visit` is the argument of the call that is about to be
made, `result` what one has returned. `Knot` is the container that is one of the parents;
`Enter` makes it one (`enter_parent`, or `contains` and `insert` in the copies); `Descend`, `Ascend` are the two
halves of a turn of the loop; `Unwind` is the failing exit of a level, which releases its partial copy and
takes its container off the set (`ParentGuard::drop`, `parents.remove`). A copied object is filled by C string
(`json_object_set_new_nocheck`): `names` says which members have keys that agree up to their first NUL, and of those the first gives the place and the last the value; the
value that is replaced is released (`With`, `Displaced`). The text of a dump is a sequence of
tokens, and the callback may refuse any of them or the white space after one.

### Format, Pack, Unpack, FormatMeaning, PackUnpack and PackUnpackMeaning (with PackUnpackProofs)
`Format` is what both directions share: the scanner with its one token of push-back (`Advanced`, `PushedBack`, which
are `next_token` and `prev_token`), the list of arguments and `Take`, which takes the next one of the kind that is
expected. A format is a sequence of characters and a token is a place in it.

`Pack` begins with the shim: `PackKinds` folds `marshal_pack_value` and its helpers over a format and gives the kinds of arguments that the
C code would fetch with `va_arg`. The actions are the functions of `pack.rs`, with the recursion as a stack of containers begun: one action for
each place where a function can leave, since an error does not end the call. It sets `has_error` and goes on, to read the
remaining arguments and release those of 'o'. Only where the buffer of a joined string or a container cannot be allocated does it leave a part of the format (`strayed`). `held[k]` is the number of references to the k-th argument, `buffers` counts the strings and key sets in use.
`Unpack` is the second grammar of the shim and the functions of `unpack.rs`, in which an error ends the call. `out` is what has been written to which target and `lent`
the references that 'O' has taken. `levels` holds, for a container, the keys asked for and whether the strict check is due.

`FormatMeaning` is a reference that is not derived from either scanner: a recursive-descent reading of a format as a tree of parts (`PackFormat`,
`UnpackFormat`), written from the chapters on building and parsing values of the API reference, the tree that the arguments build (`PackMeaning`), and what
a format takes from a tree, with the first fault (`UnpackMeaning`).

`PackUnpack` is the composition: a program packs, with every choice of arguments for the kinds that the format asks for, and may give the result, or
`NULL`, to `json_unpack` with another format. `PackUnpackMeaning` states what the two calls promise it in terms of `FormatMeaning`.

### Merge and MergeMeaning (with MergeProofs)
`json_object_update_recursive`, `json_equal` and `json_copy` over graphs of values. The recursion is a stack of frames; `visit` holds the arguments of the call about to be made.
`heap` holds the contents of containers, which the update changes, and `live` those that are not freed. `Kept` computes what is left when everything unreferenced has been deleted:
a frame holds no reference, so what it is in may go. A step that would read it ends with the status `"stale"`, and a recursion that has used up the thread's stack with `"overflow"`. In these two the program is lost;
the properties say when they cannot happen.
What the calls promise without regard to what the values mean is stated here: `OtherIsKept`, `CopyKeepsPromise`, and `UpdateFailsForMemory`, with `Apart` for two containers of which neither is reached from the other.
`MergeMeaning` says what the calls mean, over the trees that values stand for (`Tree`): `Merged` is the merge of two trees, `Passed` the part of a tree that the loops have been through. `CallKeepsPromise`, which the run checks, puts both together.

## 3. What each run checks

| Run | Instance | What it shows |
| --- | --- | --- |
| `hash_seed` | 3 threads, seeds 0 to 2, arguments 0 to 3 | `OneInitialiser`, `ReturnsSeeded`; a program that seeds before it spawns never sees the seed change (`AutoseedFreezesSeed`); every call returns. (That it then finds all its keys is not checked by the run and is proved, `AutoseedKeepsKeys`) |
| `hash_seed_race` (violation) | the same | without that, a seed can be replaced: see finding 1 |
| `refcount` | 2 threads, 2 containers, 1 singleton, 4 references, borrowing through one container | exact counts, no use after free, single deletion, the container of an operation, held or borrowed, survives what the operation and the other thread delete until the last write, everything released is freed |
| `object_table` | 4 keys, 3 of them in one bucket of the first table, 2 sources of updates | bucket runs, agreement of the two lists, live iterators, each update loop merges exactly the prefix it has taken, loops visit everything once; refinement of `OrderedMap` |
| `array` | 2 values, 2 slots at first, `usize` up to 25 | no slot is read that was not written, no size wraps, nothing stale; refinement of `ValueSequence`, call by call |
| `lexer` | see below | line, column and position are those of the bytes read, whatever was put back; `scan` returns the longest lexeme with its value and refuses only what is none; the string of a token is always freed |
| `lexer_oom` (violation) | the same | a token that the input does not have: finding 2 |
| `parser` | inputs up to 9 tokens, 2 keys and a string with a NUL, depth 2, 4 sets of flags | the language, the values, the first error, and exact ownership after every turn |
| `parser_oom` (violation) | the same | finding 3 |
| `traversal` | every connected graph of 3 containers with at most 2 items each, and an object of 3 in some, with keys that differ or agree up to a NUL; copies and dumps with the two flags that change control | stops at knots and only there, copies are new trees that unfold as the original does but for such keys, failures release everything, what is written is the text or its beginning, the walk ends |
| `pack_unpack` | 4515 formats: all of up to three or four characters from two small alphabets and 229 longer ones, whole and broken; seven of them go on to be unpacked by 201 formats under three sets of flags | shim and scanner agree on the arguments (`ArgumentsAgree`); `json_pack` builds the value or names the first fault, and accounts for each reference on every way out (`PackKeepsPromise`, `PackOwns`); `json_unpack` writes what the format takes, or what it takes before the first fault, and the references of 'O' are exactly those written (`UnpackKeepsPromise`, `LentIsWritten`); both return (`CallsReturn`) |
| `merge` | graphs of two objects (or arrays) that are the arguments and two more containers, which they share and which may be knotted | the object is at every moment merged with what the loops have been through; comparison tells trees apart; an update is no deeper than there are containers, and only two knots let a comparison exhaust the stack; copies are released (`CallKeepsPromise`); the other object and what is below it is neither changed nor freed (`OtherIsKept`) |

### Bounds, and why they are enough
* `hash_seed`: a race for the seed needs a winner, a loser that waits and a thread that is
  late; three threads play them. Two non-zero seeds are enough to tell a change; an
  argument of 3 is a `size_t` that is cut to 0.
* `refcount`: two threads race for the last references of one value; two containers nest and can be
  in a cycle; four references let a container hold two values while both threads hold it. `MaxWay = 1`: with two containers a borrowed one is one step away.
  Deadlock is not checked: when the four references are in containers that hold each other and no thread holds one, the program has nothing left to call.
* `object_table`: two buckets at first and four after growth. Three keys collide before and
  two after, so entries that share a bucket both stay together and part. Counting, rehash and
  iteration do not depend on more. The real table starts with 8 buckets, and `INITIAL_TABLE_ORDER` is the constant
  `InitialOrder`.
* `array`: from 2 slots through 4 and 8 to 12, where the next growth exceeds `MaxSize`: each test of `array_grow`
  fails for some call.
* `parser`: nine tokens are an object with two members, or three levels of brackets around an item, of which two are
  allowed: every transition between the six states, with one and with two items, both kinds
  of containers in each other, and a text that is one level too deep. `InitialRoom = 2` makes
  the third item of an array need an allocation.
* `lexer`: any two bytes; three bytes of words, lines and UTF-8, or of a string; four bytes of a number; and any
  byte behind these. Strings that begin with an escape have up to six bytes between the quotes. An escape has
  one digit (`EscapeDigits`), so this is enough for a pair of units, half a pair, and a pair followed by more. The
  buffer starts with room for one byte (`MinSize`), so that it grows in a short token, and `MaxLost` bytes may be lost in a scan.
  The real numbers (4 digits, 16 bytes) only make the same steps more often.
* `traversal`: knots of length one, two and three; shared containers that are not knots; a failure after
  and before each item. A container has its own neighbours, so longer ones add repetitions
  only. Two keys of an object that agree up to a NUL need two members, and three show a place that is kept and a value that is displaced with what it holds; five namings cover which of three agree. No constraint bounds the depth: `TypeOK`, which is part of `CopyIsTree`, says that it is at most three.

* `pack_unpack`: with two containers inside each other and two members each, every function of both files is called from every
  other that calls it. All short formats over the characters that matter are there, so every two or three tokens that can meet do. Arguments: at most
  `MaxOdd = 2` are out of the ordinary (NULL, another key, not UTF-8, half a character, not finite), which is enough for a first fault and one after it, and for
  two parts of a character in two parts of a string. At most `MaxStarved = 1` allocation fails, in one of the two calls: what
  follows the first failure is another failure that is already reported. A NULL to be unpacked comes from formats with one argument only, as its origin makes no difference. Larger runs, with all packing formats up
  to length 5 and with more of the unpacking formats, were made once and found nothing more. A value passed for 'o' is a real: it is opaque to `json_pack`.
* `merge`: the arguments, one container below each and one that is made by `json_copy`. Two inner containers are enough for a shared value, a knot of length one to four, a value that
  is shared by the two arguments and one that is freed while the update is inside it. One of the two is an array in half of the graphs of objects, and in some graphs both arguments are arrays, which are compared and copied. Three keys: two that differ, and one that `strlen` cuts to the first. `MaxDepth = 7`
  is more than a walk without a knot can need: it is the model's, so that an endless recursion ends, and the code has no bound. What is checked and proved of the update is that it is no deeper than there are containers.

`CHECK_DEADLOCK FALSE` is set where a call is over when it returns (`parser`, `traversal`, `pack_unpack`, `merge`), the input ends (`lexer`) or the references are used up (`refcount`).

### Fairness
`HashSeed` has weak fairness of `EnsureSeed` for each thread: the scheduler runs every thread
that is in the library, and a spinning thread yields. The program is under no obligation to call anything. `RefCount`'s `FairSpec` lets each
thread finish the deletion and the operation it is in, and nothing else. In `Parser` and `Traversal` one thread runs one call, so
weak fairness of `Next` says only that it is not suspended for ever. `PackUnpack` has weak fairness of each of the two calls, and none of `ThenUnpack`, which is the program's choice. `Array`, `ObjectTable`, `Lexer` and `Merge` have no liveness property: that no walk of `Merge` is endless is the bound on its depth.

### Mutants
Each property of a passing run has a mutant in its module, marked *Mutant*: a definition
changed as a plausible bug would change it (a dropped early return, an off-by-one copy, a parent left in the set). With it
TLC finds the property violated.

## 4. What is proved

Each proof module extends the module it is about; its theorems hold for all constants that satisfy the named
assumptions of that module.

* **RefCountProofs**, for any threads, values and a finite set of references. `IInv` says that counts are exact, that a
  value is live exactly while its count is positive, that slots belong to values not yet freed, that what a thread is
  deleting is deleted by it alone, and what a thread in the middle of an operation still holds
  (`OpHolds`, `Exclusive`). The last is needed because `json_array_set_new` and `json_array_remove` go on to write into the container after they have released a value:
  it survives because each container on the way to it keeps the next (`Keeps`): the thread's own reference is not the one that is released, and the slots on the way are in containers that nobody changes
  meanwhile (`ReachedIsLive`, `WayKeeps`), so a deletion comes to none of them. This is for borrowing through any number of containers (`MaxWay`).
* **ArrayProofs**, for any capacity, word size and contents. `Inv` is the conjunction of the four invariants; typing and
  `SlotsInUseHoldValues` are needed by each other part. `CallsRefine` shows call by call that
  the table does what the sequence does, and `ArrayIsSequence` follows.
* **ObjectTableProofs**, for any keys and values, any hash function, any initial order of the table and any set of other objects. All properties of the run
  `object_table` are theorems. The argument goes from the lists over the table to the steps. What `insert_into_bucket` and `remove_from_bucket`
  do to a well-formed table (`InsertWorks`, `RemoveWorks`) needs that each bucket is the run between its two pointers
  (`BucketsAreRuns`) and that the bucket pointers of no other bucket are disturbed. `find_in_bucket` then finds a key exactly if it is in (`ChainIsBucket`, `FoundIff`).
  `rehash` is a fold of insertions over the list, and the fold keeps that the entries moved so far are in their new buckets (`RehashWorks`).
  `IInv` adds to this where a walk is: a position in the order list, and that the entries from there on are those it
  has still to visit. A deletion of the entry the walk is on is followed by no read of it, which is what the safe loop is for.
  For the update loops `MergesOK` adds what has been merged so far. An object updated from itself reads entries that the loop changes: the proof shows that
  a value that the loop has changed before it reads it makes no difference, as the merge would overwrite it anyway (`OverwriteAbsorbs`), and that a key that the
  loop adds lies behind the entries it reads. `Refines` then maps each step to a step of `OrderedMap` or to a stutter.
  Folds need induction over their length. It is done over sets of numbers (`InductionOverSet`, from the library's `WFMin`).
  Its last part is about `HashSeed`, for any set of threads and any width of the seed. The invariant `SeedInv`
  adds to the properties that `Main` is alone before `Spawn` (`MainAlone`), that after an autoseed no thread is past
  the early return (`NobodySeeds`), that the seed is in place from the store on (`SeededFromStore`), and that keys live in objects and
  under the seed in force (`KeysUnderSeed`). Without `NobodySeeds` the theorem `AutoseedIsFinal` is not inductive: a thread that stands before its store would replace the
  seed.
* **TraversalProofs**, for any containers and any graph of them. `IInv` says that no container is on the stack twice
  (`OnceOnStack`) and that the set is what is on the stack (`ParentsOnStack`). A container is pushed only when it is
  not in the set, and from `OnceOnStack` taking off the one on top takes off no other. So the set is the path of the walk after
  every return, good or failing (`ParentsFollowStack`), and the recursion is bounded by the number of containers, however they are knotted
  (`DepthIsBounded`). `FailsAtKnotsOnly` is the property `StopsAtKnots`: a walk that no allocation and no callback stops fails exactly when a container
  that the argument reaches is inside itself. Its invariant `KnotInv` relates the walk to the graph: each frame is inside the one below it (`Lineage`), and nothing
  in the part of a container that the loop has been through holds a knot (`UntiedSoFar`). A parent met again is then inside itself; and a container
  left without a failure reaches no knot. `Inside` is the least set that is closed under membership, so no induction over paths is needed.
* **MergeProofs**, for any set of graphs of finitely many containers. While `json_object_update_recursive` runs, the other objects of the calls in progress are different containers and the set is
  what they are (`Path`); three lemmas say that entering, going on and returning keep this. It needs nothing of the heap, so it holds although the update changes and frees what it walks through. So there are never more calls
  in progress than containers (`UpdateIsNoDeeper`), whatever room the stack has. `json_equal` has no such set, and the run finds the two knots that exhaust it.
  `UpdateLeavesTheOther` is the property `OtherIsKept`. The calls in progress hold no reference to what they walk through. Their objects are in use because each is held by the one below at the entry that its loop is at (`Meet`, `Lineage`),
  and the first by the program; a deletion keeps every set whose members are held from within or by the program (`HeldIsKept`). This is so as long as the loop above does not write into the objects below, for which they must be different (`MetIsNew`),
  and as the loop finds its own old values and nothing that it has taken from the other: an entry is old or has a key that the loop is past (`FromPast`), and what the loops have yet to come to is as it was (`AheadIsWhole`), as siblings of a tree have no part in common (`SiblingsApart`).
  `UpdateFailsOnlyForMemory` adds that a parent met again would be in a knot (`ParentIsKnot`), and `CopyIsShared` is the promise of `json_copy`; both are parts of `CallKeepsPromise`.

* **ParserProofs**, for inputs of any length, any strings and any depth bound. The key text that is stolen from the lexer is
  freed in four places: where the key is refused, where its value has been added or could not be, and in
  `cleanup_frames`. `KeyTextsAreOwned` says that the texts allocated are always those of the frames, one each, and `NoKeyTextLeft` that none
  is left when `parse_json` returns. The invariant `IInv` adds that a frame has a key only between the key and the end of its value
  (`KeylessHaveNone`): the code pops a frame without a look at its key, and takes the next key over the old one, which would be lost. It also adds the
  types, and that the stack is empty once the call is over. `StackIsBounded` is the depth limit.
  `ParserLeaksNothing` is `NothingLeaks`, values included. Its invariant `OwnInv` says that a value holds only values made after it, as it is
  put into its container when it is complete (`Rising`, `Grown`), that what a frame, `pending` or a live value holds is live (`ItemsLive`), that it is there and nowhere else
  (`InOnePlace`), and that every live value is held by something (`NoneLost`). `PutShape` covers the three ways a value gets in: a slot, a new member,
  a member whose key was there, whose old value is deleted with all that is below it. From `Rising` the recursion of the deletion ends,
  so `Below` is what a value holds (`BelowIsHeld`); from `NoneLost` deleting the bottom frame and what is pending, as `cleanup_frames` and the
  release of `pending` do, leaves nothing (`CleanupFreesAll`). The second release of finding 3 is no leak; the model records it apart (`overreleased`).
  `FirstErrorIsReported` is `FirstErrorStays`, which is `ErrorNamesCause` but for the clause about the grammar. Its invariant `Causes` says that until the call gives up only the lexer has reported anything, and that it has
  exactly if a bad token was read (`OnlyLexical`), and that every key in a frame or a value was a token in front of the last one (`KeysRead`), so that what is refused as a duplicate was there before.
  `SuccessLeavesNoError` is `SuccessIsQuiet`, the part of `Accepts` about the end: a number before a byte that is not UTF-8 is a good token with an error already reported, and what keeps such an error out of a success is that the
  bad token can only be the last one or the next (`BadIsLast`). For this a closing bracket has to be told from a bad token, so what is open must be a container (`OpenAreContainers`), and no string token may be one of another kind (`TokensAssumption`).

* **PackUnpackProofs**, for any formats, arguments and number of failing allocations. `PackLosesNothing` is `PackOwns`; its invariant `Packs` has five parts. `Control` types the
  state and says what each phase has to do with the stack, the scanner and the key. `InStep` says that the packer is beside a step of the shim's run through the format (`Beside`, `At`): the shim has
  listed the arguments that were taken and no others. It is needed because an 'o' is told from an 'O' by the token, and an argument by the token that it was passed for. The shim pushes a
  token back more often than the packer, and stops at once where the format is broken while the packer goes on, by then with no argument left. `Holding` says that each value that is live
  is in one place, in a live container or in the hands of the call, that it was made after what holds it, and that nothing freed is in a place. `Counted` says that the references of an argument are
  those of its place. `BuffersFit` counts the keys that are owned and the text being joined. Most steps are `Balanced`: they give no reference up and take none; `PutBalanced` is the hard one, for a
  member whose key is there again displaces a value and all that is below it. `Below`, the recursion of `json_delete`, is shown to be the least set that is closed under holding (`BelowIsReached`),
  and the fold in `PackKinds` to be a run of the shim (`PackKindsAreListed`).
  The attempt at this proof found that the clause about arguments is false where the packer strays (section 5), so it says this only of `~strayed`; the other two clauses hold throughout.
  `LendsWhatIsWritten` is `LentIsWritten`, for any value and flags too. An 'O' takes its reference before its target is fetched, so what has to be shown is that there is a target behind every 'O'
  that the unpacker comes to, of the right kind, and that nothing between the two can fail. Its invariant `Unpacks` is built as that of `json_pack` is, on the other shim: `UnpackRun` is the walk of that shim
  through the format, shown to need two steps for each place at most, so that the steps the fold allows it are enough; `UnpackKinds` is the list it leaves. `UnpackInStep` puts the unpacker beside a step of
  that walk, the brackets it is inside of among them (`UnpackAt`); `Taking` says that no argument was missing or of another kind; `Lending` counts what is lent by what is written, and the buffers by the key sets
  of the objects that are open. `UnpackTakesTheRight` states `Taking` by itself: the half of `ArgumentsAgree` that matters to `va_arg` on this side. A key, a string or a length that is missing or of another kind is reported as a mismatch and then as NULL (`FailsAfter`), so the proof has to show at each of them that the shim has listed the kind that is asked for. While `json_pack` runs there is nothing of `json_unpack`'s yet (`UnpackRests`).
* **LexerProofs**, for any stream of bytes, well-formed or not, and any number of failing allocations. `PlacesAgree` is `PositionsAgree`: at every character the lexer reads, puts back or
  refuses, `position`, `column` and `last_column` say where it is. Line and column go back when a character is put back, and what they go back to is right only if nothing but one
  character was read since `last_column` was set. So the invariant has `StreamOK` (the buffer holds what was read from one character on, and the three counters are those of its start), and `CharRead` (while a token is scanned,
  `cur` is the character in front of `position`; it is what `unget` may put back). The line before the newline needs the column the line ended at, which is why `last_column` is there. `Typing` and the room
  in `saved_text` come with it.
  `TokensLexemes` is `TokensAreLexemes`. Its invariant, `TInv`, adds that the text is the input from the token on (`TextIsInput`; it lags by the last character while nothing of
  the token, or only a point, has been seen), that a stream which has ended has given all of its buffer (`StateOK`), and what the text is in the middle of (`Shape`): for a number what `NumberTo` says of the state the scan
  is in, for a string that the text up to some place is divided into characters and escapes (`Whole`). Numbers: each state is of other texts (`NumberToOne`), a text comes into a state only along
  `NumberNext` and the point (`NumberCameFrom`), and the four last states are the grammar of RFC 8259 (`NumberIs`); so a number that ends where no step goes on is the longest (`NumberIsLongest`). Strings: the
  decoding of `load.rs` and the pieces of RFC 8259 read a `Whole` text alike from every place where a part begins (`Agree`), shown from the last part back (`WholeIsRead`) with `SetInduction`, which is
  the induction over one set that the provers can use, and the panic of the decoding is unreachable.
  `RefusesOnlyNonLexemes` is `RejectsOnlyNonLexemes`. Its invariant, `RInv`, adds that before the scanner reports an error the stream is the only one that has (`Cause`), and that a word is made of letters (`WordOK`).
  What is left is about texts: the bytes from the token on (`BytesOfToken`) begin no lexeme, nor have they one in front that would have been the end of a token (`Rejected`). For a number this is that no step goes on.
  For a string it is that at the place where the scanner gives up nothing begins that could belong there (`Hopeless`), or nothing that is complete (`Stuck`), and that the pieces which RFC 8259 can read of the text
  end only where the scanner's parts do, but for the second half of a pair (`LandsOnPart`): so no reading leads to the end of the text (`NoWayOutReadsNothing`, again with `SetInduction`). A string that is refused when it is decoded has no
  reading either, because what can be read of it is decoded (`PieceDecodes`, `BadIsNotRead`).

Assumed and not proved: sequentially consistent memory, the rules for programs that are
guards of `RefCount`, and that a call on one container is atomic to others, which those rules imply.

Only model-checked: liveness (`EnsureSeedReturns`, `DeletionCompletes`, `Terminates`), which the prover does
not treat under fairness; what `json_pack` and `json_unpack` promise and that the shims know the formats of the documentation (`PackKeepsPromise`, `UnpackKeepsPromise`, the rest of `ArgumentsAgree`), which texts `Parser` accepts and refuses and what they denote (`Rejects`, and `Accepts` and `ErrorNamesCause` but for `SuccessIsQuiet` and `FirstErrorStays`), what `Merge` promises of the trees that the update and the comparison are about, and the properties of `Traversal` about copies and texts. What recursive definitions compute (the
texts of `JsonGrammar`, `Text`, `Unfolded`) needs an induction over trees; the induction theorems of the library take an operator as a parameter, which the
provers cannot instantiate, and the set forms that `ObjectTableProofs` and `PackUnpackProofs` use for the length of a fold and for `Below` were not carried over to them. Only the references `FormatMeaning` and `MergeMeaning` declare `RECURSIVE` operators, so
`PackUnpack` and `Merge` can be proved about, and `PackUnpackMeaning` and what is above `MergeMeaning` cannot.

## 5. Findings

1. `SeedNeverChanges` (`hash_seed_race`). A thread reads seed 0 in `ensure_seed` and is held
   up. Another takes the flag, stores a seed, resets the flag, and inserts a key. The first then wins the
   `compare_exchange` and stores a second seed: the key is no longer found. `src/safe/SAFETY.md` says that a seed, once established, stays.
2. `NoWrongToken` (`lexer_oom`). If the text of a token cannot grow, `save_char` drops the byte and the scan goes
   on; `unget_and_unsave` then takes off a byte that was saved. With one failing allocation a number of 15 digits is
   returned with 14. A string that loses the second byte of an escape may meet `unreachable!()`.
3. `NoDoubleRelease` (`parser_oom`). If a value cannot be added to its container for want of memory, the
   setter has released it and `cleanup_frames` releases it again.

What else was seen while modelling, and is in the models as it is in the code. The conditions and exceptions of the properties name these cases.

* `json_array_extend` (`array.rs:434`) and `json_object_iter_set_new` (`object.rs:950`) do not compare the value with the container, so a container can be put in itself, which
  `doc/apiref.rst:260-262` says all such functions refuse.
* `json_object_update`, `json_object_update_missing`, `json_copy` and `json_deep_copy` (`object.rs:568`) cut keys at their first NUL: `{"a": 1, "a\0b": 2}` is copied to `{"a": 2}`.
* `json_object_update_recursive` looks a key up by its C string and sets it by its length. If the other object holds an object under `"a"` and another under `"a\0"`,
  and the object has no `"a"`, then the first is shared and the second is merged into it: the other object is changed.
* `json_object_update_recursive` holds no reference to what it walks through. If the two arguments have parts in common, it may free the object it is in: an object `{"x": other}` updated with
  `other = {"x": {"x": 5}}` is one.
* `json_equal` looks keys of the first object up by their C string in the second: `{"a": 1, "a\0b": 1}` and `{"a": 1, "c": 2}` are equal. It has no set of parents, so two knots exhaust the stack.
* `json_pack("[{*]")` returns a value although the error buffer is set: the object ends at the `*` with an error that is not noted in `has_error`, and the array takes the same `*` for a mark (`BraceStar`).
* When memory runs out, `json_pack` takes a string or container marked `*` for one to be left out, and succeeds. Elsewhere it returns `NULL` without an error text, or with one that names something else.
* When the buffer of a joined string cannot be allocated (`pack.rs:364-374`), `read_string` returns in front of the parts and leaves their arguments where they are; when a container cannot, `pack_object` and
  `pack_array` (`pack.rs:554`, `:660`) return in front of what is in it. The packer then reads the rest of the format with the wrong arguments: in `[s#oiO]` the 'O' is given the value that was passed for 'o' and takes a reference of its own,
  and the one passed is lost; in `[{s[oi]}]` without its inner array the 'i' takes it for a number. The C library goes through the whole format in both cases (`src/original/jansson-2.14/src/pack_unpack.c:161-166`, `:214-217`), as its test of "dontleak"
  (`test/suites/api/test_pack.c:441`) expects for other errors. `PackOwns` speaks of the arguments only while this has not happened (`strayed`).
* Under `JSON_VALIDATE_ONLY` neither the shim nor `unpack_string` knows the `%` of a string, and `s%` is refused.
* When the set of keys cannot grow, a strict `json_unpack` reports members as left over that were unpacked.

## 6. What is not modelled, and why

* `strconv.rs`: floating point and the C locale. `Lexer` lets any number be too big.
* File and descriptor I/O in `load.rs` and `dump.rs`, version, the `sprintf` shim, build and packaging: no state of the library.
* Escapes, indentation, precision and key order of a dump: layout. They change what is written between the tokens
  and not the control.
* Line and column in the errors of pack and unpack, and the overflow of lengths beyond `INT_MAX`: layout, and strings of 2 GB.
* The refill of the buffer of `json_load_callback`, `Lexer::init` that fails for want of memory, and the buffer of `json_dumpb` that counts on when it is full: each is a few lines around what is modelled.
* The room a thread's stack has: a value that is nested deeply enough, without any knot, exhausts it in every recursive function but the parser, which has a depth limit.
* Weak memory: `decref` has no acquire fence before `json_delete`; it is listed as a hazard.
* Scalar setters and allocation hooks: single assignments.

## 7. Plan

In order of importance. The first five blocks are done.

1. *Done.* `HashSeed`, `RefCount`, `Array`, `ObjectTable` with their abstract specifications, runs and proofs.
2. *Done.* `Parser` against `JsonGrammar`; `Traversal` with its first proofs.
3. *Done.* `Lexer` against the lexemes of RFC 8259, with `RawBuf` and its failures.
4. *Done.* `Pack` and `Unpack` against `FormatMeaning`, and their composition.
5. *Done.* `Merge`: recursive update, equality and copy over graphs; `MergeProofs` and the key texts of `ParserProofs`.
6. `Utf8` as operators against the table of the Unicode standard; the refill of the callback source; the buffer sink of the encoder.
7. Proofs. *Done:* all of `ObjectTable`, the values and the reported errors in `ParserProofs`, the knots in `TraversalProofs`, `PackOwns` and `LentIsWritten` in `PackUnpackProofs`, `OtherIsKept` in `MergeProofs`, `PositionsAgree`, `TokensAreLexemes` and `RejectsOnlyNonLexemes` in `LexerProofs`. *Left:* `CopyIsTree` for the
   part of a graph that the argument reaches (`Unfolded` is not well-founded elsewhere).
