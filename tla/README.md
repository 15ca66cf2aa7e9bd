# lisp-machine: verification project

This directory specifies, in TLA+, the run-time system of lisp-machine: a lisp
interpreter and a bytecode machine that run on a bare Raspberry Pi 3, with their
own memory allocator, reference counting, garbage collector and exception queue.
The modules are translated from the C sources (`../src`); TLC checks them on
small instances and TLAPS proves the central ones for all sizes.

    tlc -config Heap.cfg Heap              # one run; each .cfg is one
    tlapm Heap_proofs.tla                  # one module of proofs

`PROJECT.json` lists the parts and the modules that model them, the runs, the
lines of code behind every definition, the hazards and the theorems.

## 1. The system

The program boots on one core (`boot.S` parks the others), builds a heap, an
exception queue and the text of a kernel program (`main.c`), interprets that
text (`lisp.c`), and runs the bytecode that the text compiles to (`asm.c`).
`datastructures.c` and `alloc.c` carry the rest.

| Part | Source | State | Operations |
|---|---|---|---|
| exception path | `boot.S` vectors, `main.c` `exc_handler`, `datastructures.c` 978-1170 | two ring buffers, two locks, two tag counters | `concurrent_fifo_add` (from a vector), `concurrent_fifo_pop` (from `run`) |
| allocator | `alloc.c` 80-247 | blocks of one heap, a tree of free blocks in the free blocks themselves, three counters | `alloc`, `free`, `realloc`, `gc_alloc`, `gc_add`, `gc_free`, `gc_realloc`, `check_heap_capacity` |
| balanced trees | `datastructures.c` 348-914 | AVL nodes with parent links, balance factor in the two low bits of the parent link | `avl_insert`, `avl_delete`, `avl_find`, `avl_min_ge`, `avl_merge`, `avl_move` |
| queue, arrays | `datastructures.c` 191-345, 917-975 | links; word arrays and object arrays that grow | push, pop, append |
| objects | `datastructures.c` 20-261, 1173-1373 | reference count, type, contents; in the count's upper half a mark and a temporary count | `object`, `pair`, `object_append`, `object_delete`, sets |
| collector | `alloc.c` 315-532 | `gc_set`, the set of all functions | `gc_collect`, `gc_del_obj` |
| interpreter | `lisp.c` | tokens as arrays, functions with a namespace, arguments and code; frames | tokenizer, recursive evaluator, `_run_prog` (a machine with eight states), `new_fn`, `del_fn` |
| bytecode machine | `asm.c` 354-519, 581-586 | 32 registers and memory | 16 instructions; exception entry and return |
| assembler | `asm.c` 207-351, 533-578 | labels, words | `compile`, `comp_expr` |
| numbers | `datastructures.c` 1408-1870 | digits of arbitrary length | arithmetic, conversion |
| utilities | `util.c` | none | memory, strings, uart, compare-and-swap |
| main, boot | `main.c`, `boot.S`, `link.ld` | none | start |
| kernel text | `kernel`, generated `kc_ascii.h` | none | drivers in lisp and assembler |
| compiler | `compile.py` | variables and function names in scope | expressions to assembler |
| old port | `x86_64/` | none | an earlier version on UEFI with vendored gnu-efi |

How they interact: a vector calls `exc_handler`, which only adds to the queue; the
loop of `run` pops from it before each instruction and enters the program's
routine. The two share the queue without disabling interrupts. Everything else
is sequential, but deeply layered: the collector's sets are trees whose nodes are
blocks of the allocator, whose free blocks are a tree of the same kind; the
interpreter's frames, namespaces and arrays are kept alive by counts that
`object_delete`, the collector and `del_fn` all change.

What is hard in it:

* *the queue*: the handler may run between any two memory accesses of pop;
* *the allocator and the trees*: long sequences of calls, with nodes that move in
  memory because they are the memory;
* *the collector*: trial deletion is right only if every count agrees with the
  references there are, at the moment it starts;
* *the interpreter*: values are passed between frames without a count, and
  failures of the allocator are mostly ignored;
* *the bytecode*: an exception between any two instructions overwrites what is
  above `sp`, and the compiler counts the words above `fp` at compile time while
  `sp` moves at run time;
* *numbers*: sizes change with every sign, carry and shift.

What would make each part correct:

* exception path: accepted exceptions are delivered in order, once each, and in
  the end; a refusal only behind a real backlog; the interrupted program is
  resumed as it was;
* allocator: blocks tile the heap, free blocks are merged, a failure has no
  effect and only happens when there is no room, counters are exact;
* trees: a search tree with true balance factors after any operations, acting as
  a set, with complete searches;
* objects and collector: counts equal references; nothing reachable is freed,
  nothing unreachable survives a collection, marks are gone after it;
* interpreter: a text is read as it is nested; no frame uses a freed value, every
  count that a call takes it gives back, and the machine computes what the
  recursive evaluator beside it does;
* assembler, compiler, bytecode machine: the program ends with the value that its
  expressions have, whatever exceptions interrupt it;
* queues, arrays: lists, whatever the allocator refuses;
* numbers: results equal those of the integers.

`PROJECT.json` lists forty hazards at their lines, with the properties that would
catch them, or the reason why none does; section 5 names those that are outside of
the models.

## 2. Modules

    ExceptionQueue  <--implements--  ConcurrentFIFO (RingBuf)      ConcurrentFIFO_proofs
    ExceptionQueue  <--used by-----  ExceptionDispatch             ExceptionDispatch_proofs
    Heap            <--implements--  FreeTree (AVLTree)            Heap_proofs
    Dictionary      <--implements--  DataTree (AVLTree)
                                     AddressTree (AVLTree)
    ObjectStore     <--implements--  Collector                     Collector_proofs
    Deque           <--implements--  Queue                         Containers_proofs
    Growable        <--implements--  Growing                       Containers_proofs
                                     ObjectArrays                  Containers_proofs
    Objects --> LispObjects --> Evaluator --> Machine, with Tokenizer --> Interpreter
    Words   --> Numbers --> Calculator                             Calculator_proofs
    Words   --> Encoding --> ExprCompiler, Assembler, Bytecode --> Toolchain
                                                                   Assembler_proofs
    Words_proofs: induction, powers and division, for the two before
    Expressions (what a program means)  <--agrees with--  Toolchain

`MCTrees` and `MCContainers` put several small systems side by side, of which a
behaviour is about one; the other `MC` modules only give instances.

**RingBuf, ConcurrentFIFO, ExceptionQueue.** `RingBuf` has the ring's operations
as operators on a record. In `ConcurrentFIFO` the handler is one atomic action,
`Interrupt`, because a vector enters it with interrupts masked; pop is one action
per memory access that the handler can observe or disturb: the test of each ring,
the lock, the copy, the two stores to the tail (`Advance`, `Wrap`), the unlock, and
the hand-over. The Makefile compiles without optimisation, so that the accesses
happen in program order. Started in EL2, as by the emulator, `boot.S` masks
interrupts for good and only synchronous exceptions arrive; the model lets
exceptions arrive at any point, which is what the locks were written for and
what happens when the first section of `boot.S` is removed as its comment
suggests for real hardware. Variables `accepted`, `delivered`, `dropped` are history.
`ExceptionQueue` is the promise: an ordered queue that refuses only when at least
the smaller ring's capacity of exceptions is waiting.

**ExceptionDispatch.** What `run` does with a delivered exception, and `eret`. It takes
the queue as `ExceptionQueue` promises it, which `ConcurrentFIFO` is shown to keep,
so the two halves of the exception path meet in that module. `at` is where the
loop stands: about to pop, about to execute an instruction, or returned to the
interpreter; an exception may arrive at each of these points. `Dispatch` pushes the
frame; its size counts the tag's word too, since `concurrent_fifo_item_sz` does,
and that word is uninitialised, so the model lets it be any. The program, its
routine included, is any that keeps to the rule of `notes.txt` and to the calling
convention below it: it writes to words that it has allocated, and comes to
`exc -1` with the `sp` and `lr` that it was entered with. `saved` is history: what was
interrupted, as it was. Seen with this model: a second waiting exception is taken
after one instruction of the first one's routine, so a burst is handled last in,
first out, on an ever higher stack.

**Heap.** `heap.free` and `heap.used` map the first word of each block to its size;
`gc_set` and `gc_nodes` are the registered blocks and the blocks that hold the
set's nodes. One action per call of `alloc.c`. Which of the blocks that fit is
taken is left open. `gc_alloc` and `gc_add` make two allocations, with the
failure of each; freeing a node of `gc_set` frees *some* node, since deletion may
unlink another node than the one that held the data.

**AVLTree.** The trees as recursive operators on records with parent links,
children, data and balance factors; one operator for both mirror images of the
code. **DataTree** uses it as sets do: nodes get any free address, and deletion
copies data between nodes. **AddressTree** is a tree in which the node is the
block: the deletion's copy must be followed by `avl_move`. **FreeTree** is the
allocator on that tree: `avl_min_ge`, `Take` (delete and move), the walk and the
merges of `avl_merge`. It has the variables of `Heap`, with the free blocks read
off the tree, and is shown to implement it: `Heap` leaves open exactly what the
tree decides. `FreeTree` has no collector, so `gc_set` maps to the empty set.

**Collector, ObjectStore, Objects.** In `Collector` a program does anything with
objects of `Size` references: a function stands for itself with its namespace, and
has its parent (the value of `sup`) first, its code second, its bindings after them;
data has no parent and is fixed when it is built, so that cycles go through
functions, as in the program. An object's record has the three fields of the word
`refcount`: count, mark, temporary count. The calls that `object_delete`, `_mark_tc`, `sweep`
and the inner loop of `gc_collect` make for the references of an object are steps:
`todo` has the references, on all levels of the recursion, that are still to be
followed, `q` the queue of marked objects, `refuse` the tree of swept ones, and `after`
what the caller does when the call returns. The order in which `gc_collect` takes
`gc_set` is open, where the code's is that of addresses. `held` is the number of
counted references from frames, operator stacks and C variables; a collection may
come at any time between two calls, where `check_heap_capacity` makes it depend on
`words_used`. `del_fn` is modelled in full: parent and code unlinked, trial deletion,
then either the code released or all linked again. A function without parent
makes `del_fn` read address 40; the model takes that word to be zero. An object is
taken out of `obj` when its references begin to be given up, where the code frees
its block after them: nothing is allocated in between. `ObjectStore` is what the
interpreter relies on: what it can reach stays as it is, and after a collection
there is nothing else. `Objects` has the same calls as functions of the memory, with
the recursion inside, for the interpreter's models, in which they are parts of a
step.

**LispObjects, Evaluator, Machine.** `LispObjects` has the interpreter's objects in
the memory of `Objects`: arrays, strings and numbers (an object's field `is` is its text),
functions with a namespace, and the operations of `lisp.c` and the sets on them
(`new_fn`, `get_val`, `set_add_str_key` with its three counts, the start of a call
and what `cf_ret` does with its result). Addresses are not used twice, so that a use
of a freed object is seen. `Evaluator` is `run_prog`, the recursive evaluator, as one
function from memory to memory and value. `Machine` is `_run_prog`: a frame per
level, one action per pass through the switch (two where a case falls through),
`ret` passed without a count from frame to frame, and an optional collection
where `check_heap_capacity` may start one. A program that goes through a null
pointer stops the model as `"stuck"`, and one that uses a freed object as `"dangling"`;
the properties say exactly when the second happens. The same evaluator exists
twice in the code, so each is the other's reference: `Agrees`. They differ in one
operator: `<`, which compiles, is installed by `run_prog_stack` alone (`lisp.c:588`), so
that for `run_prog` (386-389) it is an operand. `Evaluator` has the four operators
`Ops`, `Machine` has `StackOps`, and `Agrees` excepts the programs with a `<` (`Compiles`).

**Tokenizer, Interpreter.** `Tokenizer` is `_tokenize`, with one action per turn of its
loop and a stack of the arrays that its recursive calls are filling; every
character matters, and its promise is a definition of lexemes that knows nothing
of loops. `Interpreter` composes it with `Machine`: a program is written as text,
tokenized, prepared by `run_prog_stack` and run; texts that are no programs
are tokenized only.

**Words, Numbers, Calculator.** `Numbers` has the arithmetic of numbers of any
length, word by word, on words of `Bits` bits with the last word for the sign:
sums with their two ways to change size, negation, products by shifting and
adding, shifts, bits, comparison, and text to number and back. `Calculator` makes
programs of these calls, with results as operands of further calls, and compares
with the integers. Where the code is wrong at an edge, the property names the
edge (`Lowest`, `Spoils`, `Brim`) instead of leaving the case out: `Brim` says that the
right value fills all the words of the result, the highest one with all ones.

**Encoding, Assembler.** `Encoding` is the layout of an instruction, from both sides.
`Assembler` is `compile`: one action per token of the first pass (`scan`) and per
reference of the second (`resolve`), with the three arrays it keeps and a failure of the
allocator at each append. A text is a sequence of tokens; `compile` knows nothing
of lines. The properties do: a text is written as lines (`IsLine`), each a datum, a
label or an instruction, of which only the last may be cut short, and what they
say of a line is said of the word at its place (`WordsBefore`).

One label is unlike the others: `r`, which is also the letter registers begin with
(`reg_des`). Where it is an instruction's last operand, `compile` takes the `r` for that
of a register, finds no number, and has by then passed the blank behind it
(`asm.c:292-294`); the jump over "the rest of the name" (304) then takes the next token
instead (`Swallowed`). `5 r jnc r1 r2 r 7` loses its 7, and `r jnc r1 r2 r K jnc r1 r2 K` the
definition of `K`, for which it is refused. At the end of the text nothing is
lost. `Faithful` and `RefusedForReason` except the texts that refer to `r` in a line
before the last (`LosesToken`); what becomes of the arrays is checked for these, too.

**ExprCompiler, Expressions, Bytecode, Toolchain.** `ExprCompiler` is `compile.py`'s code
for each kind of expression, `Expressions` what the expressions mean, `Bytecode` the
loop of `run` with all instructions. `Toolchain` composes them: a program is
compiled to assembler, assembled, and run, with an exception between any two
instructions that may overwrite all that `notes.txt` lets it: the words above `sp`.

**Queue, Deque.** The doubly linked queue with both its ends, and what it promises.

**Growing, Growable.** Arrays, and objects that words are appended to. The header
and the contents are words of a block, and a block has the words that the
allocator granted, one or more of them on top of what was asked for: the room of
an array follows from its block's size, as in the code. Every allocation may
fail, and `array_append_str` and `cstr_to_string` are loops that can fail in the middle.
`Growable` is the list that this should be.

**ObjectArrays.** Arrays of objects with their counts when memory runs out:
`obj_array_append`, `obj_array_flatten`, deletion of shared arrays. The calls that
`object_delete` and `_obj_array_flatten` make for the items of an array are steps: what
all the levels of the recursion have still to do is a sequence of objects, whose
first is next.

Definitions whose name continues that of another after an underscore, like
`Take_unmoved` beside `Take`, are mistakes of the kind each property must notice.
No specification uses them.

## 3. Runs

| Run | Instance | Distinct states | Checks |
|---|---|---|---|
| `fifo` | rings of 3 slots, 6 exceptions of 2 kinds | 80 584 | `FoundItemStays`, refinement of `ExceptionQueue`, delivery under fairness |
| `exception_dispatch` | 8 words of stack, 3 exceptions | 960 768 | frames stay intact, `eret` resumes |
| `heap` | 32 words, requests 2, 5, 9 | 104 644 | tiling, the collector's books, `words_used`, refusals, failures without trace |
| `trees` | sets: 5 nodes, 6 keys; blocks: 12 of three sizes; heap: 36 words, requests 3, 5 | 69 507 | sound trees, refinements of `Dictionary` and `Heap`, complete searches, right removals |
| `collector` | 3 objects of 3 references, 3 held | 124 005 up to symmetry | counts, marks and `gc_set`, refinement of `ObjectStore` |
| `interpreter` | 1 301 programs, all texts up to 5 of 8 characters | 283 158 | reading, liveness of frames, counts, leaks, agreement with the evaluator |
| `toolchain` | words of 21 bits, 100 words of memory; texts up to 3 lines | 121 645 | values, the assembler's words, refusals and arrays, termination |
| `calculator` | words of 3 bits, numbers up to 3 words | 248 832 | sums, products, shifts and bits, text |
| `containers` | 4 links, 2 data; 4 blocks; 4 objects | 373 601 | refinements of `Deque` and `Growable`, bounds of blocks, counts, leaks |
| `interpreter_empty_body` | functions without a body | to the violation | what a comment says of `ret` |
| `calculator_negation` | as `calculator` | to the violation | what a comment says of the sign word |
| `toolchain_nested` | a call as an argument | to the violation | that `compile.py`'s example means what it says |

Why the bounds are enough.

* *fifo*: six exceptions fill both rings (three slots hold two items), make one
  refused, and wrap both rings around.
* *exception_dispatch*: two frames nested with words of the program and of the
  routine between them; words have one bit, which is enough to tell a word kept
  from one overwritten.
* *heap*: five blocks, so that a freed block has neighbours in every combination,
  with remainders smaller and larger than a node.
* *trees*: every tree of up to five nodes, and a full memory; states that differ
  only in where a set's nodes are count as one (`VIEW`), since a set never
  compares addresses. Twelve nodes make the sparsest tree of height four, the
  smallest in which one removal rotates at two levels. The heap has room for
  seven minimal blocks, four of them free.
* *collector*: a cycle of two functions with data that one of them has, functions
  that share data with a live one, and a call's function under its parent under
  main; every recursive call is a step, so that the run sees each state in the
  middle of marking, unmarking and sweeping. The theorems are for any number of
  objects.
* *interpreter*: calls with fresh arrays, closures, functions named in their own
  namespace and calls inside calls; texts with every way a word, a quote or a
  bracket can end. Names are one letter.
* *toolchain*: every form of expression inside others, the factorial that
  `compile.py` itself translates, and operands at and beyond the edges of their
  field. With 21 bits the layout has the code's order and proportions, and its
  last operand is still wide enough for the program's addresses. Texts of up to
  three lines are assembled, and of two with references to the label `r`. Conditions
  in the expressions that are run are 0 or 1: compiled code tests the lowest bit only.
* *calculator*: three words have a lowest, a middle and a sign word, and texts of
  six digits fill two words and the sign; `Bits` is a parameter, and the mask that
  the code writes as `3f` is `Bits - 1`.
* *containers*: `queue` with up to four links; arrays of items of one and two words
  that move twice; one handle, since handles meet only in the allocator, which
  may answer with any block; a lost block's words are forgotten. Arrays of
  objects with room for one item, which the second append makes larger.

Fairness is used in two places. `WF_vars(Interpreter)` in `ConcurrentFIFO` says that
the interpreter goes on: the handler runs to completion and returns, and `run`
asks for an exception before every instruction. Arrivals are bounded by
`MaxExceptions`; without a bound, a handler that is entered for ever starves the
program. In `Toolchain`, `WF` of `run_expr` and of `Run`: a program that was assembled is
started, and the loop of `run` waits for nothing.

`CHECK_DEADLOCK FALSE` stands where the system stops: when the exceptions are spent
and `run` has returned, a program is finished, or a calculation is at its size limit.

**Findings.** *An empty body*: the comment at `lisp.c:492` says that `ret` is the array of
results when a call returns; after a function with an empty body it is what the
step before the call left. *Negation*: `datastructures.c:1472` promises a sign word
at the end of each number; the negation of -2^64 has 1 there. *Nested calls*: the
example at `compile.py:250` passes a call's value to a call; the words that the outer
call has put on the stack are counted twice, and the callee reads others.

## 4. Proofs

`ConcurrentFIFO_proofs` proves, for rings of any capacity of at least two slots and
any number of exceptions, that `IInv` is an invariant and, from it,
`DeliveredInOrder`, `FoundItemStays` and `QueueSafety` (the safety part of the
refinement). The bare properties are not inductive: that the queue is in order
depends on which tags are in which ring. `IInv` says that the filled slots of the
two rings hold exactly the tags from `First` (the next to be delivered) up to `tag`,
each in one ring (`TagsDistinct`, `TagsComplete`), growing from tail to head at
least as fast as positions (`TagsSpread`), and that pop's locals agree with the
queue at each of its steps (`PopInv`). `TagsSpread` is what bounds the number of
items behind the tail, and gives the refusal threshold.

`Heap_proofs` proves, for a heap of any size and any requests, that
`TypeOK /\ Tiling /\ Coalesced /\ Registered /\ Counters` is inductive together with
`WordsCounted`, and `RefusedOnlyIfNoRun` and `FailureLeavesHeap` from it. The calls are compositions
of one allocation and one freeing of a block, so the lemmas are about `AllocAt`
and `FreeBlock` on a heap: each keeps the heap tiled and merged, and freeing what
was just allocated gives back the same free blocks, which is why a failing
`gc_alloc` leaves no trace. `RefusedOnlyIfNoRun` needs tiling and merging: a run of
unused words lies in one free block because two free blocks never touch.

`ExceptionDispatch_proofs` proves, for words, stacks, frames and nesting of any size,
that `TypeOK /\ FramesIntact /\ FramesApart` is inductive, and `ResumesInterrupted`
from it. `FramesApart` is the strengthening: each frame ends at or below the `sp` that
the next one interrupted, so that what a routine writes above its own frame
(`FramesKept`) reaches none of those below.

`Containers_proofs` proves two things. For any addresses and data, the queue's links
form a list in both directions (`ListStaysSound`), and the queue implements `Deque`
(`ImplementsDeque`). The inductive invariant is stated over `order`, the history
of the links as they were pushed: each link points to its neighbours in that
order, and the two ends to the first and the last. The refinement follows since the
abstract items are the data of the links in `order`.

And for any number of objects, arrays of any room and any nesting, every count is the
number of places (`CountsAreRight`), and until an append fails nothing is allocated
that cannot be reached (`OnlyFailuresLeak`).
While `object_delete` works through the items of arrays that are gone already, the
places it has yet to give up are counted in `dels`, and `obj_array_flatten` works on
items that stay reachable from what the program owns: both are part of the
invariant `ObjectsSound`. Its part `Acyclic` says that in every set of objects there is one
that no array of the set has; without it an array could keep itself, and the second
theorem would be false.

`Collector_proofs` proves, for any number of objects with any number of references,
that counts, marks and `gc_set` are right whenever no call runs (`CountsAreRight`),
and that `Collector` implements `ObjectStore` (`NothingReachableIsLost`): no step of any of
the calls frees or changes what the interpreter can reach, and after a collection
nothing else is left. The invariant `IInv` has, for each state that a call can be in:

* `Counts`: a count is what is held, plus the references of objects that are not
  swept, plus those in `todo` that are being given up, plus the one that `del_fn` has
  unlinked without uncounting it (`Owed`). The code changes counts and references in
  different steps, and this is what balances at each of them.
* `MarkSound`: what was marked can be reached from where marking started (`root`), and
  a temporary count with its occurrences in `todo` is the number of references from
  marked objects.
* `LookSound`: marking has found exactly what `root` reaches, the region `R`. An object of
  `R` whose temporary count is less than its count has a reference from outside of
  `R`, and it is unmarked with all that it refers to; every object of `R` that is not
  marked any more is `Supported`, by the interpreter, by `del_fn`, or by an object
  that is not marked; those that still are have all their references from `R` or
  wait in `q` or `todo`.
* `SweepSound`: when `q` is empty, nothing refers to a marked object but marked ones
  (`Apart`), so that what `sweep` collects is reached from nowhere.
* `Complete`, `Covered`, `Outside`: everything can be reached from what is held and from
  the functions that `gc_collect` has still to start at. At its start these are all
  of `gc_set`; that this suffices is because data is `Acyclic` and data without a
  reference is freed at once (`DataCounted`). At its end no function is left to start
  at, which is the promise that nothing else survives.

The refinement takes a function's contents from `after` while `del_fn` or
`set_add_str_key` has still to write them; that these contents are the ones before or
after the call is part of `AfterSound`.

And for blocks of any size, items of any number of words and any strings, no header
and no item lies outside of the block that was allocated (`NothingBehindTheEnd`), a
block is lost only where a null answer replaces its address (`OnlyNullLosesBlocks`),
and the lists in blocks implement `Growable` (`GrowingIsGrowable`). The strengthening,
`ListsSound`, says that each handle has a block of its own, and relates each header to
the length of its block: the room of a list is nowhere stored, so every call computes
it again from that length. The lemmas say what writing, copying to a larger block and
cutting a sequence do to the words read later.

`Assembler_proofs` proves, for every text of lines, every width of words and split of
their bits, and wherever the allocator refuses, that `compile` ends with nothing
allocated but its result (`ArraysReleased`), that `run` sees in that result what was
written (`CompiledAsWritten`), and that a null result has a reason (`RefusedWithReason`).
The last two are for every text but those that lose a token behind a reference to
the label `r` (`LosesToken`, see section 2), for which neither is true.

* The first needs only that in both loops all three arrays are allocated
  (`ArraysHeld`), since the labels at the end of `compile` delete them by where they were
  jumped to from.
* The second starts from the words. `Decoded` takes apart by division what `Instruction`
  adds up, so the lemmas say what a sum of digits, each below its place, gives when
  it is divided by a place (`Parts`, `Whole`, `Below`, `Three`, `One`), and that a negated
  operand has the sign bit (`Numbered`). `Filled` and `LastSeen` then follow an
  instruction through its operands, the last one in its three forms, or left at 0
  until its reference is resolved.
* The inductive invariant is `Kept`: the text loses a token, or it is `Correct`, which is
  `LinesDone` with the two properties. `LinesDone`
  knows the lines that `compile` does not: `Reading(k)` says that the next token is the
  first of line `k`, and that the arrays hold what the lines before `k` make of them
  (`WordsDone`, `LabelsDone`, `RefsDone`: the words with their references open, the labels
  with their addresses, the references with theirs); `Linking(k, r)` says the same
  of all lines with the references before `r` resolved. `Faithful` alone says nothing
  until `compile` has returned.
* That a label has its *first* definition is from the order of `lbls`. That adding
  the address to a word changes its last operand only, and that the address is
  positive for `run`, is where a text must have no more lines than there are
  addresses to refer to (`ProgramsAssumption`): 2^45 of them with the code's widths.
* What makes a text fail is read off the line where `compile` stops (`Wrong`).

`Calculator_proofs` proves, for words of any width, numbers of any lengths and signs
and after any calls, that `num_add` is exact and keeps a sign word on top, and that
`num_le` is "less than" (`SumsAreExact`). The two additions in the loop of `num_add`
give the exact sum of two words and a carry (`CarriesAreExact`), so that word by
word, from the highest down, what the sum is worth is what the two operands are worth
there and the carry into the word (`SumWorth`). What is left is the top: with the
carry into them, two signs make -2, -1, 0 or 1, for which `SignKept` adds a word or
drops some (`SignKeptIs`). `num_le` adds a negated operand, which for the lowest
numbers has lost its sign word: it is the right one again when the other is longer
(`WidenedIs`), and otherwise nothing is carried up to the top (`CrossedIs`). That
operands always have sign words is the invariant; for those read from a text it needs
that so many digits make less than that power of the radix. These lemmas are by
induction, over words, carries or digits.

It proves as much of `num_mul` (`ProductsAreExact`), but for the lowest numbers that
the property names. The product after some bits of the second operand is the first
one times what those bits are worth (`TurnIs`, `LowBitsNext`): the result has as many
words as both operands less one, so that nothing is lost when the first one is
shifted by less than a word (`ShiftedIs`) and nothing is carried out of the words
that it is added to (`AddedAtIs`), also where the first operand is a lowest number
and its negation fills its sign word. The product then leaves the last word 0
(`ProductWorth`), which as a sign is kept when the result is negated and shortened,
also where it is zero and meant to be negative (`WithSignIs`). That the exclusive or
of two sign words is the product's needs that words with the same bits are the same
(`SameBits`, `XorIs`).

It proves `BitwiseExact` (`BitsAreExact`), but for the brim that the property names. A
shift is by whole words and by less than a word: what one word loses to its
neighbour is a division by a power of two and its rest (`LeftIs`, `RightIs`). The
bits that `and`, `or` and `xor` compute word by word are those of two's complement of
any length because the words above a number are copies of its sign (`ZerosAbove`,
`AboveIs`), and the words that are dropped from the result are such copies (`TidyIs`,
`TidyWorth`). Where the highest word that stays is all ones it is taken for the
sign; then, and only then, the value is in the brim.

And it proves `ReadsBack` (`PrintedIsRead`): `num_to_str` writes each word below the
highest with all its digits, so that the text is the number in radix `Radix`
(`PrintedAre`, `ExpandedIs`), the zeros dropped in front change nothing (`TrimKeeps`), and
`str_to_num`, which cuts the text into words from its end, has the same sum
(`ReadWords`, `ReadValue`). All of these come from one invariant: `result` is what the
last call computes of `num1` and `num2`, and these have sign words (`Inv`).

The library's induction theorems have operators as parameters, so induction is
derived in `Words_proofs` from the fact that every set of numbers has a least
element, and with it that recursive functions exist (`Induction`, `Recursion`).

The proofs assume what the modules' `ASSUME`s say: two slots at least in each ring,
a heap that holds its descriptor and one node, requests that are numbers, objects
with two references at least, a null pointer that is no address, words of two bits at
least whose number of values is the power of the radix that a word's digits make, an
opcode of five bits at least and three registers that fit beside it, texts of lines
as above. The longest take six minutes (`Calculator_proofs`) and two
(`Assembler_proofs`).

Only model-checked, for these reasons:

* Liveness under fairness: `AcceptedIsDelivered`, `Terminates`. This TLAPS does not prove it.
* The trees: `TreesSound`, `IsDictionary`, `SearchesComplete`, `TakesTheRightBlock`,
  `ImplementsHeap`. `AVLTree` is written with recursive operators, as the code walks
  and rebalances, and the prover has no backend for a module with them.
* The interpreter: `FramesAlive`, `CountsRight`, `AllReclaimed`, `Agrees`,
  `FreedOnlyWithHolder`, for the same reason: deletion and the evaluator recurse in
  one step of `Machine`, and that is what makes the evaluator a reference for it.
  What is proved of `Collector` holds of the same calls taken step by step.
* `ReadsWhatIsWritten` and `OnlyTheTreeRemains`: the reference reading of a text is
  recursive over it.
* `Evaluates`: the compiler of expressions, their meaning and the machine's
  bitwise instructions are recursive. The assembler between them is proved.

## 5. Not modelled

Components: `x86_64/` is an earlier version of the same program with the vendored
gnu-efi library; `kc_ascii.h` is generated from the kernel program, which is a
lisp and assembler text of device drivers; what is left of `util.c`, `main.c` and
`boot.S` reads and writes devices or runs once in sequence. These files are by
far the largest part of the repository; of the C code and Python that is the
program itself, the modules cover most functions other than printing.

Outside of the models of the parts they belong to:

* The wrap-around of `tag` after 2^64 exceptions and of other 64-bit counters.
* The constructor's failure in `concurrent_fifo` (`datastructures.c:1075`), which leaks
  the first ring's array; exceptions before the queue exists, after `main` deletes it
  (`main.c:83`), or before a program has set `ir` and `sp` (`asm.c:374`).
* The end of the program's stack: `ExceptionDispatch` takes an exception only while
  there is room, and a burst needs a frame for each.
* `free` of a block that is not in use, and `gc_realloc`, which nobody calls, with a
  request that fails (`alloc.c:241`).
* Memory that runs out inside a collection (`alloc.c:338`), in `new_fn` (`lisp.c:220`)
  or in sets: the code does not test for it. The counts on type objects, which
  neither marking nor sweeping follows.
* The second deletion of `main_expr` (`lisp.c:605`), which decrements a word of a
  block that is free by then; the parent that the outermost function lacks
  (`lisp.c:244`), taken to be zero.
* An operator at the end of an expression (`lisp.c:518`), which reads behind the
  array. A call of a bytecode function from lisp.
* `num_le` with the same object twice (`datastructures.c:1569`); the text of a number
  that a shift has left without a sign word (1851); `object_expand` after a failure,
  which has turned null into -8 (69); `array_resize` below what is used (279). Arrays of
  objects get the exact room they ask for (blocks with more are in `Growing`), and a
  null result of `obj_array` inside `obj_array_flatten` is left out.
* `num_ldr` and `num_store`, which read and write memory at an address.
* `exc -1` in `Bytecode`, which takes it for no operation: no program that `Toolchain` runs
  has one, and `eret` is in `ExceptionDispatch`.
* A failure of `compile` inside `comp_expr`, which does not test for it (`asm.c:572`);
  data run as code. (A last operand that is missing at the text's end, which
  `compile` takes for a label equal to every other, is in `Assembler`; `Faithful` says
  nothing of such a line.)
* `compile.py`'s tokenizer, and lengths that it writes in decimal and the assembler
  reads in hexadecimal (lines 139 and 148, from ten bindings on).
* Recursion depth: the collector, `avl_min_ge` and `_tokenize` recurse on the C stack.

## 6. Plan

What would add most, in this order:

1. Sets and object arrays under failure inside `new_fn` and the collector, on top of
   `ObjectArrays`: the code tests for none of these failures, so the work is to say
   what is lost in each.
2. Local lemmas of the trees (a rotation keeps the order and the set of nodes), on
   a statement of them that is not recursive.
3. A proof that the code of an expression leaves its value in its place, by
   induction over expressions as sets of their parts, on top of
   `CompiledAsWritten`.
