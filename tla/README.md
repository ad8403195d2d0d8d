# A verification development for smpcil

smpcil is a C library of containers over a memory pool, with thin wrappers of
Linux system calls.  This directory holds TLA+ modules that model its core, TLC
configurations that check them on small instances, and TLAPS proofs of what
holds whatever the instance.  Paths are those of the repository.

## The system

| component | state | operations | used by | modelled |
|---|---|---|---|---|
| memory pool (`smp_mpool`) | chain of blocks with a cursor and a failure count each, `current`, list of big allocations | create, alloc, free a big allocation, destroy | link, stack, array, list | `SmpPool` |
| queue (`smp_stl/smp_queue`) | doubly linked list, both ends, length, reference counter | create node, enter, insert, remove, delete, clean, traverse, destroy | red-black tree | `SmpQueue` |
| the queue shared by threads | `quotes`; a mutex and a condition the library never touches | quote inc and dec, destroy | | `SmpQueueShare` |
| red-black tree (`smp_stl/smp_tree`) | nodes with links, color, key and data; root, size, two queues | insert, delete, search, min, max, walks, destroy | | `SmpRbt` |
| link (`smp_stl/smp_link`) | doubly linked list, spare nodes, a pool | insert, remove at an end or by value, traverse, destroy | | `SmpLink` |
| stack (`smp_stl/smp_stack`) | singly linked list, idle nodes, a pool | push, pop, recover, destroy | | `SmpStack` |
| array (`smp_stl/smp_array`) | units of elements behind an index that grows | push, elem_n, size, traverse, destroy | | `SmpArray` |
| list (`smp_stl/smp_list`) | chain of parts | push, traverse, destroy | | `SmpList` |
| strings, Boyer-Moore, split (`smp_linux/smp_string`) | none kept | search, split; compare, trim, convert, print | | `SmpSearch`: search and split |
| process title (`smp_linux/smp_system`) | where `argv` and `environ` are, and the memory they were in | set title, pid by name, bind to a processor | | `SmpTitle`: the title |
| semaphores and messages (`smp_linux/smp_ipc`) | in the kernel | one system call each | | no |
| signals (`smp_linux/smp_sig`) | in the kernel | one system call each | | no |
| files and streams (`smp_linux/smp_file`) | in the kernel and stdio | one call each, size by seeking | | no |
| error text (`smp_linux/smp_error`) | one global pointer | set, print | all | no |
| examples, build (`example`, `Makefile`) | | | | read only |

How they interact.  The four pool-based containers take every byte from a pool
of their own and give it back all at once, with `smp_mpdestory`; their nodes
never return to the heap before.  The queue takes its nodes from the heap and
its client owns each node until it is entered and again once it is removed; the
tree's destruction uses two queues as the worklists of a breadth-first walk.
Visitors (traversals), comparison functions and free functions are callbacks
into the client, which may call back into the container.  There are no threads
in the library; the containers carry a `quotes` counter, a mutex and a condition
variable "for threads".  The library locks no mutex; a client may, as
`smp_queue_test.c:111` does around a traversal, though not around the
`smp_qdestory` that frees the mutex with the queue.

What is hard, component by component, and what makes it correct:

* **Pool.**  Address arithmetic: a cursor is aligned up before the room left is
  computed as an unsigned difference.  A block that fails too often is passed by
  for good, and the order in which blocks fail decides which.  The list of big
  allocations lives inside the blocks it is freed before.  Correct when regions
  lie in their block and never overlap, when the list is exactly the client's big
  allocations, when destruction touches nothing freed and returns everything.
* **Queue.**  Two ends, two links a node and a length that five functions
  update separately, visitors that change the list they walk.  Correct when
  walks in both directions, the ends and the length agree; when no node is lost,
  doubled or freed in place; when a traversal misses nothing; when all of it is
  a first-in first-out queue.
* **Shared queue.**  The counter of users is read, written and read again, and
  the call that brings it to 0 frees the queue, the mutex in it included.
  Correct when the last user, and nobody else, frees it, once.
* **Link.**  Nodes taken out become spares and come back with the next insertion,
  linked through the same pointers; a visitor may take out the node it is at.
  Correct when order, both directions, ends and size agree, when link and spares
  share no node and lose none, and a traversal misses nothing.
* **Stack.**  A node that is popped belongs to the client until it is recovered;
  then it is idle, and used before the pool is asked.  Correct when a node is in
  one of those places only, and what the client holds stays as it is.
* **Search and split.**  Two tables say how far the pattern may move, and one is
  read at a character of the text, which may be outside it.  Correct
  when no occurrence is passed by, and the pieces of a split text and the
  delimiters are the text.
* **Process title.**  It is written over the arguments and the environment,
  which are copied first; how much room there is, and how much the copies take,
  is read off the addresses, as earlier calls have left them.  Correct when parameters and environment read as
  before, however often the title is set, and the title is the last one.

`PROJECT.json` lists the hazards at their lines, with the properties that watch
them.

## The modules

| module | what it is |
|---|---|
| `SmpArena`, `SmpFifo`, `SmpOrder`, `SmpDeque`, `SmpLifo` | the promises: regions granted and never moved; a FIFO sequence; the bag of keys of a dictionary and the changes it may undergo; a sequence taken from at both ends and by value; a sequence put into and taken from at one end, with a limit or without |
| `SmpPool` | `smp_mpool.c` |
| `SmpQueue` | `smp_queue.c`, seen by one user, pointer by pointer |
| `SmpQueueShare` | the reference counter and `smp_qdestory`, seen by several threads |
| `SmpRbt` | `smp_rbt.c`, pointer by pointer |
| `SmpLink` | `smp_link.c`, pointer by pointer, spare nodes included |
| `SmpArray` | `smp_array.c`, with the index and its copies |
| `SmpList` | `smp_list.c` |
| `SmpStack` | `smp_stack.c`, node by node |
| `SmpSearch` | `smp_BoyerMoore.c`, one alignment a step, and `smp_str_split` |
| `SmpTitle` | `smp_set_proc_titel`, byte by byte |
| `SmpAddress` | addresses as numbers, for the array, the list and the stack |
| `MCSmpParts` | the last five components side by side for TLC: its first step decides which of them the behaviour is about |
| `SmpPoolProofs`, `SmpQueueProofs`, `SmpQueueShareProofs`, `SmpLinkProofs`, `SmpRbtProofs` | the theorems about the module each is named after |
| `SmpPartsProofs` | the theorems about the stack, the array and the list |
| `SmpTextProofs` | the theorems about the text search and the process title |
| `SmpWalks` | lemmas the proofs share: induction over the numbers, and what a walk along pointers meets |
| `MC...` | symmetry sets and views for TLC |

Names are the source's where TLA+ allows (`smp_mpalloc_block` is `MpallocBlock`;
"destory" is the library's spelling).  An action is a whole call, except where
something else may happen in the middle: destruction of a pool or a tree is one
action per free, so that a use after free would show; a fix-up loop of the tree
is one action per turn, so that its invariant can be stated; a traversal is one
action per node or element, between which the visitor calls the container;
a search is one action per alignment; and in
`SmpQueueShare` a step is one access to shared memory.

Variables commented `history` exist only in the model: what the client holds,
the order in which nodes entered, the regions granted.  Properties compare
the code's own state with them.  `heap` variables are the external allocator:
`malloc` and `posix_memalign` choose any address that is not in use, and fail
when the bound on addresses is reached (`SmpPool`: `MaxBlocks`, `BigIds`; `SmpQueue`,
`SmpRbt` and `SmpLink`: `Nodes`).  `ArenaRefined`, `FifoRefined`, `OrderKept`, `DequeRefined` and
`StackRefined` are the refinements of the promises.

Operators named `Mutant...` are not used by any specification.  Each is what
the next definition would be with a plausible mistake, and putting it in place
makes TLC find the property violated for which it was written.

What a client must do, and the models assume: pass a node to `smp_qenter` only
when it is in no queue; not remove the node a traversal (of a queue or a link) stands at; pass to
`smp_mpfree_bigpool` no pointer into somebody else's allocation; remove from a tree only keys found by a fresh search; give a
popped node of a stack back once, and no other node; keep list elements to the
size of an `int`, by which the traversal steps; give a stack a limit below 2^31,
because `smp_stack_size` returns an `int`, and fewer nodes than that; search for
patterns that are not empty, shorter than 256 and of characters below 128 (texts
may have any); push from a visitor, but
not from `free_elems_func`; ask for no title longer than the arguments and the
environment leave room for, and leave both to `smp_set_proc_titel`; use a container from one thread at a time, except in
`SmpQueueShare`, whose racing run shows why.

## The runs

| run | bounds | what it shows |
|---|---|---|
| `pool_mix` | 96-byte blocks, requests of 0, 20 and 40 bytes, page 32, 3 blocks, 6 big addresses | Requests of every kind, empty, small and big, slots that start a block and slots that fit in one; regions stay in their blocks and apart, the list of big allocations is exact, the pool implements `SmpArena`.  Six big addresses are one more than the five slots the search looks at, so a free slot beyond its reach occurs. |
| `pool_long` | 88-byte blocks, requests of 32 and 40 bytes, 9 blocks, 5 big addresses | A block is passed by after six failures: nine blocks let two of them be passed by, one straight after the other.  Destroyed from every state. |
| `pool_odd_size` | 4098 bytes, as in `smp_mpool_test.c`, requests of 15 and 4042 bytes | **Violation** of `RegionsInBlock`. |
| `queue` | 5 nodes, symmetric | Every order of calls with up to five nodes in and outside the queue; nodes that leave at the front and enter at the rear while a traversal is at any node, and a queue cleaned with and without a `free_qnode`. |
| `queue_share_locked` | 3 threads, counter modulo 8, 2 nodes | Threads that lock around each call: the last frees, once; every `smp_qdestory` returns. |
| `queue_share_racing` | the same, without the client's lock | **Violation** of `FreedByLast`. |
| `rbt` | 9 nodes, keys 1 and 2, view up to the identity of nodes | Trees of every shape that insertions and deletions make, with equal keys.  All cases of both loops, mirror images included, occur with at most eight nodes (a red uncle above which a rotation is needed takes eight); nine gives one more.  Two keys with repetition make equal keys on both sides of a node. |
| `rbt_destory_nomem` | 5 nodes, queue nodes may fail | **Violation** of `DestoryFreesAll`. |
| `link` | 5 nodes, 2 data, symmetric | Every order of calls on up to five nodes, two equal or different data among them, so that a search passes over nodes, finds the first of several, and finds none; visitors that insert and take out.  `DequeRefined` says that the whole is a deque, `CallsTakeTheirs` that each call takes from the end it is named for. |
| `parts` | array: units of 2, an index of 1 that grows by 2, 4 units, `uint` modulo 32; list: 4 parts of 2; stack: 4 nodes, limits 0 (none) to 3, 2 data; search: patterns up to 4 of two letters, texts up to 6 of these and a character above 127, 0, 2 or 5 in the memory before the table, limits up to 3; title: a name and up to 2 parameters, up to 2 variables, of up to 2 characters each | The array's index is copied twice, with and without memory for the unit after it, and visitors push in every unit; nodes of the stack go round through the client and the idle ones in every order; every pattern is laid on every text, and the texts are split, delimiters that overlap included.  Two letters make the most periodic patterns, the hard ones for the tables; four give suffixes that recur inside the pattern, and prefixes that end it.  A character above 127 is in every place of the texts, and the stray move is shorter than, as long as, and longer than the right one.  Titles of every length that fits follow each other, and memory is refused at any call; two characters a string leave room for titles that grow three times, and the byte behind the copied variables is used at any time. |
| `array_elem` | units of 10, an index of 32 that grows by 4, 3 units, as `smp_array_test.c` and `smp_array.c` have them | **Violation** of `ElemFound`. |
| `title_environ` | 2 arguments, 2 variables, 1 character each | **Violation** of `EnvKept`. |

The pool's type invariant is in its run, and proved; the queue's and
`Ring`, that `smp_qnode_next` and `smp_qnode_prev` undo each other, are left to
the proof.  Each other module states its own (`TypeOK`, `ArrayTypeOK`,
...) as the record of what its variables hold; the runs check the deeper
properties.

`NoneSkipped` promises that no occurrence is passed by for texts of characters
below 128 only (`Plain`).  For others `smp_BoyerMoore.c:104` takes a negative
index where `char` is signed, and the move is made of what is in the memory
before the table: any of the numbers `Stray`, among which there is none so large
that `j` overflows.  The rest of the property holds for those texts too, because
the other table moves the pattern by at least one and points are stored only
where the pattern matches.  What does not hold is that nothing is passed by:
`smp_str_substr_exist` may deny a pattern that such a text has, and with `Plain`
taken out of `NoneSkipped` the run shows it.

`TitleKept` promises the last variable only until somebody uses the byte its
copy ends at: `smp_system.c:98` makes the copies' memory a byte too short, so
that the copy's NUL is behind it (`"over"`), and `HeapReused`, which stands for any
later use of the heap, may replace it.  `EnvKept` is the promise without that
exception.  What the NUL does to the allocator's own data where it is written is
not modelled; an allocator that rounds sizes up may have the byte to spare.

`TitleKept` says where else it ends: after a shorter title has been set the
arguments no longer follow each other, `smp_init_set_proc_title` finds less room
than there is, and a longer title is not set (with parameters) or is written
over variables in use (without), while the answer is `SMP_OK`.  No line of the
repository promises otherwise, so this is a limit of the property and not a
finding.

In `rbt`, a state is viewed as the shape of its tree, because nodes with
the same key, color and place cannot be told apart by anything the code does
with them; `MCSmpRbt` defines it.

`link` assumes that the memory of a new pool is zero (`Dirty = FALSE`).
`__smp_link_init` (`smp_link.c:47`) sets every field but `recover`, and
`smp_mpalloc` does not clear memory; with `Dirty = TRUE` the model lets `recover`
hold a pointer to no node, `SparesApart` fails at the first `smp_link_init`, and the
first insertion would write through that pointer.  What follows is undefined and
not modelled.

The five violations disagree with a line of the repository, quoted in
`PROJECT.json` ("findings"):

1. `smp_mpool.c:60`: the room left is a difference cast to `size_t`.  When the
   pool's size is not a multiple of 8, the aligned cursor can pass the end, the
   difference is negative, every request "fits", and a region outside the
   block is handed out.  Theorem `InBlock` shows that sizes that are multiples
   of 8 never meet this.
2. `smp_queue.c:17`: `quotes` is decremented and read again without atomicity.
   Two threads in `smp_qdestory` may both see 0.
3. `smp_rbt.c:484`: a failure to make a queue node while a tree is destroyed is
   ignored.  When it is the root's, nothing is visited at all; a child's (line 470)
   leaves its subtree.  Then `smp_rbt_free` finds a size above 0 and keeps the tree
   as well (`NIL` in `lost`), and `smp_rbt_destory` still says `SMP_OK`.
4. `smp_array.c:146`: the index is incremented before it is divided, so the
   last element of each unit is looked up as element -1 of the next, and an
   offset in an earlier unit is compared with the fill of the last: elements
   that exist are not found.  `ElemSound` shows that nothing false is found.
5. `smp_system.c:98`: the memory for the copied environment is a byte short, as
   `smp_sys_env_last` has been moved back by one (line 140).  The last variable
   ends behind it and is not kept once that byte is used.

## Fairness

Only `SmpQueueShare` has liveness.  It assumes weak fairness of the steps of a
thread that is inside a call, and nothing of when a thread calls: a thread that
runs is scheduled again, and the calls contain no blocking primitive, except the
client's lock in the locked variant, which is held for one call only.  The
other modules are one client's calls in sequence, whose termination is a
matter of measures: `FixupsClimb` is that for the loops of the tree.

## What is proved

TLAPS proves the following for every value of the constants that the named
assumptions admit: any number of nodes, keys, threads, letters and strings, any
sizes and limits.  The assumptions on constants (`PoolAssumption`, `RbtAssumption`, ...)
give them types, make the sets of nodes and threads finite, and keep the null
pointer apart from the nodes, the keys and the data.  Three say more: there are
fewer threads than an unsigned int counts, an array holds fewer elements than
that, and the record of a large allocation is itself a small one
(`SlotSize <= MaxSmall`), as it must be for
recording one not to need another without end.  Where a theorem
assumes more, the assumption is in its statement, and a run or the code shows
why it is there.

| module | theorems | assumed |
|---|---|---|
| `SmpPoolProofs` | `Typing`, `InBlock`, `Disjoint`, `Retired`, `Faultless`, `Returned`, `Recording`, `ArenaImplemented` | `PSize % 8 = 0`; run `pool_odd_size` |
| `SmpQueueProofs` | `QueueTyping`, `LinksAgree`, `Accounted`, `TraversalOrdered`, `TraversalComplete`, `RingHolds`, `FifoImplemented` | |
| `SmpQueueShareProofs` | `CountsUsers`, `LastFrees`, `NotLeaked` | `Serialised`; run `queue_share_racing` |
| `SmpLinkProofs` | `LinkTyping`, `LinksAgree`, `SparesKept`, `PeakBounds`, `TraversalComplete`, `CallsTakeTheirOwn`, `DequeImplemented` | `~Dirty`, for `SparesKept` only: `smp_link.c:47` leaves `recover` unset |
| `SmpRbtProofs` | `RbtTyping`, `KeysOrdered`, `NodesAccounted`, `PathsBalanced`, `RedNodesApart`, `FindMissesNone`, `DestoryComplete`, `OrderImplemented`, `TurnsClimb` | `QnodeFails = FALSE`, for `DestoryComplete` only; run `rbt_destory_nomem` |
| `SmpPartsProofs` | `StackTyping`, `NodesApart`, `LifoImplemented`; `ArrayTyping`, `ArrayPlaced`, `ElemNSound`, `ArrayTraversed`; `ListTyping`, `ListTraversed` | `ElemInts = 1`, for `ListTraversed` only: `smp_list.c:97` steps by ints |
| `SmpTextProofs` | `SearchTyping`, `NonePassed`, `PiecesCover`; `TitleTyping`, `ParamsKept` | none; what `NonePassed` and `ParamsKept` except is in their properties, with the run `title_environ` |

Each module first proves an inductive invariant (`PoolInvariant`,
`HeapInvariant`, `QueueInvariant`, ...), one lemma per action, and takes the
rest from it.

* **Pool.**  `PoolInv` says of each block that its regions follow each other up
  to its cursor, which is at most the end, so that disjointness follows from
  order; and of the chain that `current` points into it and that no cursor is in
  a header.  It is needed because a region's position says nothing of the next
  request, which looks only at the cursor.  `Retired` needs nothing more: the
  failures decrease along the chain, and with them come the thresholds.  The
  size assumption is needed exactly there: the room left must not be negative
  after aligning.  `HeapInv` adds what the heap holds at each phase of
  destruction: the slots the walk has passed are empty, the blocks it has not
  reached are still there, and before that an address is allocated exactly when
  a slot has it or its slot could not be made.
* **Queue.**  `QueueInv` is `Linked`, `NodesAccounted`, `TraversalInOrder` and
  two smaller facts: only a queue in use is traversed, and a queue that does not
  exist has no node.  Only together are they inductive: unlinking the front
  needs that no node is in the order twice, and the traversal needs that its
  node is never removed.
* **Shared queue.**  `ShareInv` says that only the thread with the lock is in a
  call, that `quotes` is the number of threads that use the queue or are in a
  step that will change it (`Quoting`), that what a thread has read is still
  true, and that the queue is freed once at most.
* **Link.**  `LinkInv` has two chains along `next`, of the link's nodes and of the
  spares, read off the histories `order` and `spares`; no node is twice in either
  or in both, and the two together are the nodes carved, as many as at the peak.
  With `Dirty` the head of the spares may be a stray pointer, but then no node
  was ever made: that is why only `SparesKept` needs clean memory.  `CallsMatch`
  relates each call to its own step of `SmpDeque`, from which both
  `CallsTakeTheirOwn` and `DequeImplemented` follow.
* **Stack.**  The same with three shares: the stack's nodes, the idle ones, and
  what the client holds.
* **Array and list.**  The k-th element is in unit `k \div UnitElemAmt` at
  `k % UnitElemAmt`, and the pushes so far fill the places from the first on.
  A traversal has visited the places up to the one it is at, as far as those
  existed when it began, and perhaps fewer of those that came later, because the
  number of elements of a unit is read before its visitors push.
* **Search.**  First what the tables are, for any pattern: `smp_bm_suffix` finds
  the longest common suffix of the pattern and each of its parts
  (`SuffixFacts`, from `StepStands`: a result that is copied from an earlier
  one cannot be longer, and one that is computed goes on where the last one
  stopped); hence no
  smaller move than that of `smp_bm_good_suffix` or `smp_bm_badchar` agrees with
  the letters that have been compared (`GoodSuffixFacts`, `BadCharFacts`).
  `SearchInv` then says that the points stored are occurrences before the
  place the pattern is at, in order, and all of them if the text is `Plain`, for
  which the table has an entry for every character met; `NonePassed` follows.  For `PiecesCover`, a letter is in
  the piece after the last delimiter that begins before it, or in that delimiter.
* **Process title.**  The operators on strings come first, for any sequence of
  strings: what `Laid` lays down, `Places` finds and `StringAt` reads again
  (`PlacesHold`, `StringRead`), the walk of `smp_init_set_proc_title` ends behind
  the last of the strings that follow each other (`EndFromPlaces`), and
  `smp_strcpyn` leaves what `Laid` says wherever there was NUL before
  (`CopiedFills`).  `TitleInv` has three parts.  `MemoryEnds`: the last byte is
  NUL, so that a string begins at every byte and ends inside (`StringExists`),
  and the name is at the first.  `ParamsInMemory`: the parameters are in memory
  where `argv` says, and the name ends before the first of them, which is why
  a title in the name's place cannot reach them.  `SmoothMemory`: as long as no
  title was shorter and no memory refused, title and parameters follow each
  other, and behind them either the environment does or, once it has been
  copied, NULs do.  Of the copies (`Away`) all but the last end inside their
  memory, which is one byte shorter than they are together (`AllButLast`), and so
  only the last can change (`ReusedStep`).  The last part is needed for the parameters too, because the
  copy leaves an empty string to the byte that is there.
* **Red-black tree.**  `RbtInv` says where every node is by a function `D` that
  gives each node the set of those below it and itself: the two children's sets
  and the node make up its own and are apart (`Shape`), and the keys in them are
  on their side of the node's (`Sorted`).  The black height is a function on the
  nodes too (`Level`), and no red node has a red parent (`Apart`); all four are
  `Sound`.  Between the turns of a fix-up loop it says also what the call still
  owes: the node in charge of `smp_delete_fixup` counts as black once more
  (`Charge`), that of `smp_insert_fixup` may be red below a red one (`Loose`).  A
  rotation then changes the sets of two nodes, which is proved once for both
  directions; each case of both loops is a rotation or two and a change of
  colors, and lemmas about those (`BlackDown`, `DebtUp`, `LastPaint`) say where
  the debt goes.  `Swept` is the invariant of the destruction: the nodes in the
  queue are roots of trees apart from each other, which have every node left if
  no allocation fails, and the size counts them, so that it ends at 0.  `TurnsClimb` compares how many nodes are above the one in
  charge before and after the turn.

The refinements (`ArenaImplemented`, `FifoImplemented`, `DequeImplemented`,
`LifoImplemented`, `OrderImplemented`) show that the initial states map to initial
states and every step to a step of the promise or to none.

What the model's walks along pointers compute (`Walk`, `Chain`, ...) is proved by
induction: over the numbers, with the set of those for which a fact holds
(`NatInSet`), because the library's induction theorems take an operator, which
the installed provers cannot instantiate.  For the same reason those walks, and
the recursive function in `Suffix`, are functions of numbers and not RECURSIVE
operators, a walk with several parameters is a function to functions, and `Kids`
lists the children without `SelectSeq`; that such a function exists is a lemma
(`WalkExists`, `SuffixSolved`).

Only model-checked, with the reasons:

* `DestoryEnds`, the one liveness property: liveness under fairness is out of the
  prover's reach.  Likewise `TurnsClimb` proves that each turn of a loop brings
  its node nearer to the root, and not that the loop is at last left.
* The violations, which are counterexamples.

## Plan

All that the plan had is modelled, every safety property that a run checks is
proved as well, and so are the five refinements.  What may be added are the
link's two functions that count quotes, which nothing reads, and the string
functions, if a property beyond their tests can be found.

## Not modelled

Calls with NULL arguments return at once.  The pre-order and post-order walks of
the tree print and change nothing.  The `quotes` of a link are counted and never
read.  The functions of `smp_string.c` that copy, compare, trim, convert and
print one string keep no state, and what they compute a test reaches; of
`smp_strtok` nothing is promised beyond the C library's.  `smp_sys_getpid_byname` and
`spo_bind_cpu` are a program's output and a system call.  Semaphores, messages, signals, files
and streams are one system call each: a model would be one of the kernel.  The
error text is a global that no container reads.  `PROJECT.json` gives the reason
for each component.
