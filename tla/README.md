# async-mutex in TLA+

This directory models the crate in TLA+: the asynchronous futex (`src/src/futex/`),
everything built on it (fair and fast mutex, condition variable, readers-writer
lock, channel, once cell), and the second futex with its mutex (`src/src/futex2/`).
The models are checked with TLC on small instances. Proved with TLAPS, for any number of
tasks, waiters, futexes, senders and buckets, are the safety properties of the futex
protocol, of both mutexes, the condition variable, the readers-writer lock, the channel,
the once cell and the second futex, and that the fair mutex and the channel implement
their abstract specifications.

## The system

| component | source | state | operations |
|---|---|---|---|
| futex word | `futex/mod.rs`, `futex/state.rs`, `atomic/` | one double-wide word: the user's atom and the inbox pointer | `load`, `cmpxchg_weak`, `cmpxchg_wait_weak`, `cmpxchg_enqueue_weak` |
| futex state | `futex/mod.rs`, `futex/atomic_refcell.rs` | a `std::sync::RwLock` around an `AtomicRefCell` around the queues | `lock` (shared), `FutexWaitersGuard::lock` (borrow), `pop`, `pop_many`, `requeue`; `flip`, `cancel` under the write lock |
| waiters | `futex/waiter.rs`, `futex/wait_future.rs` | `next`, `prev`, `futex` pointer, queue index, waker slot (`None`, `Waiting`, `Done`) | `poll_enter`, `poll_waiting`, drop of a pending future, `wake`; the list operations |
| fair mutex | `fair_mutex.rs` | atom 0 or 1, one queue | `lock`, `unlock`, cancellation of `lock` |
| condition variable | `condvar.rs` | atom: the mutex's address or 0, one queue | `wait`, `notify`, `notify_all` |
| fast mutex | `fast_mutex.rs` | atom `locked`, `waking`, `waiters`; one queue | `lock` (barging), `unlock` |
| rwlock | `rwlock.rs` | atom `readers`, `writers`; a queue for each | `read`, `write`, the two unlocks, `write_abort` |
| channel | `mpsc.rs` | ring of buckets, atom `write_head`, `size`, `recv_state`, `recv_head`; one queue of senders | `send`, `recv`, drop |
| once cell | `lazy.rs` | atom `Uninit`, `Active`, `Poison`, `Init`; one queue | `get`, `get_or_init`, `finish` |
| futex2 and its mutex | `futex2/` | generations of buckets, word `generation`, `waits`, `notifies` | `wait_if`, `notify`, `expand`; `lock`, `unlock` |
| spin lock | `spin_lock.rs` | one flag | `lock`, drop of the guard |
| atomics, shims, macros | `atomic/`, `loom.rs`, `util.rs`, `async_traits.rs` | none | wrappers |

How they meet. A waiting task pushes its `Waiter` on the inbox with the same
compare-and-swap that checks the user's atom. A notifier takes the `RwLock`
shared, borrows the queues, empties the inbox into them with a
compare-and-swap, pops waiters, gives the queues back, and wakes (or requeues)
what it popped while it still holds the shared lock. A future dropped while it
waits takes the `RwLock` exclusively, empties the inbox, removes its waiter,
and calls back: `on_cancel_sleeping` if it was never woken, `on_cancel_woken` if
the wake came first. `poll_waiting` and `wake` meet in the waker slot. The
condition variable moves waiters from its own futex to the mutex's under two
shared locks, so a dropped waiter follows its `futex` pointer to find the list
that holds it. There may be any number of waiters and one notifier for each
futex at a time; the mutexes must provide the latter themselves.

What is hard: every one of these steps interleaves with every other one, pointers
to a waiter outlive its future unless the lock protocol forbids it, a future may
be dropped at any step (also just after it was woken), and a missed wake shows
up only as a task that never runs. `PROJECT.json` lists the hazards line by line.

What makes each component correct:

- *futex*: a sleeping waiter is linked exactly once, its futex pointer leads to
  that list, it is woken at most once and only while its future lives, its
  latest waker is the one called, queues are strictly FIFO, dropping a future ends.
- *fair mutex*: mutual exclusion, no barging, first come first served, no
  lost waiter, unlock never panics, a waiting task is served.
- *condition variable*: a notified waiter holds the mutex when it returns; a
  notification is not lost between push and unlock.
- *fast mutex*: mutual exclusion, one waiter woken at a time, a free lock with
  waiters has one on its way.
- *rwlock*: readers exclude writers, the counts equal the guards, a released lock
  wakes a writer or all readers.
- *channel*: every message is received once and in the order the senders claimed
  their places, never more than `cap` are in the ring, a sleeping receiver is woken.
- *once cell*: one initialiser at a time, waiters see its value or its poison.
- *futex2*: a notification reaches a task that is still waiting.
- *drops that panic*: the crate leaves some cancellations as `todo!()`. What such a panic
  leaves behind in the word, the lines and the waker slot is part of the models, and
  nothing else may be damaged by it.

## The modules

| module | models |
|---|---|
| `FutexOps` | what all share: the inbox top, snapshots of the word, removal from a queue |
| `Futex` | the futex protocol with polling, dropping and requeueing |
| `WaiterList` | `waiter.rs` pointer by pointer |
| `FutexQueues` | the sequences the lists of `WaiterList` stand for |
| `FairMutex` | `fair_mutex.rs` down to each access to shared memory |
| `FairLock` | the abstract lock: an owner and a line |
| `Condvar` | `condvar.rs`, composed with an instance of `FairLock` for the mutex |
| `FastMutex` | `fast_mutex.rs` |
| `RwLock` | `rwlock.rs` |
| `Channel` | what the channel promises: a bounded queue and a line of senders |
| `Mpsc` | `mpsc.rs`, which implements `Channel` |
| `OnceCell` | `lazy.rs` |
| `Futex2` | `futex2/mod.rs` and `futex2/mutex.rs` |
| `FutexProofs`, `FairMutexProofs`, `CondvarProofs`, `FastMutexProofs`, `RwLockProofs`, `MpscProofs`, `Futex2Proofs` | theorems about the module each is named for; `FutexProofs` also those about `OnceCell`, and `RwLockProofs`, in its first part, those about `WaiterList` |
| `FutexOpsProofs` | lemmas about lists of waiters that they rest on |
| `MCFairMutex`, `MCFutex`, `MCWaiterList` | instances for TLC; the others need none |

The modules stand on each other as the code does. `WaiterList` shows that the
intrusive lists carry sequences, so `Futex` has sequences; `Futex` shows that a waiter
is woken once and is not lost, with the waker slot and the requeue in detail, so the
modules of the futex's users have one step for a wake; `FairMutex` implements
`FairLock`, so `Condvar` uses `FairLock`.

### FairMutex

`atom` and `inbox` are the two halves of the futex word, `queue` the single
queue, `readers` and `writer` the `RwLock`, `borrowed` the `AtomicRefCell`.
For each task, `pc` names the step it takes next, `cur` the snapshot in
`futex_atom`, `popped` the `WaiterHandle` about to be woken, `waker` its slot.
Each action is one shared access with the local code around it:

- `lock`: `Lock` (load), `Acquire`/`AcquireFailed`, `Enter`/`EnterFailed`,
  `Resume` (the poll that finds `Done`);
- drop of a pending future: `Drop`, `CancelWrite` (write lock), `CancelRemove`
  (`flip`, `cancel`, end of the write lock), `CancelSleeping`, `CancelWoken`
  (which goes on to `unlock`);
- `unlock`: `Unlock`, `ReadLock`, `BorrowMut`, `PopQueued`, `LoadAtom`,
  `EnqueueAndPop`/`EnqueueFailed`, `Unborrow`, `Clear`/`ClearFailed`, `Reborrow`,
  `Wake`, `Leave`.

A pointer is the task whose waiter it points to: a task that locks again has its
waiter at the same address, so a compare-and-swap may succeed on a pointer that
was removed and pushed again (ABA), as in the code. A panic (`borrow_mut` on a
borrowed cell, `wake` on a slot that does not hold a waker) leads to the step
`panicked`. `Wake` swaps the slot and calls the waker in one step; `Futex`
separates them.

### Futex

One waiter is one task that waits, is polled with any of several wakers, and may
be dropped at any step; `clones` counts the copies of its wakers and `ready` says
that the executor was told to poll it. One notifier for each futex pops any number
of waiters, wakes them, or moves the rest to `Target[f]` under both shared locks,
as `Condvar::notify` does. Here the swap of the slot and the call of the waker are
two steps, requeue stores the futex pointers one by one, and a dropped future
loads the futex pointer, waits for the write lock and checks the pointer again.
The user's atom and the retries of `poll_enter` are left to `FairMutex`.
`Wakers[w]` are the wakers an executor may poll w's task with. `Uncancellable` are the
waiters whose `on_cancel_sleeping` is a `todo!()`, as in `condvar.rs`: their drop
unwinds (`DropUnwinds`) after the waker was dropped and before the slot is reset, so
`Drop for Waiter` drops the same waker again. `ClonesAccountedFor` says that this is
the only clone the protocol drops twice.

### WaiterList and FutexQueues

`WaiterList` has `next`, `prev` and `owner` for each waiter, and heads and tails
of every list; `pop_front`, `push_back`, `remove`, `from_stack`, `pop_front_many`,
`enqueue` and `requeue` follow the code pointer by pointer. The operations are
atomic, as each runs under the borrow or the write lock. `FutexQueues` states what
they promise with sequences, and `WaiterList` implements it. The loops over a list
(`Walk`, `Drain`) are recursive functions, one turn of `enqueue`'s loop is `Turn`.
`Reuse` says whether a `Waiter` may be waited on again after its future was
dropped. The crate's own users never do so. On the stale links it brings, the loop of
`enqueue` may never end: `looping` records that, and nothing happens afterwards.

### The futex's other users

In these modules a load and the compare-and-swap that succeeds on it are one step:
the swap compares the whole double word, and the loops in the code do nothing with what
they loaded but decide on that swap. One that fails only reloads. The slow path of
`FastMutex`'s `unlock` is the exception, and keeps its snapshot (`cur`). `line` is the queue followed by the inbox;
a notifier that takes the first of the two enqueues first, so it takes the head of
`line`. Everything between two accesses to shared state is one action, named for
what the code does there. A panic or failed assertion leads to `panicked`. Dropping a
future in a state for which the code has only a `todo!()` removes the waiter from its
line under the write lock, as `Drop for WaitFuture` does before it calls back, and
leaves the task at `dropped`; an assertion that can fail only because of that leads to
`stuck`.

- `FastMutex`: `locked`, `waking`, `waiters` are the fields of the atom. `Acquire`,
  `Enter`, `Resume`, `Reacquire`, `Reenter` are `lock` (the first and the second
  loop); `Unlock`, or `UnlockSlowly`, `Borrow`, `Release`, `Pop`, `Wake`, are `unlock`.
  `UnlockSlowly` loads the word into `cur`, before the queues are locked; `Release` swaps
  on it and `Reload` is the swap that fails. `Drop` panics whether the waiter sleeps or
  was woken. The second leaves `waking` set; the first stays counted in `waiters`, so that
  an unlock whose snapshot has an empty inbox and that finds the queue empty fails
  `assert_eq!(atom.waiters, 0)` with the lock held (`ReleaseFails`). The assertion is made
  before any swap on the snapshot: it fails also if somebody is in the inbox by then.
  The code's third branch, with no waiter counted, is part of `Release` and never taken:
  a holder on the slow path saw waiters counted, and none is uncounted while it holds.
- `RwLock`: `readers`, `writers` are the atom, `rline`, `wline` the two queues.
  `Read`, `ReadWait`, `Write`, `WriteWait`, `Resume`; `CancelRead`, `CancelWrite`;
  `read_unlock` (`ReadUnlock`, `LastReader`, `ReadToWriter`) and `write_unlock`
  (`WriteToWriter`, or `Unborrow` and `Clear`, or `Downgrade`, `GiveBack`, `AddReaders`).
  `DropWrite` is `write_abort`: the writer stays counted, and the unlock that looks for it
  in line fails (`Quit` to `stuck`). `Low` is what `encode` keeps of a count, half a word,
  and `Half` the number of values it has.
- `Mpsc`: `write_head`, `size` are the atom, `data`, `filled` the ring, `recv_state`
  the word in which senders and receiver meet. `Claim` or `Enter`, `Fill`, `Notify`,
  `CallWaker` are `send`; `Poll`, `Arm`, `Check`, `Disarm`, `Take`, then `Shrink` or
  `Replace`, `Backfill`, `Wake`, are a poll of `recv`; `Cancel` and `Forget` drop a
  pending send and receive; `DropSender`, `DropReceiver` drop the handles. A message
  is named by its sender. `ImplementsChannel` maps the ring, from the oldest claim to
  the newest, to the abstract queue: what is in the bucket or about to be put there.
- `OnceCell`: `Begin`, `Await`, `See`, `Resume`, `Cancel` are `get_or_init`, `Complete`
  and `Abort` the end of the initialiser, `ReadLock`, `Publish`, `Wake`, `Finish` the
  function `finish`, called with `Init` or `Poison`.
- `Condvar`: `owner`, `line` are the mutex, `cline` the condition variable's line.
  `Push` and `Part` are the first poll of `wait`, `Notify` and `Requeue` are `notify`,
  `Return` is the poll that finds the mutex handed over, `AbandonLate` the drop of a
  future to which it was handed, `Drop` the drop of one that sleeps in either line.

### Futex2

`generations` holds the buckets of every generation, `waits` and `notifies` are the
counters beside the pointer to the current one, `atom` is the mutex. `Enter`, `Place`,
`PlaceWoken`, `PlaceTaken`, `Check` are `poll_enter`; `Resume`, `ResumeBuried` are
`poll_waiting`; `Notify`, `Signal`, `SignalStray` are `notify`; `Grow`, `Bury`,
`Install` are `expand`, bucket by bucket. `Drop` is the `todo!()` of a dropped wait, which
leaves its waker in the bucket. `Half` is the number of values of a `usize_half`; sums wrap. `at[t]` and `target[t]` name a bucket by
generation and iteration. Generations are never freed while the queue lives, so a
stale pointer still leads to its buckets, as here.

## The runs

| run | instance | distinct states | shows |
|---|---|---|---|
| `waiter_list` | 4 waiters, 2 futexes with 2 queues | 9,579 | `Debug`'s assertions, no stale pointer, refinement of `FutexQueues` |
| `waiter_reuse` | the same with `Reuse` | | a call of `enqueue` never returns (see Findings) |
| `futex` | 2 waiters, 2 wakers, a condition variable's futex and a mutex's | 240,040 | waiters linked once, owner pointers, waker clones, latest waker, order; woken futures complete |
| `fair_mutex` | 3 tasks | 7,596 | six invariants, refinement of `FairLock`, `WaiterServed`, `DropReturns` |
| `condvar` | 4 tasks | 4,609 | a waiter is in one line at every moment, a dropped one in none; a notified one gets the mutex |
| `fast_mutex` | 5 tasks | 49,361 | exclusion, the count of waiters and of dropped ones, the assertion in `unlock`, a free lock has a waiter on its way; it is taken again and again |
| `rwlock` | 4 tasks, counts up to 4 | 8,690 | exclusion, counts against owners, the assertions; writers are served, and readers once writers stop coming |
| `mpsc` | 2 senders, 2 buckets | 42,674 | refinement of `Channel`, no lost wake of the receiver, the assertions |
| `mpsc_drop` | 2 senders, 1 bucket | | the assertion in `Drop for Inner` fails (see Findings) |
| `once_cell` | 3 tasks | 440 | one initialiser; every call ends |
| `futex2` | 3 tasks, one call each, 4 iterations a generation | 89,995 | exclusion, buckets, nobody left in an abandoned generation, no wakeup lost but on a wait given up |
| `futex2_lost` | the same, with fairness | | a wakeup is lost (see Findings) |

Bounds. Except for `Futex2`, all state spaces are finite without further limits:
every task runs the code's loops for ever. Three tasks are the least for a mutex to
have an owner, a queued waiter and one in the inbox, and for a cancellation to hit
either; the safety part of `fair_mutex` was also run with four. In `futex`, two waiters
are enough for order and for a list of which one part is woken and the rest
requeued; one task with two wakers is enough to tell the latest from an older one;
two futexes are what `notify` involves. `waiter_list` needs four waiters to cut a list
of three in the middle while another is elsewhere. `condvar`, `fast_mutex` and `rwlock`
have a fourth or fifth task, so that an owner, a cancelled or late one and two in line meet:
two readers let in together while a writer and a reader come. In `mpsc` the ring is full with two messages and
both senders meet in it, the one in line behind the other's; the run was also made with
three senders, and with three buckets. In `futex2` three tasks make the generation
grow to two and to four buckets; counters grow with every wait, so `Calls` bounds the
calls of `lock`. With two tasks and up to four calls each, `LockReturns` holds. The runs of
`condvar` and `rwlock` were also made with five tasks.

Half words. `Half` is the least with which the properties hold: 5 in `rwlock`, so that
the counts hold as many owners and writers as there are tasks, and 4 in `futex2`, more
than the waits of one generation. One value less in `rwlock`, or one bit less in `futex2`,
and `CountsMatch` and `WakeupsReach` fail. In the code the counts are bounded by
memory, a guard or a future each, but the iterations of `futex2` are not: they go up with
every contended wait and are reset by `expand` only. When `waits` wraps, `notify` takes
the minimum with the wrapped value, and the notification of a sleeping task is dropped
(two tasks that lock three times each, with `Half` = 4, come to it). That takes 2^32 waits
in one generation of a release build; a debug build panics instead.

Memory. The models are sequentially consistent; the orderings in the code are not
examined. `cmpxchg_weak` may fail spuriously: where a failure only reloads the
word that is a stutter, and where it does more (`ClearFailed` borrows again) the
failure is always possible.

Deadlock is checked where the system goes on for ever. It is not checked in `condvar`
(everybody may wait and nobody is left to notify), `mpsc` (the handles are dropped),
`futex2` (the calls are used up), and `fast_mutex` and `rwlock` (a waiting future that was
dropped may leave the lock taken for ever, with everybody else asleep).

Fairness. A step of a poll, a drop or an unlock that has begun is taken some day
(weak fairness: an executor thread runs on). A task whose waker was called is
polled. A guard is dropped some day, in `Condvar` however often its owner notifies
(`LetGo`). An initialiser ends or is dropped. Nobody is obliged to lock, to enter, to
send, to be cancelled or to notify. Beyond that, strong fairness stands for two things:
a thread waiting for a `std` lock does not lose it for ever to later ones (`ReadLock`
and `CancelWrite` in `FairMutex`, `Grow` in `Futex2`), and a compare-and-swap does not
fail for ever on a word that keeps its value (`Clear`). std does not promise the first
to a writer among overlapping readers; `FairMutex` needs it in a weak form only, as
the lock is handed over inside the critical section and the line of a cancelled
task's predecessors is finite. In `Futex`, where notifiers may come without a gap,
nothing is assumed about getting the `RwLock`, and no property says that a drop ends. `DropReturns` is stated of `FairMutex` only, where nothing is requeued, and rests on
the strong fairness of `CancelWrite`: it shows that a drop ends once std's lock is given to
the dropping thread, not that std gives it.

## The theorems

Each theorem has the form `Spec => []Property` (`ListSpec` and `CellSpec` where two modules
share a proof module) and follows from one inductive invariant of its module, `IInv`: a conjunction of named parts, checked with TLC before it
was proved, with a lemma `<Action>Keeps` for each action. Assumed are the named ASSUMEs
of the modules, and in one theorem a hypothesis on the behaviour:

| proofs | assumptions on the constants | why they are justified |
|---|---|---|
| all | `Null` is no task, waiter, futex or sender | it is the null pointer |
| `FutexProofs` | `FinitelyMany` waiters and futexes; `Target[f] # f`; a waker is none of the slot's other two values | they are objects in memory; a condition variable and its mutex have a futex each; the slot is an enum |
| `FastMutexProofs`, `CondvarProofs` | finitely many tasks | the word of the first counts them; a notification takes a number of them |
| `CondvarProofs` | the names of the two lines in `Places` are no tasks | only `WaiterKept` uses these names |
| `RwLockProofs` on `WaiterList` | finitely many waiters; `QueueOf` gives each a queue of the futex | objects in memory; `queues[waiter.queue()]` panics otherwise |
| `RwLockProofs` on `WaiterList` | `~Reuse`: each `Waiter` is waited on once | so do all users in the crate; otherwise stale links come into the lists (`waiter_reuse`) |
| `RwLockProofs` on `RwLock` | finitely many tasks, fewer than `Half` | each counted task has a guard or a future in memory; with more the counts wrap |
| `Futex2Proofs` | at least one value of a half word; any bound on the calls | `usize_half` is a type of the crate; the bound is there for TLC only |
| `Futex2Proofs`, `NoWakeupIsLost` only | `[]SumsFit`: `waits` plus the size of the generation stays below `Half` | a debug build panics where a sum would not fit, a release build needs 2^32 contended waits in one generation; if `waits` wraps, `notify` does lose a wakeup (see Half words) |
| `MpscProofs` | at least one bucket | `assert!(cap > 0)` (`mpsc.rs:63`); `After` divides by their number |

`FutexProofs`, for any number of waiters and futexes and any `Target`: the unwrap
in `Waiter::wake`, `LinkedOnceWhileAsleep`, `OwnerLeadsToList`, `ClonesAccountedFor`,
`LatestWakerIsCalled`, and the action property `OrderKept`. The invariant says

- `WaitInv`: what the slot holds at each step of a waiter's task;
- `LockInv`: who holds the `RwLock` of a futex is a function of the steps (a requeueing
  notifier holds two of them), and a canceller excludes notifiers;
- `NotifierInv`: what a notifier has in its hands at each step;
- `LinkInv`: the lines (a notifier's handles, then the queue, then the inbox) are
  disjoint, without repetition, and link exactly the waiters that sleep;
- `OwnerInv`: the futex pointer of a waiter leads to its line, except in the hands of a
  notifier that has stored the next futex and holds both locks;
- `LatestInv`: where the waker of the latest poll is.

The turning point is the canceller that checks the futex pointer again under the write
lock: by `LockInv` no requeue is under way on that futex, so by `OwnerInv` the pointer it
reads is the list the waiter is in, and removal is from the right list. The order follows
from `IInv` by a case analysis (`LineStep`): a step appends to a line, drops from
one, or moves the head part of one behind another one, and the lemmas on `Before` in
`FutexOpsProofs` say that each of these keeps order.

`FairMutexProofs`: `TypeOK`, `MutualExclusion`, `WordTellsOwner`, `NeverPanics`,
`NoWaiterLost` and `NoDanglingWaiter`. None of the last five is inductive alone.
The invariant adds

- `RwLockInv`: who holds the `RwLock` shared or exclusively is a function of the
  steps, and a writer excludes readers;
- `QueueInv`: the borrow flag is set exactly while some task is between borrow
  and release, and an unlocker that looked at the queue and found it empty still
  finds it so;
- `LinkInv`: a linked waiter sleeps, its future is pending, it is linked once;
- `HandleInv`: at most one waiter is popped and not yet woken, and no
  cancellation is past the write lock with it;
- `PlaceInv`: a sleeping waiter is linked or popped.

The heart of the argument is that the lock's owner is unique from the swap that
takes the lock to the pop or the swap that gives it away (`MutualExclusion` counts
the handed-over lock), so unlockers never overlap in the queues; and that the
shared lock is held from the borrow to the end of the wake, so no cancellation
comes between. `MutexIsFair` proves `Spec => ImplementsFairLock`: with `owner` mapped to
the task that owns the lock (also while it is handed over or cancelled too late)
and `line` to the queue followed by the inbox, each step is a step of `FairLock` or
a stutter.

`CondvarProofs`: `WaiterKept`. `OwnerInv` says that whoever holds the mutex owns it, so
that at most one notifier has waiters in its hands; `ListInv` that the two lines and these
hands are disjoint; `PlaceInv` which list a task is in by the step it is at. A waiter that
entered the line but still has the mutex (`"parting"`) is never notified, since a notifier
would own the mutex too.

`FastMutexProofs`: `MutualExclusion`, `NeverPanics`, `WaitersCounted` and
`FreeLockIsComing`. Here the four are conjuncts of `IInv`, and need each other: the
flag `waking` is what keeps unlocks apart. While it is set exactly one task is coming,
and no unlock enters the queues; a holder on its way to the queues found it clear, and
only a holder can set it (`QueueInv`). `LineInv`, `HandleInv` and `PlaceInv` say where a
sleeping task is. `SnapshotInv` is about the assertion, which reads a word that may be
out of date: when it was loaded nobody was coming, so each counted task was in line or
had been dropped asleep (`CountedElsewhere`); until the queues are given up nobody is
popped or uncounted, so a snapshot without an inbox and an empty queue mean that a sleeper was
dropped, before the load or after it. That is the only way to `"stuck"`.

`RwLockProofs`, first part, on `WaiterList`: `DebugAssertions`, `NothingLeftBehind`,
`EnqueueReturns` and the refinement of `FutexQueues`, for any finite set of waiters and any futexes and queues. The
inductive invariant `ListIInv` starts from the lines one meets by walking the pointers, the
inbox backwards (`Arrived`), each queue (`Queued`) and the list of a notifier (`Popped`):

- `Carried`: each of these lines has no repetition and is linked soundly, `next` and `prev`
  of neighbours meeting each other and null at either end, and `head` and `tail` are its
  ends; an inbox is linked by `prev`, and its newest waiter has no `next`;
- `Placed`: a waiter stands in one line at most, of the futex it points to and of its own
  queue, and it stands in one if and only if it is `"in"`;
- `Loose`: a waiter in no line has no links. `push_back` writes the `next` of the old tail
  and not the waiter's own, so it is sound only for such a waiter. This is the conjunct
  that `Reuse` breaks.

There is one lemma for each list operation, which says what it makes of the line it is
given (`PopFrontList`, `PushBackList`, `UnlinkList`, `FromStackList`, `PopFrontManyList`). The
loop of `enqueue` goes along with the loop that sorts the sequence: after each turn the
list of the stack has what is left to sort and the queues have what was sorted
(`TurnList`, `DrainLists`), and it is over within a turn per waiter, so every call returns
(`EnqueuesReturn`). `LinesApart` and `Kept` then carry over every line that an action does not
touch, and each action keeps `ListIInv` and is a step of `FutexQueues` in one lemma.

`RwLockProofs`, second part: `Exclusion`, `CountsMatch`, `NeverPanics` and `WaitersHaveLeader`. The
core is `CountInv`: `readers` is the number of tasks that own the lock shared, the writer
that leads readers in included, and `writers` the number of writers that own it, wait in
line or were dropped there. With `Exclusion` a word whose count reaches the value at which
an unlock acts (the last reader, the last writer) says that this task is alone, so at most
one unlock at a time is in the queues (`GuardInv`); `LineInv` and `PopInv` say that what
an unlock has in its hands still sleeps. `LowCount` shows that no count wraps.

`MpscProofs`: `NeverPanics`, `ReceiverWoken`, and `ChannelImplemented`, the refinement of
`Channel`. `LineInv` contains the reason for the assertion in `recv`: senders wait only
while the ring is full. `WakerInv` says that a receiver past its last look has its waker
in `recv_state`, or with a sender, or was woken. `RingInv` describes the ring: the claimed
buckets are the `size` ones from `Oldest` on, and each is filled, about to be filled by
exactly one sender, or the hole the receiver has just made. Arithmetic modulo `Cap` is
reduced once and for all to a comparison (`WindowLies`), and the three ways the
window moves are lemmas (`ClaimMoves`, `ShrinkMoves`, `ReplaceMoves`). For the
refinement, `ContentsAre` says whose message a bucket stands for in each of its states and
`ItemsListed` that `Items` is a sequence of these; a step `Maps` to `Accept`, `Queue`,
`Abandon` or `Receive`, or keeps what every claimed bucket stands for.

The theorem about `OnceCell`, at the end of `FutexProofs`: `InitialisedOnce`. With the
types and `WrittenInv` (who publishes a value has written it) it is inductive: nobody
enters the line unless the word still reads `Active`, and the word leaves `Active` in the
step that takes the whole line out. It assumes nothing of the set of callers.

`Futex2Proofs`: `BucketsKept`, for any tasks (also infinitely many), any number of calls
and any width of the counters, and `WakeupsReach` while the sums fit. The first follows
from `IInv`: a wait writes only to a bucket that holds its own iteration, so no two of them
share one (`SlotInv`), and one task at a time buries, and what lies behind it is all
tombstones (`GrowInv`). The second needs to know why a notification that goes to the wrong
waiter of a bucket does not leave the right one asleep. It is a counting argument,
`BucketInv`: unless its generation is being buried, a bucket that serves iteration `i` has
had at most as many notifications delivered as it has iterations before `i`. If `i` itself
was notified, one of the notifications of this bucket is therefore still on its way
(`Overdue`), and it will find the sleeper. `CountInv` says that nobody has an iteration that
was not given out, and `ActiveInv` that while somebody sleeps and the mutex is not marked,
somebody else is still going to notify, to retry or to bury, or a wakeup was spent on a wait
that was given up. The first form of `NotifiedIsWoken` asked for a notification of the
sleeper's own iteration; with four tasks TLC refutes it, and the proof needs the bucket.

`FutexOpsProofs` has what all of them need to know of sequences: what `Append`, `Tail`,
`\o`, `SubSeq` and `Without` do to the set a list links, to its freedom from repetition,
and to the order of two waiters.

Only model-checked: the liveness properties (`WaiterServed`, `DropReturns`, `WokenReturns`,
`NotifiedReturns`, `LockTakenAgain`, `WriterServed`, `ReaderServed`, `RecvReturns`,
`CallEnds`), which are out of the prover's reach. Every other property of a passing run has
its theorem.

## Findings

`waiter_reuse`. `WaiterList::remove` leaves `next` and `prev` of the removed waiter as
they were, and dropping the future sets its slot back to `None`; `poll_enter` then
accepts the waiter again. Through the public `futex` module a `Waiter` may therefore
re-enter with a stale `next`. In the trace, w1 and w2 enter, w1's future is dropped and w1
enters again, its `next` still w2, which is in the queue by now. The loop of `enqueue`
(`futex/mod.rs:253`) pops w1 from what it takes for the inbox's list, follows `next` to w2,
links w1 behind w2, pops w2 and meets w1 again. Two turns bring back the same links, so the
call never returns, with the queues borrowed or the `RwLock` held. `Fuel` turns are enough
to see it: with four waiters, in every state reached over sound lists, a loop that is not
over by then has been at the same links before. Every user in the crate makes a new `Waiter`
instead.

`mpsc_drop`. The future of `recv` is a bare `poll_fn`. Dropped while it waits, it leaves
its waker in `recv_state`, and `Drop for Inner` panics on it when the last handle is
dropped (`mpsc.rs:247`).

`futex2_lost`. In `futex2`, a wait whose condition fails leaves its waker in its bucket and
notifies the oldest iteration instead (`futex2/mod.rs:190-193`). A later notification
goes to the bucket nobody waits in any more, and the task behind it sleeps for ever
although the lock is free. It takes three tasks and one call each; the loom test of
three tasks (`tests/loom.rs:158`) bounds preemptions.

## Not modelled

- Executors that run tasks inside `wake`: a wake only marks a task ready here.
- Memory orderings and the values inside the cells.
- A condition variable used with a second mutex: `wait` then fails its assertion after
  `mem::forget(guard)`, and the second mutex stays locked.
- What a panicking task does afterwards, and undefined behaviour after a waker was
  dropped twice: a task whose drop met a `todo!()` takes no more steps.
- Two assertions that cannot fail: that a woken send's message was taken
  (`mpsc.rs:116`: `recv` takes it before it wakes, under the read lock), and that a generation of
  `futex2` has no more buckets than a half word counts (`futex2/mod.rs:66`).
- The spin lock, the atomics, the loom and trait shims, tests and benchmarks have no
  protocol a model would add to.

## The plan

Every component with a protocol has its module, and every safety property and refinement
that a run checks has its theorem. What could follow: the refinement of `Futex` by its
users, which have one step for a wake; and `append` and `append_stack` of `WaiterList`, once
the crate calls them.
