# A TLA+ development of MiDSM

MiDSM is a distributed shared memory library in C. The hosts of a program map
the same address range; `mi_lock`, `mi_unlock` and `mi_barrier` synchronise
them, and lazy release consistency makes the writes of one host visible to
another when they synchronise. This directory holds TLA+ modules of its
protocols, the TLC configurations that check them on small instances, and
theorems that TLAPS proves for every size.

Paths below are those of the repository: `src/syn.c`, `src/mem.c`, `src/net.c`,
`src/init.c`.

## 1. The system

| Component | State | Operations | Module |
|---|---|---|---|
| locks (`syn.c`) | `locks[]` at the manager of each lock (`lockno % hostnum`): state, owner, last releaser, waiting list; `myLocks[]`, `waitFlag`, `lasthostid` at every host | `mi_lock`, `mi_unlock`, `graspLock`, `freeLock`, `grantLock`, `handleAcquireMsg`, `handleReleaseMsg`, `handleGrantMsg` | `MiLock` |
| barrier (`syn.c`, end of `mem.c`) | `barrierFlags[]`, `barrierTimestamps[][]` at host 0; `waitFlag`, the current timestamp at every host | `mi_barrier`, `checkBarrierFlags`, `returnAllBarrierInfo`, `sendEnterBarrierInfo` and four handlers | `MiBarrier` |
| lazy release consistency (`mem.c`) | `procArray[].intervalList`, `intervalNow`, `pageArray[]` with state, twin, write notices and diffs | `segv_handler`, `fetchPage`, `fetchDiff`, `grantWNI`, `grantPage`, `grantDiff`, `incorporateWnPacket`, `addNewInterval` and eight handlers | `MiMem`, on `MiInterval` and `MiDiff` |
| notice transfer (`mem.c`) | the message being filled, `packetNum`, `firstMsgSent` | `addWNIIntoPacketForHost`, `apendMsgData`, the loops of `grantWNI`, `sendEnterBarrierInfo`, `returnAllBarrierInfo`, and the handlers that take notices in | `MiPack` |
| allocation (`mem.c`) | `globalAddress`, `pagenum`, home and first state of each page | `mi_alloc` | `MiStart` |
| message layer (`net.c`) | `sndQueue`, `recvQueue`, `isSendingMsg`, `snd_seqs`, `recv_seqs`, sockets | `sendMsg`, `sigio_handler`, `nextFreeMsgInQueue`, `msgEnqueue`, `queueTop`, `msgDequeue`, `dispatchMsg` | `MiNet` |
| start-up (`init.c`) | `hosts[]`, `hostnum`, `myhostid` | `mi_init`, `readHosts`, `readSegFromStr`, `findHostIdByName`, `startNodePrograms` | `MiStart` |
| clock (`util.c`) | none | `current_time` | no |

A host is one Unix process with two activities. The program's thread calls the
library; the SIGIO handler interrupts it, reads the messages that have arrived,
and handles each one to its end before it returns. SIGIO is masked inside the
handler (`net.c:42`) and inside `addNewInterval`, and open everywhere else. A
blocking call sets a flag and spins on it until a handler clears it. SIGSEGV
drives the paging: a fault in the program, or in a handler, runs
`segv_handler`, which may send a request and spin.

The components meet in these places:

- `mi_lock` asks, through `mem.c`, the last releaser of the lock for its write
  notices, so the lock protocol must name that host correctly;
- `mi_unlock` opens an interval before it releases the lock;
- the messages of a barrier carry timestamps and write notices, and the
  completion of a barrier at host 0 resets the `lasthostid` of the locks there;
- every handler runs inside `sigio_handler` and may interrupt any call.

What is hard here: the handler runs between two statements of a function that
works on the same structure; one `waitFlag` serves all locks and the barrier;
timestamps are compared as vectors and the order is partial; pages keep their
protection across intervals; a fault inside a handler waits with SIGIO masked;
and a message may be lost, repeated or dropped by `net.c`. `PROJECT.json` lists
these hazards at their lines.

What makes each part correct:

- locks: one holder at a time; a waiting host is remembered exactly once and is
  woken with the lock it waits for; the list stays a queue within its bound; the
  last releaser is the right one; whoever waits gets the lock;
- barrier: nobody leaves before everybody has entered; all leave in the same
  interval; timestamps never go back; whoever enters leaves;
- memory: a synchronised read sees the latest write; every write is in exactly
  one diff; a page has a twin exactly while it is writable; every request is
  answered; diffs are inverse to the changes and their order does not matter;
- notice transfer: however many messages it takes, each receiver gets every
  notice once and in order, and one timestamp;
- message layer: between two hosts messages are handled in the order they were
  sent, none is left out or dropped unless the network really fails, none is
  overwritten or forgotten in the queue, and every `sendMsg` returns;
- start-up and allocation: every node finds its own id and is started once; nodes
  that make the same calls agree on addresses and homes without a message.

## 2. Modules

`LockService`, `BarrierService` and `Channel` are the abstract specifications. The
first has a holder and a last releaser for each lock, the second counts how often
each host has entered and left, and the third numbers the messages of each pair of
hosts and says in which order they may be handled, when one may be handled twice
(`MayRepeat`) and when one may be left out (after the sender has given up).
`MiLock`, `MiBarrier` and `MiNet` are shown to implement them,
and `MiMem` is written on top of them: its `holder`, `last`, `phase` and `stamps`
are the abstract state, so that the interleavings of the lists and flags are not
multiplied with those of the pages.

`MiLock`. The variables have the names of the C variables. `pc[h]` is the
statement that the program's thread of `h` has reached; the points kept are those
between two accesses to state that the handler also uses (`RacePoints`) and those
where a call waits or has not returned. `graspLock` and `freeLock` therefore
appear twice: as one operator, for the handler, and cut into steps, for the
thread. Between two of their stores to one lock (`Stores`) the thread stops only when
SIGIO is open there: masked, the stores that follow a test are one step. The constant `SigioPoints` says at which of the race points the handler
may run. The code as written is `SigioPoints = RacePoints`; `SigioPoints = {}` is
the same code with SIGIO masked there, as `addNewInterval` does with its own
updates. `Garbage` is what the uninitialised `int` returned by the manager's own
path may hold. `BarrierReset` is the one step by which the barrier touches locks.
Programs take locks in increasing order; otherwise they could deadlock without
any fault of the library.

`MiBarrier` is built in the same way. Only host 0 has race points, since only
there do the thread and the handler share `barrierFlags` and
`barrierTimestamps`. `addNewInterval(h)` stands for the intervals that the
program opens through locks between two barriers.

`MiInterval` has the vector timestamps (`isAfterInterval`), `MiDiff` the diffs:
a page is a function from offsets to bytes, and a diff is a byte-wise difference
modulo the size of a char.

`MiMem`. A host has its interval lists, newest first, its notices, and its pages
with state, content, twin and `startInterval`, and what `mprotect` lets the program
do with them (`prot`), which decides whether an access faults. Every handler is one
action, as SIGIO is masked in it. A page fault has an action for the test of the
state, for each blocking request, and for each statement after it: the twin, the
notice, the state, the protection. `fetchDiff` reads the notices of a host when it
comes to it (`ReadNotices`, `turn`), so those that a handler has brought meanwhile
count. `SigioPoints` says between which statements of `segv_handler` the handler may
run; all runs have it open at all five `FaultPoints`, as in the code. `Program[h][k]` gives the operations that the program of `h` may
do after `k` barriers: take a lock, read a cell, write it back plus one, release
the lock. `memory` is a history variable with the value the latest write left.
`stuck[h]` records that a handler has faulted and does not return: it waits with
SIGIO masked, or it has interrupted `segv_handler`, where SIGSEGV is masked.

`MiNet`. A host has two activities that go through the same code, its program
(`pc[h].main`) and the SIGIO handler on top of it (`pc[h].sigio`); while the
handler runs the program stands still. `sendMsg` is cut at every access to the
queue: taking the slot at `sndTail`, filling it, numbering and appending it,
counting it, `isSendingMsg = 1`, each `sendto`, each acknowledgement or timeout,
`msgDequeue` after the right acknowledgement, `isSendingMsg = 0`. `RacePoints` and
`SigioPoints` are used as in `MiLock`; while `sendMsg` polls for an acknowledgement,
and between its count in `snd_seqs` and `msgDequeue`, the signal is open in the program
in any case and masked in a handler. Where the model joins statements of the loop (the
test of an acknowledgement and its count, `msgDequeue` and the test of `sndQueueSize`)
a handler in between does what it does before them: with `isSendingMsg` set its
`sendMsg` only appends. A datagram lies in the socket that the receiver
keeps for its sender, an acknowledgement in the socket of the other direction, and
SIGIO stays pending until it is delivered; one delivery reads one datagram of each
peer that has one (`Readable`), in ascending order of the peers (`InOrder`), as the
loop in `sigio_handler` does. The network loses at most `MaxLoss`
datagrams and `MaxAckLoss` acknowledgements. Time is not counted: a timeout may
strike whenever no acknowledgement is under way (`UnderWay`), and `MaxLate` times
while one is. None is under way from a host that is not going to take SIGIO: its
handler polls for a host whose handler polls, and so on in a circle, or up to a host
that crashed (`Jammed`). The fourteen commands are grouped by what their handlers send:
nothing (TEST), an answer at once (FETCH), an answer now or when a release comes
(ACQ, RLS), and answers, which end a wait (GRANT). `++` on a counter is one step.
A NULL from a full queue is written to by its caller: the host is then `crashed`.

`MiStart`. The host file is a sequence of lines, a line a sequence of segments.
`readSegFromStr` is an operator that says how far the parser's loop comes and what
it returns; `ReadLine`, `FindMyself`, `StartNode` and `AllStarted` are the steps of
`mi_init` at each node, and `Alloc` is a call of `mi_alloc`, with the width of int
and of pointers as parameters. `ssh` is external: it starts the program at the
host as the user it is given, and at none when the name is empty. A file is
assumed to have no more lines than `hosts[]` and to name each user once.

`MiPack` extends `MiStart`: a node that is up makes a transfer of write notices to
one host (`grantWNI`, `sendEnterBarrierInfo`) or to all others in turn
(`returnAllBarrierInfo`). A transfer is given by the number of notices of each
interval; each step packs one packet, and sends the message when it has no room
for another. `MiMem` sends the same notices in one message. `SystemSpec` lets
start-up, allocation and the transfer go on in any order, as different nodes do;
the theorems are about it. `MCMiPack` adds one bound for TLC: the transfer begins
when all nodes that were started are up and have made their calls (`Ready`), since
the transfer reads nothing of the others but the number of hosts.

`MCMiLock`, `MCMiBarrier`, `MCMiMem`, `MCMiNet` and `MCMiPack` hold the instances and programs, and an
action `Ended` that lets a run of a bounded program stop in its last state, so
that TLC's deadlock check stays on for everything before it.

`MiLockExclusion` and `MiLockQueue` (on top of it), `MiBarrierProofs`, `MiNetProofs`,
`MiPackProofs` (start-up and allocation as well), and `MiMemLemmas`, `MiMemProofs`,
`MiMemOrder` (each on top of the one before; diffs and timestamps are in the first)
hold the theorems.

Operators whose comment begins with `Mutant:` stand before the definition they
alter. Each is a plausible slip in the code; with it in place of the definition,
the property it is listed with in `PROJECT.json` is violated. No run uses them.

## 3. Runs that pass

| Run | Instance | What it shows |
|---|---|---|
| `LockMasked` | 3 hosts, 2 locks, everybody uses everything, race points masked | What the code would guarantee with its windows closed, the manager's own path included: also the list as a queue within its bound, the source of the notices, the missing `else` after the manager's wait, and that a grant on its way names the owner. |
| `LockLive` | 3 hosts, 1 lock, fair; the stores of `graspLock` and `freeLock` one by one, SIGIO open in five of their windows (`QuietPoints`) and masked in the rest | Whoever waits for the lock gets it: these windows overwrite no owner and lose no waiter. |
| `BarrierMasked` | 3 hosts, 2 barriers, up to 1 interval per host in between, masked, fair | `BarrierService` implemented, agreement on the interval, timestamps advance, every host leaves. |
| `MemTest` | 2 hosts, 2 operations, 2 barriers, SIGIO open inside `segv_handler` | The program of `tests/mem-test-host1.c` and `mem-test-host2.c` for every interleaving: reads are current, every write in one diff, twins, timestamps. |
| `MemShared` | 3 hosts, 2 pages of 2 cells, SIGIO open inside `segv_handler` | A page written under one lock by three hosts and a page written by its home, all read after a barrier without a lock: notices of a third host are passed on, pages come from the latest writer, and every request is answered. |
| `NetTest` | 2 hosts, 2 slots, 2 attempts, SIGIO open everywhere; one datagram and one acknowledgement lost, one early timeout; fair | The exchange of `tests/net-test-host1.c` and `net-test-host2.c`, three messages one way and one the other: what an acknowledgement ends was received, `Channel` is implemented, and all calls return. |
| `NetAsk` | 3 hosts, 3 slots, 2 attempts, race points masked, nothing lost; fair | Handlers answer each other: a lock is handed on while two hosts fetch pages from each other. No slot is overwritten, the queue is drained and never full, every question gets its own answer, nothing is dropped, and `Channel` is implemented without repetition. |
| `StartAndPack` | 1 to 3 hosts, 5 host files, 51 sequences of calls; pages of 4 bytes, 6 pages, ints of 8 bits; transfers of up to 19 intervals with the code's own message and packet sizes | The parser, the ids, the agreement on pages, `mi_alloc` at the limits of memory and of int; then one transfer: notices arrive once, in order, with one timestamp, in messages that fit. |

Bounds. Three hosts are the fewest with a manager, a holder and a waiter that are
all different. Two locks let a host hold one while it waits for another.
Lock runs have no bound on the number of calls. Two barriers in a row are what
the barrier needs to go wrong, since the state of one must not leak into the
next. In `MiMem`, `MaxOps` and `MaxBarrier` bound the program; `BYTE = 4` makes
the counter wrap within a run. `MAX_HOST_NUM` equals `hostnum`, so that a list
that grows by one place too many leaves the array.

In `MiNet` two attempts are the fewest with a retry; with one loss of each kind a
message can be sent twice, acknowledged twice, and given up. Two slots make the
queue of the network test wrap around, and `MAX_QUEUE_SIZE` equals the number of
hosts, as in `net.h`. `MCMiPack` has transfers of 8, 9 and 10 packets (nine fill a
message), 18 and 19 (two messages), intervals of 1024, 1025 and 2049 notices
(`MAX_WN_NUM` is 1024) and intervals without notices. It leaves out the transfers
for which the code is known to be wrong: grants of more than nine packets
(`mem.c:361` appends without a test and writes past the message) and exits with
more than `MAX_WN_NUM` notices in an interval (`mem.c:1089` addresses the
continuation to host 0); with them `TypeOK` and `NoticesArrive` fail. `SegmentsFound`
leaves out the index just past the last segment, where `index > 0` (`init.c:190`)
returns the last segment instead of an error, so that a line with an address only
gives the address as user name.

## 4. Fairness

`Main(h)`, a step of the thread inside a library call, is weakly fair: the
operating system runs every process. `Dispatch` is strongly fair where SIGIO may
be masked: a pending signal is delivered as soon as it is unmasked, however
often it is masked again. Unlocking is strongly fair in `MiLock` and entering the next
barrier weakly fair in `MiBarrier`: the programs are assumed to release their locks and to go on to
their barriers. In `MiNet`, what runs at a host (`Step`) is weakly fair, and the
delivery of a pending SIGIO strongly fair, as it stays pending while it is masked. Asking for a lock is not fair. `MiMem` has no liveness property;
`WaitersAnswered` states as an invariant that whoever waits has a request or an
answer on its way.

## 5. Runs that show a disagreement

One for each protocol. Each checks one property which states what a comment or a
test of the repository says.

| Run | What happens |
|---|---|
| `LockGrantRace` | `graspLock` in the manager's own `mi_lock` tests FREE and takes the lock two statements later; the handler grants it in between. Two hosts have the lock (`syn.c:307`). |
| `BarrierEarlyExit` | A host comes back to the next barrier before the flags of the first are reset, and is let out of it at once (`syn.c:428`). |
| `MemTurns` | A write in the interval that a barrier opened has the timestamp with which another host enters the next barrier, so its notice is never sent, and that host reads an old value (`mem.c:1064`). |
| `NetMutual` | Host 0's handler grants a lock to host 1 while host 1's handler grants a page to host 0. Both poll for an acknowledgement with SIGIO masked, and only the SIGIO handler acknowledges: both send `MAX_RETRY_NUM` times, drop the message and return 0, although nothing was lost (`net.c:500`). |

Other constants show more of the same. In `MiLock`, with 2 hosts, 1 lock and
`SigioPoints = {"setWait"}`, `LockGranted` fails under `FairSpec`: the lock is handed
to the manager's program between `graspLock`'s -3 and `waitFlag = 1`, and it spins
for ever (`syn.c:66`). With 3 hosts, 1 lock and one window open,
`LockGranted` fails under `FairSpec`, or all programs stop, for `graspPut`, `graspCount`,
`setWait`, `freeSet`, `freeOwner`, `freeClear` and `freeCount` (a request or an owner is
overwritten, or a request is listed after the lock was freed); it holds for `graspSet`,
where two hosts get the lock, and for the `QuietPoints`. With three hosts, two locks and
`RacePoints`, `WokenWithLock` fails after a double grant, because the second grant of one
lock ends the wait for another; with two hosts it holds. With `SigioPoints = {"stamp"}`, `TimestampsAdvance` fails: the
handler completes the barrier before host 0 has stored its timestamp. With
`{"setWait"}`, `BarrierReleased` fails as `LockGranted` does. In `MiMem`, with
`TurnsProgram` and 3 hosts, `WaitersAnswered` fails: a page is asked for at a host
whose copy is INVALID, the copy faults in the handler, and the handler waits for a
diff with SIGIO masked (`mem.c:406`). With `TwoLockProgram` (2 locks, 2 pages,
`MaxOps = 2`) `ReadsLatest` fails: the intervals of the two hosts are concurrent and
`grantWNI` leaves them out (`mem.c:359`). With `OwnCellProgram` it fails at the
barrier for the same reason, and with SIGIO open inside write faults
`TwinWhileWritable` fails as well: a notice that arrives between `createTwinPage`
and `state = WRITE` is overwritten (`mem.c:35`).
`TimestampsAdvance` fails with two locks, because `handleGrantWNIMsg` copies the
granter's timestamp over its own (`mem.c:827`), and `ReadsLatest` fails with one
writer and one reader under one lock: the page stays writable after it was sent
away, so the next write makes no notice (`mem.c:36`). `mi_lock` and `mi_unlock`
return an uninitialised `int` on the manager's path (`syn.c:64`, `syn.c:132`). In
`MiNet`, with `AskProgram`, `QueueDrained` fails for `SigioPoints = {"unset"}`: a
message that a handler appends after the last test of `sndQueueSize` stays in the
queue (`net.c:531`); and `SlotStaysMine` fails for `{"fill"}`: the handler uses the
slot that the program was given (`net.c:272`).

With the race points masked, 3 hosts and a program in which hosts 1 and 2 each ask
host 0 for two pages while host 0 asks host 1 for one, `QueueHasRoom` and
`WokenByAnswer` fail with `MaxAckLoss = 1`: the handler counts `recv_seqs` but
compares no datagram's number with it (`net.c:81`), so a request whose acknowledgement was
lost is answered twice. With `MaxLate = 1` instead, `AckedWasReceived` fails: a message
that is appended while an earlier one to the same host is still in the queue gets
the same number (`net.c:459`), and the second acknowledgement of the first ends the
attempts of the other.

## 6. Theorems

`MiLockExclusion` proves `TypeCorrect`, the type invariant of `MiLock`, for every
number of hosts and locks, every assignment of users and every choice of
`SigioPoints`, so also for the code as written. `TypeOK` alone is not inductive:
`FreeClear` makes the value in `result` the owner, and nothing in `TypeOK` says
that it is a host there. `PickedTyped` adds that.

It proves `Exclusion` (`MutualExclusion`) and `GrantsOwned`
(`GrantMeansOwner`) for every number of hosts and locks, under `RaceFree`: SIGIO
is masked at the race points, or no manager's program uses a lock it manages. The
second case is the code as written with SIGIO open everywhere; without `RaceFree`
the run `LockGrantRace` refutes `GrantMeansOwner`. Neither property is inductive.
Who is inside a lock depends on what is in the channels and on how far the
manager's thread has come, so the invariant follows the *right* to a lock:

- `OwnerInv(l)`: the right to `l` is in at most one place, and that place belongs
  to the host that `locks[l]` records as owner. The places are some host's
  `myLocks`, one `GRANT_LOCK` or `RLS_LOCK` in a channel (`Bears`, `AtMostOne`),
  and the manager's thread between taking or giving back the lock and returning
  or sending the grant (`Busy`). A thread that has tested the lock and not yet
  taken it (`graspSet`) finds it still FREE: this is the one conjunct a handler
  could break, and the only place where `RaceFree` is used
  (`NoGraspInterrupted`).
- `PlaceInv`: only the manager's thread is at the points of `graspLock` and
  `freeLock`; requests go to the manager; waiters, requesters and holders are
  users of the lock. It makes the busy thread unique, and it is what turns the
  second case of `RaceFree` into "no thread gets there".

The lemmas `SentTokens`, `TakenTokens` and `GrantTokens` say what a message adds
to or takes from the rights in the channels; `OwnerFrame` and its two special
cases dispose of the steps that move no right to `l`, and `InHand`, `InNet`,
`InThread`, `InNoPlace` of the others by the place where the right ends up.

`MiLockQueue` proves the other safety properties of `MiLock` under the same
assumption, and that it implements `LockService`. It adds `WaitInv` to the
invariant of `MiLockExclusion`:

- `RequestInv`: a host waits for a lock if and only if its request is in exactly one
  of four places: an `ACQ_LOCK`, the `waitingList`, the manager's thread that has
  picked it, a `GRANT_LOCK`. A host may ask again while the manager still records
  it as owner; then its `RLS_LOCK` is in the channel before the `ACQ_LOCK`
  (`AfterRelease`), and `handleAcquireMsg` never lists the owner. From this follow
  `Remembered` (`WaiterRemembered`), and
- `QueueInv`: the list of a lock holds different hosts, none of them the owner, and
  nothing behind its count except between `graspLock`'s two statements. A host that
  is about to be listed is not in the list, so there is room for it by counting
  (`hostnum <= MAX_HOST_NUM`): `QueueSound` (`WaitingListIsQueue`), although
  `graspLock` does not test the bound.
- `RightInv`, the other half of `OwnerInv`: the right to a lock that has an owner is
  somewhere. `LoopInv`: `waitFlag` is 0 in the loop only after the grant of the
  very lock the host waits for: `WakeHasLock` (`WokenWithLock`).
- `WokenKnows` and `GrantsKnow`: the last releaser told by a grant on its way, or to a
  woken host, is the one in `locks[l]`. It cannot change meanwhile, as only who has
  the right can release: `NoticesCurrent` (`NoticesFromLastReleaser`) and
  `ManagerFetches` (`WokenManagerFetches`).

`ServiceImplemented` (`ImplementsLockService`) takes `holder` and `last` of
`LockService` from the state as the run does. `Shown` says that the host that is
inside a lock, and the one that releases it, are unique, so that the mapping does
not choose; a step either leaves both variables (`Quiet`) or is one `Acquire`,
`Release` or `Forget`.

`MiBarrierProofs`, for every number of hosts and rounds. `TypeCorrect` is proved of
the code as written. The other four need `Masked`, that SIGIO is not open inside
`returnAllBarrierInfo` and between the flags and the timestamps at host 0: without
it the run `BarrierEarlyExit` refutes `ExitMeansAllEntered`. `Agreement`
(`BarrierAgreement`), `Advance` (`TimestampsAdvance`), `ExitsAfterAll`
(`ExitMeansAllEntered`) and `Implements` (every step is a step of
`BarrierService` or a stutter) follow from one inductive invariant, `BarrierInv`.
It says where the entry and the exit of each host in the current round are: still
to be called, in the channel to host 0, recorded in `barrierFlags`, in the channel
back, or done; that nobody is more than one round ahead; and that a timestamp in a
channel or in `barrierTimestamps` is the one its host stopped with. None of the
four is inductive, since none mentions the channels.

`MiNetProofs`, for every number of hosts and messages, every queue size and any
losses and timeouts. `TypeCorrect` is proved of the code as written: sndQueue's
indices and count stay in their bounds although program and handler update them at
any two points. It needs `NetInv`: at most one of a host's two activities is in
the loop of `sendMsg`, and it has something to send there. `Drained`
(`QueueDrained`), `SlotKept` (`SlotStaysMine`) and `ProgramsRun` (no program writes
to a NULL slot) need `Masked`, that the race points are masked, and follow from
`MaskInv`: outside `sendMsg` the queue of a host is empty and nobody is sending
(`Quiet`), and a slot that was handed out is the one at `sndTail` (`Mine`).

`AcksAreOfReceived` (`AckedWasReceived`) has three conditions: `Masked`, `MaxLate = 0`, and
`SentMeansAcked` in the states it speaks of, so that nothing has been given up
yet. `NetTest` shows the property for its two programs without the first two. The
second is needed in general: a late timeout leaves an acknowledgement behind that can
end the attempts of another message with the same number (section 5). The first is
what the proof uses, for the order of the queue; no counterexample without it is
known. Datagrams and acknowledgements may be lost at will. Three invariants carry it:

- `RingInv`: the distance from `sndHead` to `sndTail` is the number of messages, and
  those in between are the host's own, to some host. It is why the message being sent
  stays the same while a thread polls (`TopsKept`).
- `RecvInv`: whoever answers has dispatched the message he answers, so that a message
  taken from a socket is never lost again (`GotGrows`).
- `WireInv`: a socket holds a single acknowledgement, that of the message its owner
  polls for, which the receiver has; and a datagram not yet taken is a single copy of
  the message that its sender polls for, unless the receiver is in a circle of hosts
  that wait for each other (`Jam`). There copies pile up, but nobody can take one
  before somebody gives up (`JamKept`), and then `SentMeansAcked` is false.

`MiPackProofs`, first about `MiStart`, for every host file that fits `hosts[]`, names each user once and
names a user for host 0 (`FilesAssumption`), every sequence of int arguments of
`mi_alloc`, and an address space in which the shared memory and one int do not
reach the end of the pointers (`WidthAssumption`). `KnowThemselves`, `Agree`, `Sound`,
`Segmented` and `StartTypeCorrect` follow from `StartInv`: what a node has read is a
prefix of the file; its `pageArray` has at every place the page that the number of
hosts alone determines (`PageAt`); and each region is what `mi_alloc` had to return
for its argument after the regions before it (`Returned`, `NextAt`), so that two
nodes that made the same calls have the same regions.

Then about `MiPack`, for every number of hosts, intervals and notices and every size of
packets and messages. `Stamped` (`StampedOnce`) and `Arrive` (`NoticesArrive`) are
stated under two conditions. `ShortExits`: an exit has at most `MAX_WN_NUM` notices in
an interval; a longer one sends a continued message to host 0 (section 3), which then
has notices without a timestamp. `GrantsFit`: what `grantWNI` grants fits one message;
more runs over the array, which is undefined in the code, while the model keeps it. A transfer is a run of packets that is
cut into messages, and the receiver sees it from the other end, so neither property
is inductive: `PackInv` ties what a host has taken, the messages on their way to it
and the message being filled together by their ends (`FirstLinked`, `WireLinked`,
`TurnSound`), the last of them to the next notice to pack (`CursorAfter`), and says
of the hosts that have had their turn that nothing is left (`DoneSound`), of the
others that nothing was sent (`Untouched`). `PackTypeCorrect` (`TypeOK`: no message
grows past its array) has the same conditions and needs `RoomInv` besides.

`MiMemLemmas` proves what the handlers rely on in the pure parts of `mem.c`, for
every page size, byte width and number of hosts. `DiffRestores`: a diff applied to
the twin gives back the page. `DiffsCommute`: the order of two diffs does not
matter, which `fetchDiff` needs, as it applies them host by host and newest first.
`DiffLeavesAlone`: a diff does not touch a byte that its writer did not change.
`AfterIsStrictOrder`: timestamps are strictly and partially ordered, and
`addNewInterval` opens a later one.

The theorems about `MiMem` are for every number of hosts, pages, locks and cells,
every width of a byte (`CellAssumption`, `BoundAssumption`: there is a cell, and the
bounds are numbers) and every program, with SIGIO open wherever `SigioPoints` says.
`MiMemProofs` proves `TypeCorrect` (`TypeOK`), `TwinsCorrect` (`TwinWhileWritable`),
`WritesCorrect` (`WrittenOnce`) and `AnswersCorrect` (`WaitersAnswered`, as long as no
handler is itself waiting for a diff) of all behaviours of `Spec` with two properties
that the code does not guarantee by itself:

- `[][Undisturbed]_vars`: no handler changes a page, or its notices, while the program
  is at one of the `FaultPoints` on that page. Where one does, a notice is overwritten and
  `TwinWhileWritable` fails (section 5). In the programs of `MemTest` and `MemShared`
  it never happens although SIGIO is open there, and with SIGIO masked
  (`SigioPoints = {}`) it cannot happen: `MaskedUndisturbed`.
- `TimestampsAdvance`. With two locks it fails (section 5), and a host may then open
  an interval twice under one timestamp, so that a notice has no meaning of its own.

`MiMemOrder` proves the second from `OneLock` (`StampsAdvance`), and puts both
together: `OneLockCorrect` has `Undisturbed` as its only hypothesis on the behaviour,
`MaskedCorrect` has none.

None of the properties is inductive. `MemInv` is, and its parts say why:

- `Types`: also of the messages, since a handler stores what a message brings.
- `OneAtATime`: a host has at most one message under way, and it is the request, or the
  answer, that its thread waits for, about the page its thread is at (`Expected`). So no
  answer comes to a thread that has gone on.
- `OwnNewest` and `NoneAhead`: the newest interval in a host's own list is the current one,
  and nobody has, and no message tells of, an interval of a host that is after the
  host's current one. So a host is never told of its own intervals as news, and a
  packet never opens a list that its host has not reached.
- `Twins`: twins, page states and the diffs of a host's own notices agree, page by
  page, with a case for each point inside a write fault, where `TwinWhileWritable` says
  nothing. `NotWriting`: a page whose content or diffs are awaited is not writable, so
  that a grant does not overwrite a change without a diff.
- `Protected`: the program may write only a page that is in state `WRITE`, and read only
  one that is there, but for the page that is on its way through `segv_handler`.

For `WrittenOnce` the step lemmas say of each action what it adds to what its host
wrote: nothing where a change moves from page and twin into a diff (a difference taken
modulo the width of a byte, hence `ResiduePlus` and `ModShift`), one in `Access`, where
`memory` gets one more as well.

For `WaitersAnswered`, `Backed` says that whatever anyone knows of a write notice, its
writer has it: notices and intervals in all lists, packets in messages, requests sent
and requests still to be sent; and a host maps the pages that it wrote and those it is the home of.
No step takes a notice or a page from a host (`Retained`), so `grantPage` and
`grantDiff` never come to the `return` without an answer. That a handler never waits
itself is not proved: `TurnsProgram` refutes it.

For `TimestampsAdvance`, `Order` says that there is one host in front: the one inside
the lock, or its last releaser, has seen every interval that any host has seen. A
request for notices goes to that host, its answer carries a timestamp not before the
asker's, and so does the timestamp with which a barrier is left.

What the handlers compute by folds (packets joined, packets incorporated one after the
other, sums) is written as recursive functions. The library's induction theorems cannot
be instantiated here, but induction over a set of numbers can be proved from the order
of Nat (`InductiveSet`); `Recursion` gets from it that such a function satisfies its
equation, `ValuesStay` that a property is carried along, and `PacketsAre`,
`MissingDiffsAre`, `IncorporatedAll`, `SumSteps`, `PageSourceIs` are what follows for
the folds of `mem.c`.

## 7. Not modelled, and abstractions

- `MiLock`, `MiBarrier`, `MiMem` and `MiPack` assume of messages that each arrives
  once, and in order from each sender. `NetAsk` shows this of `net.c` when nothing
  is lost, no timeout is early and the race points are masked; with losses it
  implements the weaker `Channel` of `NetTest`, in which a message may be handled
  twice, and none of the four modules is checked over that one.
- `MiNet` has no crash and restart of a host: the code has no provision for it.
  Creation and options of sockets, and ports, are left out. A UDP datagram is not
  reordered with a later one of the same sender, since `sendMsg` sends the next
  only after an acknowledgement or after giving up.
- `MiMem` takes `createTwinPage` and `createWriteNotice` as one step each.
- The pages of `MiStart` have no protection bits; those are in `MiMem` as states.
- Timestamps have `MAX_HOST_NUM` components in C; those past `hostnum` are
  copied along with the interval they belong to, play no part in its order, and
  are left out.
- `util.c`: the clock. `ssh` and the text of the command it is given.
- Model-checked only: liveness (`LockGranted`, `BarrierReleased`, `ProgramsEnd`), which
  TLAPS does not reach; of `MiMem` `ReadsLatest`, which is false for programs with two
  locks, with writes in the interval a barrier opened, or with a page that stays
  writable after it was sent away (section 5), so that a theorem would be about a
  program rather than about the code; and of `MiNet` `QueueHasRoom`, `WokenByAnswer`,
  `SentMeansAcked` and `ImplementsChannel`, which depend on the programs, the losses and
  the timeouts together, and `AckedWasReceived` where a timeout is late or SIGIO open.

## 8. Plan

Proofs left: of `MiMem` `ReadsLatest` for a class of programs that can be stated
without naming their steps. `QueueHasRoom`
and `WokenByAnswer` of `MiNet` are false for some programs and losses
(section 5), so a theorem about them would need a condition on both; they stay
with the runs, and so does `ImplementsChannel`.
