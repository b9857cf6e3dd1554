# xpute, modelled

xpute runs a program, the **guest**, beside a **host**, over one memory they
share. The host gives the guest turns; everything else crosses as frames in two
rings, as records in streams, or as bytes one side wrote where the other looks.
This directory models that system in TLA+: the boundary between the two sides,
the components on either side of it, and the data structures and formats both
are built from. What is written here is translated from the code, checked by
TLC on small instances, and, where it matters most, proved by TLAPS for every
value of the constants.

`../src` is the code. Line numbers are in `PROJECT.json` (`map`): every
definition that stands for code names the lines it stands for.

The guest exists twice, in Rust (`rust/`) and in C++ (`cpp/xpute/`), mirrored
nearly line for line, and the C++ once more as one header and one source
(`cpp/amalgamation/`), concatenated by a script. The modules of the guest and of
the kit translate the C++ twin, and the map names either its file or the same
text in the amalgamation; `Thread`, `Answers` and `Surface`, the native host,
translate the Rust, and `Commands` sets it against the C++; `Doorbell`, `Strobe`
and the host's ends in `Ring`, `Door`, `Records`, `Files` and `Encoder`
translate the TypeScript.

## The system

### Components

| Component | Where | State | Operations | What makes it correct | Here |
| --- | --- | --- | --- | --- | --- |
| Frame rings | `guest/ipc/ring`, `ts/host/src/ipc/ring.ts` | head, tail, frame words, payload slots | push, push in place, begin a writer, peek, advance | a bounded queue over wrapped positions; a frame being read is not written | `Ring`, `Fifo` |
| Door | `guest/ipc/door` | the two rings, the reserve | drain, post, raise, pending | each submission applied once, in order; replies exactly where owed; a drain never overruns the completion ring | `Door` |
| Doorbell | `ts/host/src/ipc/doorbell.ts` | the waiting call, the listeners, reading, trapped | writer, send, cmd, call, listen, ring | it keeps the contract the door relies on; a call takes its own reply and returns | `Doorbell` |
| Strobe, policies | `ts/host/src/sched/` | asked, timer, running, a policy's measures | start, stop, request, wake, turn | a turn asked for is given; the earliest wake is kept | `Strobe` |
| Native guest thread | `rust/host/src/native/thread.rs` | three channels under one lock, ANSWER, two thread-locals | start, run, while_idle, hostcall, answer_with | one side runs at a time; a lent closure stands; every call ends | `Thread` |
| Handle table | `guest/abi/handle` | slots, generations, free list, epoch | insert, get, remove, begin, rollback, each | a stale handle names nothing; a rollback gives back what its epoch took | `Handle`, `Names` |
| Record stream | `guest/ipc/stream`, `ts/host/src/ipc/stream.ts` | length, published end, a transaction's mark | begin, call, try_call, commit, publish, past | a transaction is whole or absent; each record is run once | `Records`, `Log` |
| Hostcalls, files | `guest/ipc/sys`, `guest/ipc/file`, `ts/host/src/ipc/sys.ts` | descriptors, held bytes, the host's open files | openat, read, write, close, abort, answers | an answer reaches the open that asked for it, or no one | `Files`, `Records` |
| GPU encoding | `cpp/xpute/gpu/encode`, `ts/gpu/src/host.ts` | handles, live counts, the stream; the host's objects | begin, make, destroy, end, submit, commit, fall, run | the host knows every object it is told of, and keeps none the guest has let go; a record is read as it was written | `Encoder`, `Commands` |
| Edge, Notify, tasks | `guest/sched/edge`, `task` | parked frames, the ask, the wake, the notice | rise, fall, park, next, spawn, await, notify | no wake-up is lost, none comes twice | `Edge` |
| Tick, Pass | `guest/sched/tick`, `pass` | the registered steps, the budget, the rows of times | on_tick, off_tick, run, a pass's item | each step once a phase whatever unregisters; each phase's share kept for it | `Tick` |
| GPU host, native | `rust/gpu/src/host` | objects, pending tickets, surfaces, frames | run, poll, admit, present, bind, unbind, configure | a ticket's DONE is its own; a late bind does not take a newer slot | `Answers`, `Surface`, `Commands` |
| Buddy, slab | `kit/alloc` | split bits, free lists, runs | malloc, free; alloc, dealloc | live blocks are apart, free memory is found again | `BuddyTree`, `Buddy`, `Slab`, `SlabHalf` |
| Collections | `kit/collection` | an arena's, a deque's, a heap's, a list's slots | theirs | each holds what was put in it | `Collections` |
| Wire formats | `kit/wire` | none | write, encode, read | what is read is what was written, and no read leaves its bytes | `Packet`, `Tlv` |
| Codecs | `kit/codec` | none | hex, base64url, UTF-8, JSON | one text a value, exactly the grammar | `Encoding`, `Json` |
| Mount | `ts/host/src/host.ts` | the components above, composed | mount, send | records are run after the turn that left them | in `Files`, `Doorbell` |
| The rest | Toc, guest memory, wasm glue, native allocator, status, math, spec tool, examples | | | | not modelled |

### How they interact

A **turn** is one call, `run(quota)`. On its rising edge the guest's door drains
the submission ring, answering on the completion ring; then the program runs:
its tick walks its steps, its tasks resume; the falling edge returns what it asks
for next: at once, later, or nothing. What the guest wants of the host during
the turn it leaves as records in streams, naming its objects by handles, and the
host runs them when the turn has returned. The host never runs while the guest
does. Around the turn, the doorbell writes submissions, rings, reads the
completion ring dry, hands replies to calls and events to listeners, and tells
the strobe of the wake, which asks its policy for the next moment. What the host
cannot answer at once, an open, a buffer's mapping, a decoded image, it answers
turns later, as a submission or in a word the guest watches. In the native host
the guest has its own thread: a caller lends it a closure and waits, and answers
the hostcalls the guest makes meanwhile.

### What is hard here

- **Ordering over turns.** A drain stops when the completion ring might not hold
  what one more command leaves; the rest is applied by later turns, possibly
  rung by someone else for something else.
- **Waiting by running the other side.** A send or a call that waits does so by
  ringing turns, inside which replies, events and wakes for others arrive.
- **Exceptions midway.** A guest traps in a turn; a listener throws in the
  reading; a record throws in the host's run of them; a closure panics on
  either thread.
- **Transactions that fail halfway**, over a table and a stream at once.
- **Positions, ids and generations that wrap**, and reserves that are exact.
- **Late answers** to descriptors, tickets and surfaces since reused or closed.
- **Lists changed while they are walked**, by steps that unregister each other.
- **Lengths another side wrote**, that sum past their width.

The list, line by line, is `PROJECT.json` `hazards`.

## The modules

| Module | Models | Kind |
| --- | --- | --- |
| `Fifo` | what a ring promises | abstract specification |
| `Ring` | one ring in memory: words, slots, positions | refines `Fifo` |
| `Door` | the guest's end, with any host that keeps the contract | state machine |
| `Doorbell` | the host's end, composed with `Door` (EXTENDS) | refines `Door` |
| `Strobe` | when turns are rung: moments, the timer, the guest's wakes | state machine |
| `Thread` | the native handoff | state machine |
| `Names`, `Log` | what a handle table, and a record stream, promise | abstract specifications |
| `Handle`, `Records` | the table's slots and free list; the stream's words | refine `Names`, `Log` |
| `Encoder` | the guest's GPU calls and the host's objects, over `Names` and `Log` | composition |
| `Commands` | the words of a GPU record, as written and as read | algorithms |
| `Files` | both ends of the guest's files | state machine |
| `Edge`, `Tick` | the guest's tasks and its own scheduler | state machines |
| `Answers`, `Surface` | what a native device answers late; windows and frames | state machines |
| `BuddyTree` | the buddy tree, each operation a function of it | operators |
| `Buddy`, `Slab`, `SlabHalf` | pages alone, the allocator over pages (each EXTENDS `BuddyTree`), and its requests above half a page (EXTENDS `Slab`) | state machines |
| `Collections` | arena, deque, heap and list beside what they stand for | state machine |
| `Packet`, `Tlv`, `Encoding`, `Json` | formats and codecs, on an input that grows a part at a time | algorithms |
| `MCDoor`, `MCDoorbell`, `MCThread` | constants and bounds for TLC (`Strobe` needs only its cfg) | |
| `MCGuest`, `MCKit` | the instances of the guest's parts, and of the kit's and the encoder | harnesses |
| `Elements` | lemmas on sequences, remainders and recursive functions the proofs share | proofs |
| `Doorbell_proof` (with `Door`), `Thread_proof`, `Strobe_proof`, `Ipc_proof` (`Ring`, `Files`, `Records`), `Guest_proof` (`Handle`, `Edge`, `Tick`), `Gpu_proof` (`Surface`, `Encoder`, `Answers`), `Kit_proof` (`Buddy`, `Slab`) | theorems | proofs |

Door, Doorbell, Thread and Strobe have a run each. The other parts share no
state with one another, or share it through an abstraction shown of each
(`Names`, `Log`), so one behaviour of `MCGuest` or `MCKit` is a behaviour of one
of them, chosen by `part`; the encoder is checked among the kit's parts, to keep
both runs short. `MCGuest` and `MCKit` extend the modules there are
theorems of, so that what TLC checks is the very definition that is proved; the
other properties of `MCKit`, and `CommandsRead`, gather each module's own by
name.

### Fifo and Ring

`Ring` keeps the four variables the memory holds (`head`, `tail`, `frames`,
`slots`), the slot the host's packet writer was begun over (`begun`), and the
position the consumer looks at (`view`). Positions are modulo `PosMod`, the 2^32
of the code. `producer`, chosen at the start, is one of the two: the host's, whose
writer is begun (`Begin`), filled (`Fill`) and pushed (`PushBegun`) in separate
steps with bare pushes in between, and the guest's, which fills the slot and
publishes in one call (`PushInPlace`) and may leave a refused packet's bytes
there. The guest's `push` with a packet already encoded is the same step with a
packet that fits. `ImplementsFifo` is the refinement: the frames from head to
tail, with their packets, are a bounded queue. `ViewStands` is the aliasing
property: while the consumer looks at a frame nothing writes it.

A begun writer that the tail has moved away from is refused by `pkt.start !==
start`; one the tail has moved around the whole ring from is not, and need not
be, for its slot is then the tail's again. The model compares slots, as the code
does.

The modules above `Ring` keep their rings as bounded sequences: what is shown
of `Ring` is the reason they may.

### Door

The guest is one of six places (`pc`): outside a turn, in its drain, in the
program's handler, past the drain, and two ways of being stopped. `HasRoom`,
`Settle` and `EndDrain` are `drain`; `Hand` and `Answer` split one iteration
around the program's handler, which may raise up to `MostEvents` events while
its submission is still the ring's head; `SettleOwn` is the host's own commands,
settled by the door; `Raise` past the drain is the turn's own events. `Fall`
returns 0 (`"next"`) while submissions wait, and whatever the program asks
otherwise. `Post` is `on_posted`: a full ring stops the guest (`"enospc"`).
`Trap` stops it anywhere else.

The host is any host that keeps the contract: it submits and takes completions
outside turns, and rings only once every completion was taken.

Submissions carry a number, `n`, which only the specification knows; `applied`
and `book` are histories that the properties read and no guard does.

- `AppliedInOrderOnce`: rule 4. What was applied and what waits is, together,
  everything pushed, in order, whatever turns it took.
- `ExactlyOneReply`: rule 3.
- `RoomKept`: a command running has room for every event it may still raise and
  for its reply. `DrainNeverOverruns`: so a drain never stops the guest.
- `TurnOutputFits`: what the door says of its reserve, and is not so; see
  Findings.

### Doorbell

One operation (`op`) runs at a time, each a loop around turns: `PushTask` or
`RingForRoom` for a send, a call or a writer; `RingForReply` and `EndCall` for a
call; `Return`, `ReadReply`, `ReadEvent`, `EndRead` for what every turn is
followed by. `ListenerThrows` is an exception out of the reading, from a
listener or from a call's own reader, and a listener that rings or sends, which
is refused with EBUSY, is one that throws. `RefusePacket` is a push the ring
refuses for good. `Stop` is the guest's exception reaching the host. `cmd` is a
writer, a send and a ring in turn. Of the strobe only `asked` is kept: a moment
is asked of the policy; `Strobe` is the moment given. A wake for later is a
`Request` by a timer at any time.

- `KeepsContract` is `Door!Spec` itself: on the rings, the composition behaves
  as `Door` with a host that keeps the contract.
- `BoundaryHolds`: where listeners throw, the next turn is rung over frames left
  unread, and the door's guarantees hold of the whole boundary even so.
- `OwnReply`: a call takes its own submission's reply.
- `NoProtocolError`: the EPROTO of `call` never fires against this door.
- `NoWakeLost`: a wake asked by any turn, a send's and a call's included,
  reaches the strobe.
- `OperationsReturn`: a send, a call, a wait for room returns.
  `LeftoversApplied`: what a turn left is applied without another send.

### Strobe

`Doorbell` keeps only that a moment is asked; `Strobe` is the whole class, with
the turns reduced to where the host is while one runs (`pc`): the strobe's own,
one a send or a call rings between two tasks, or one inside `submit`. The policy
is any that gives each moment asked for in a task of its own (`moments` counts
what it owes), admitted or not. Time counts down: `timer` is what the event loop
has left, `timer_at` what the strobe believes, `due` (history) the soonest turn
a falling edge has asked for since the strobe's last. `Armed` is the event
loop's timer, which fires at once for a delay past its reach. A falling edge's
wait is any of `Waits`, 0 and none included. `Stop` and `Start` may come from
the program's code anywhere, a listener and `submit` included.

- `OneMoment`: a moment asked before a stop is still owed after the next start,
  and not asked twice.
- `TimerAgrees`: over the clamp, what is set is what is believed.
- `WakeKept`: no wake is lost between turns of others, a timer cleared by the
  strobe's own turn, a stop and a start, as long as no listener and no `submit`
  has thrown since the strobe's last turn (`thrown`). `WakeAlwaysKept`, without
  that, is what is said of the strobe, and is not so; see Findings.
- `TurnGiven`: what is asked is rung, with the same escape.

### Thread

Callers take the handoff (`Lock`), send a closure (`SendJob`), and receive
either the end of it or a hostcall, which they answer with whatever ANSWER held
when they read it; `while_idle` is a holder that sends nothing. The guest's
thread (`gpc`) runs one closure at a time. Panics: the closure on the guest's
thread (`Panic`, then `Exit` as its senders are dropped), a caller whose guest
is gone (`RecvGone`, the failed `SendJob`), a nested call, which is refused on
the thread that holds the handoff (`Nest`) and aborts the process out of an
answer, an `extern "C"` function. Each of the channels holds one.

- `OneSideRuns`: rules 2 and 8, of threads.
- `LentStands`: the `'static` transmute is sound: no unwinding leaves a closure
  with the guest's thread after its caller's frame is gone.
- `NoSelfWait`, `OwnAnswer`, `CallsEnd`.

### Handle and Names

`Handle` is the table as it lies: a slot's generation, its link in the free
list, and of the epoch it was taken in (`made`) what the code asks of it, free,
taken before the open transaction or since. `Rollback` stores what its walk over
the slots comes to, a recursive function (`Walk`); `Begin` opens an epoch. A generation has `GenMod` values, skips 0 and
comes round. `kept` is a handle some holder kept past its release, and how often
its slot was taken since (history).

- `ImplementsNames`: the table is a bounded set of names, and a rollback gives
  back exactly those its transaction took and still holds.
- `KeptNamesNothing`: the handle kept names nothing until its slot's generation
  has come round.
- `FreeListExact`: the free list is the slots handed out and not taken, once
  each.

### Records and Log

`Records` keeps the words of the shared range (`area`), each saying which record
it is of and which of its words, so that a reader that takes another word for a
header shows. `stream` is one of two: a program's own, with transactions
(`Begin`, `Spill`, `Commit`), or the hostcall stream, with writes whose bytes the
guest keeps (`bytesHeld`), `try_call`, records laid past the turn's and never
published (`CallNow`), and the `Abort` that is published alone. `RunRecords`
runs what END says whether the turn returned or trapped; `Reading` is the
reader's walk, a recursive function of where it has come to.

- `ImplementsLog`: what a reader walks to is a log of whole transactions.
- `WriteBytesStand`, `AbortAlone`.
- `RecordsRunOnce`: what is said of the host's reading, and is not so after a
  trap; see Findings.

### Encoder

The guest's GPU calls over `Names` and `Log`, so over whatever implements them:
an object's handle is taken and its record put together (`Make`), what a turn
lets go passes with it, and a transaction is over both. The host runs the turn's
records one at a time, a step each (`HostRun`, until `HostDone`). `named` is what
records have named to it and not let go; `host`, what it keeps by slot, falls
short of that in two ways. CURRENT for a surface no canvas is bound to puts
nothing, and what was kept at the slot stays (`IsPut`; `BindCanvas` and
`UnbindCanvas` between turns); a device that goes empties all (`DeviceGoes`). A
record that uses what is not there, or is of another kind, throws out of the
turn, which stops the guest (`Throws`, `HostThrows`). `missing` is set by a
record of an object that was never named. The native host is not this one: it
makes a frame for CURRENT always.

- `HostKnowsHeld`: no record is of an object not named to the host, and all that
  is held has been named, over dropped transactions, handles given back and slots
  taken again; while the device stands all of it but a view is kept, and a record
  throws only for a view of a surface that had no canvas.
- `HostKeepsOnlyHeld`: it keeps nothing the guest has let go, as long as no
  dropped transaction let go an object made before it (`left`);
  `DroppedLeavesNothing`, without that, is what the code says; see Findings.
- `CountsAgree`: the live counts are of the handles held.

### Commands

The words of one GPU record, for every op of the encoder: the guest writes them
from a descriptor, once to count them and once into the room reserved (`Emit`);
the native host reads them a word at a time (`HostRecord`), told nothing of what
was left out. A word is what it stands for, a field's name and which element of
its list it is of; a record's words are a shape, `Put*` and `Call*` as
`gpu/encode` writes it, `Hear*` as `host/run.rs` reads it, each translated from
its own side. A descriptor is what an op may leave out, repeat or choose among.

- `RecordsCounted`: as many words are written as were counted, the `ensure` of
  `detail::emit`.
- `ReadWhole`: whatever the descriptor left out, the host reads to the record's
  end and no further.
- `ReadsAsMade`: each field is read as what the guest put there, or as none
  where it put none, and none put there goes unread.

### Files

Both ends of the guest's files, with the turn between them (`side`): the guest
records opens, reads, closes and whole writes (`toRun`), the host runs them one
by one, and an open is answered turns later by a submission (`Settle`,
`SendAnswer`), which a full ring makes ring a turn first (`RingForRoom`).
Descriptors are numbered as they are taken. `told` and `commits` are histories.

- `HostAgrees`: between turns the host keeps only files the guest holds, and
  each whose owner was told it opened: so a read never finds none.
- `ToldOnce`, `ToldWhileHeld`: an answer that a close overtook, in the host or
  in the ring, reaches no one.
- `RunWhole`: no answer rings a turn over records still being run.
- `CommittedOnce`, `NoRecordThrows` (so long as the host refuses no write; see
  Findings).

### Edge

Tasks are chains of frames that await one another in place (`cont`); a frame is
the executor's, running, parked at the edge, or waiting on the notice. `Rise`
wakes what was parked, `Finish` hands on to the one that awaits, `Fall` answers
0, a wait, or never. The executor is the program's, and resumes in any order.
Time counts down in `wakeIn`; `soonest` and `owed` are histories.

- `HeldOnce`: every frame is held exactly once, so none is resumed twice, freed
  under another or lost.
- `ParkFits`: the list of the parked, as long as there are tasks, never
  overflows. `NoticeKept`: a notice that comes before its wait is kept.
- `FallAsksSoonest`: the falling edge asks no later than anything asked since
  the last.

### Tick

One tick walks `registry` phase by phase by index; the step that runs may
register others, take off any (`offs`, applied one after another as it ends:
`Removed`), and spend its phase's share of the budget on a pass, which stops for
its deadline or its cap.

- `EachStepOnce`, `GoneNeverRuns`: over every removal under the walk.
- `ShareHeldBack`: what the first phase takes of the share held back for the
  next is, for each of its steps, the slack and one item at most; with no slack
  and an item of the longest it may be all of that.
- `RowsApart`: times are one row for a phase and name.

### Answers and Surface

`Answers` is what a native device answers after the turn that asked: the queue's
work done, a buffer mapped, an image decoded on its own thread, and the device's
loss. A turn is in steps (`stage`): the poll comes to one pending answer at a
time and then lands one image at a time, the guest records, its records run one
by one; wgpu's threads and the decoder's step in between, and their wakes ask for
the next (`turnAsked`). The guest has one word of each kind, and a texture slot that it may
destroy and make again while an image is on its way. wgpu is external.

- `DoneIsTrue`: a word holds DONE only of the last ticket taken, and of what was
  done. `ImageInPlace`: an image lands in the texture it was asked for, or none.
- `NothingForgotten`: no ticket is dropped without the guest being told.
  `WakeFollows`: what only a poll can write has a turn asked for it.
- `LossTold` is not so; see Findings.

`Surface` is one slot's windows: the guest makes handle after handle, the
program binds and lets go late and out of order (up to `MaxLate` behind), sizes
and formats change, and frames are admitted against a count the queue takes
down.

- `NewestHolds`: the window bound is the newest handle's. `ShownAsAsked`,
  `ConfiguredSoon`, `FramesFit`.

### Buddy and Slab

The tree (`BuddyTree`) is one record and each operation a function of it, a
search or a merge a recursive function of the levels it has gone: so `Buddy` and
`Slab` are each a state machine over the same operations. `BlocksTile`: what is
given and what is free tile the root, once each (`TilesRoot`), within the range
taken (`WithinTaken`), and no two free buddies stay apart (`FullyMerged`).
`Slab` keeps each class's runs with a free slot in a list through their headers
(`PartialExact`); allocations lie apart, aligned and off the headers
(`AllocationsApart`); what is counted is what is held, and a run whose last slot
is freed goes back to the tree (`CountsHold`). The run a slot lies in is found as
the code finds it, by masking the slot's address (`RunAt`). `HeadCount` is how
many classes have a list's head: the Rust twin's heads serve every class
(`HeadsEnough`), the C++'s only those up to half a page. `MCKit` has heads
enough.

`SlabHalf` extends `Slab` with the C++'s class that has no head. The word behind
the heads is `allocs_` (`slab.hpp:178`), so `word` is at once the count of
allocations and that class's list: 0 opens a run, `push_partial` stores the run's
address over the count, the count then moves the address, and the next request
takes what it points at for a header (`TakeHalf`). As fields are then read across
one another, this class's runs are bytes at addresses (`mem`, `Load`, `Store`),
in the order the code reads and writes them, of a little-endian machine whose
memory is zero until written; past an access out of the range nothing is said.
`SlotsFindTheirRun` holds of the first such request on a fresh slab and not of
the second; with the count kept in a word of its own it holds throughout.

### Collections, formats and codecs

Each is a pure part: its state grows by one operation, byte or token at a time,
and the properties compare it with a definition stated apart from the code. A
deque and a list keep their order (`KeepsOrder`), a heap gives its least first
(`HeapHolds`), heapsort sorts every input (`SortsAll`), an arena stays within
its most (`ArenaBounds`). A packet written reads back, the writer and the
one-call encoder agree byte for byte, and no cursor over a packet cut short or
with a byte changed reads outside it (`ReadsBack`, `EncodersAgree`,
`ReadsStayWithin`). A reader of tagged values stops where the list was sealed or
cut (`StopsTruly`). Texts decode one way, `is_utf8` takes exactly what Unicode
defines, and lossy decoding is UTF-8 that keeps what already is (`BytesReadBack`,
`OneTextEach`, `Utf8Exact`, `LossyIsUtf8`). JSON is taken exactly by its grammar
(`CheckedByGrammar`, `NumbersByGrammar`), strings read as their escapes stand
for, and items and fields as they were written (`StringsDecode`,
`DocumentsRead`).

## The runs

| Run | Instance | Distinct states | Shows |
| --- | --- | --- | --- |
| `MCDoor` | 2 submissions, 4 completions, 2 events a command, 3 submissions in all, 2 ports | 278,892 | rules 3 and 4 and the reserve |
| `MCDoor_overrun` | the same | | a finding |
| `MCDoorbell` | 2 submissions, 3 completions, 1 event, 2 ports, 3 submissions, 1 call, 4 ids, listeners that throw | 2.66 million | the boundary holds; a call takes its own reply |
| `MCDoorbell_live` | 1 port, 2 calls, no listener that throws, under fairness | 92,606 | the contract, the wakes told, progress |
| `MCThread` | 3 callers, 2 calls each, 2 hostcalls, 1 answerer or none, under fairness | 275,016 | the handoff is safe, and every call ends |
| `MCStrobe` | a reach of 2 ms, waits of up to 4, under fairness | 1,902 | one moment, the timer, the wake kept, a turn asked for rung |
| `MCGuest` | the parts below | 550,907 | each part's own properties |
| – handle | 3 slots, generations mod 3 | 23,929 | |
| – records | 5 words, records of 2 and 3 | 39,763 | |
| – files | 3 descriptors, a ring of 1 | 101,587 | |
| – edge | 3 frames, room for 2 tasks, waits of up to 1 | 5,280 | |
| – tick | 2 steps at once, 3 in all, 1 removal, 2 phases, 2 ms of 3 held back | 259,604 | |
| – ring | 2 frames, 8 positions, 2 messages, 2 packets and one too long | 20,512 | |
| – answers | 2 tickets, 2 textures, 2 records a turn | 82,907 | |
| – surface | generations mod 8, handles 5 to 9, up to 2 late, latency 2 | 9,800 | |
| – commands | lists of up to 2, bytes of 0 and 5, every choice of what is left out | 7,525 | |
| `MCKit` | the parts below | 619,530 | each part's own properties |
| – encoder | 2 slots, 5 words, one op that lasts, a pass and a view | 268,173 | |
| – buddy, slab | blocks of 4 to 32 bytes over 22; classes of 1, 2 and 4, in runs of 4, 8 and 16, five allocations at once | | |
| – collections | 5 slots, 3 keys | | |
| – packet, tlv | 3 nodes, or a branch of three, in buffers of 15, 40 and 88 bytes, any byte damaged to 0, 1 or 16; 3 values | | |
| – encoding, json | 4 bytes or characters; 5 tokens, 6 number bytes, 4 string parts, nesting to 2 | | |
| `Slab_half` | the C++ slab of a wasm32 guest in its own figures (pages of 4096, eight heads), requests of 100, 3000 and 8192 bytes | | a finding |
| `Records_trap`, `Files_refused`, `Answers_lost` | as their parts of `MCGuest`; writes the host refuses | | findings |

Why these bounds are enough to be interesting. The reserve of the door is exact
on these capacities (a third completion fits, a fourth does not), so an
off-by-one in `HasRoom`, `Room` or `SqRoom` is reached. A drain that stops
halfway needs two commands of two completions and three slots; a wait for room
one submission more than the ring holds. Two callers are enough for a race on
the handoff; the third waits behind them while the second's closure panics.
Waits reach twice past the timer's, so that a wait within it, at it and past it
may each replace or be kept by another. Three slots and two values of a
generation make a free list of more than one, a slot taken twice over and a
generation that comes round; five words hold two records and refuse a third,
inside a transaction and out of it; the encoder's five hold a record that makes
and one that does not. Its two slots are alike to it and to the host, which only
compare them, so that `MCKit` takes them as a symmetry set (`SlotsAlike`). The
host runs a `submit` as it runs an `end`, so no op there makes an encoder.
A descriptor closed, one answered late and one refused need three opens, and a ring of one makes the second answer ring a
turn. Three frames are a task that awaits another beside one that parks. Two
steps and a third registered under the walk reach every removal: of itself, of
one before it, of one after. Eight positions wrap a ring of two several times
over. Two tickets are one stale and one new. Generations from 5 to 9 modulo 8
pass the 0 that is skipped, with both neighbours late. Two elements tell what is
read of one from what is read of the next, and five bytes end inside a word.
Blocks of four sizes over a range that is no power of two refuse for want of
memory and split and merge through every level, and runs of two sizes are opened
between them. A heap of five sifts past one level, and a branch of three may
want its middle child, which is passed over to find where the first ends; the
damaged byte of a packet may be any, a length's high byte among them. Lengths of
a packet do not wrap: a bound left out is met, a 32-bit sum that wraps is not.

As evidence that the bounds reach what matters, `PROJECT.json` (`mutants`) names
for each property at least one plausible bug of a definition the code has, and
every one violates its property under the run's own configuration. Those bugs
stand beside what they are of, as definitions commented "Mutant of".

The bounds are `MaxSubmissions` and `MaxCalls` in `MCDoor` and `MCDoorbell`, and
the constants each module names its bounds by. CHECK_DEADLOCK is off where a
stopped guest, a spent bound, an aborted process or, in `MCGuest` and `MCKit`, an
input that has reached its longest leaves nothing to do; for `Strobe`, which
never stops, it is on.

### Fairness

`BellFairness`: a turn and a host operation, once begun, run on (the host is one
thread and the guest's turn returns or traps), and the strobe's moment, a task
of the host's event loop, is not put off for ever (strong: other tasks disable
it while they run). Nothing makes anyone send, call, ring or listen.

`Fairness` of `Thread`: every caller that can step does, and the guest's thread
too. Its lock is not fair: `Lock` is only weakly fair for each caller, and
`CallsEnd` holds because callers make boundedly many calls. A closure that makes
hostcalls ends; `Hostcall` and `Panic` themselves are owed by no one.

`Fairness` of `Strobe`: the clock runs, a turn begun falls and is read, a timer
due comes up in the event loop however many other tasks there are, and the
policy admits a moment in the end if moments keep being given: `frame_pacing.ts`
admits once its interval has passed, `fixed_quota.ts` always. Nobody has to
request or start.

The parts in `MCGuest` and `MCKit` state no liveness: what they owe is owed by a
turn that runs to its end, which Doorbell's fairness already asks for.

## What is proved

Each theorem is for every value of the constants under the module's named
assumption. `DoorAssumption`, `DoorbellAssumption`, `ThreadAssumption` and
`StrobeAssumption` are assumed by their modules; those of the modules `MCGuest`
extends are a hypothesis of each theorem, and TLC evaluates them there on the
constants it is given. Where a run checks a component by one definition
(`BoundedQueue`, `FilesAgree`, `NamesKept` and so on), a theorem states that
definition.

**Ring.** `RingIsFifo`: the ring implements the bounded queue, `ViewsStand`: no
push writes what the consumer looks at. Everything turns on arithmetic modulo
`PosMod`: `Apart` says two positions less than `Cap` apart fall in different
slots, which needs `Cap` to divide `PosMod`, as a ring's power of two divides
2^32; `Lengths` and `Positions` say what a push and an advance make of the
length over a wrap. The inductive invariant `RingInv` adds to the types that the
length is at most `Cap` and that every waiting frame stands (`Stands`): its
packet, if it has one, is in its own slot, and no writer is begun over it. The
last is what makes it inductive: the host's writer is filled in steps of its own,
and without it a `Fill` could reach a frame already pushed. `IsBoundedQueue`
gathers these and the types as the one property the run checks.

**Door.** `TypeCorrect`, then `AppliesInOrder`, `KeepsRoom`, `NeverOverruns`,
`RepliesOnce`. Room is inductive only with the facts that a handler runs on the
head of the ring and that events are counted from the moment it was handed over;
replies need the order, for a reply is booked under the number of the head. The
one assumption of substance is that the completion ring holds a reserve
(`MostEvents + 1 <= CqCap`), which makes a drain able to start at all.

**Doorbell.** `ContractKept`: the composition implements `Door!Spec`, for
listeners that do not throw. The inductive invariant `ControlOK` says the host
reads only outside turns, that a trapped guest is a stopped one, and that
outside a reading the completion ring is dry. `BoundaryKept`: what the door
guarantees holds of the boundary whether or not listeners throw, since a frame
left unread is counted by the door's reserve. `TellsEveryWake`: where none
throws, the wake of every turn reaches the strobe.

**Calls** (in `Doorbell_proof`). `NeverGivesUp`: the EPROTO of `call` never
fires against this door, whatever listeners do. The invariant `CallOK` says that
while a call waits, its submission is on the one ring or its reply on the other
(`Coming`), and that if the submission ring was empty before the turn rung for
it (`dry`) then only the reply can be, and once that turn is read nothing is
left. Every step of the guest's is put in one lemma, `TurnMoves`: what leaves
the submission ring and asked for a reply has one on the completion ring.
`TakesOwnReply`: a call returns the reply to its own submission, under
`IdsFresh`, that no call takes an id that has come round: an id is 24 bits wide,
so it takes 2^24 calls for one to, and then it fails (see Findings). `FreshOK`
is the strengthening: no id on the rings is past
the last call's, and what carries the waiting call's tag is its own.

**Thread.** `TypeCorrect`, `NeverBothSides`, `NeverDangles`, `NeverSelfWaits` and
`AnswersOwn` for any set of callers. The inductive invariant is
`TypeOK /\ HandoffOK`: the holder is the one caller inside a call, what is in the
channels belongs to its call, and where it stands fixes where the guest's thread
may.

**Strobe.** `TypeCorrect`, `OwesOneMoment`, `KnowsItsTimer` and `KeepsTheWake`,
for every reach and every wait. `WakeKept` is not inductive: it says nothing while a
turn runs. `KeptThrough` adds that the wake is kept while someone else's turn
runs, and that in the strobe's own, whose timer is gone, nothing is due before
its falling edge.

**Files.** `EndsAgree`, `HearsOnce`, `CommitsOnce`, `RunsWhole` and `TellsHolders`,
for any number of opens and any ring; `NeverThrows`, where the host refuses no
write (`~ RefusesWrites`: where it may, `Files_refused` shows one that throws);
and `AgreeOnFiles` and `AnswersWaited`, the two that the run checks. The inductive invariant `FilesOK` follows each descriptor
over the four places it may be in at once: the guest's table, the records still
to run, the host's table and the answers on their way. `Records` says that no
descriptor is opened twice in them and that one no longer held is closed after
its open, `Singly` that no two answers are one descriptor's, `FdOK` where each
descriptor may be (a file the guest no longer holds has its close still to run;
one whose owner was told, or is about to be, that it opened is the host's while
held), and `Committed` that a commit's descriptor is gone for good. `HostAgrees`
is `FdOK` read at the moment no record is left. `NoneThrows` adds what the host
finds as it comes to each record: a read's file is open for reading, with no
close of it before, and a write is next after its own open (`Moves`).

**Records.** `RecordsLogged`: the words a turn's records lie in implement `Log`,
transactions whole or not at all, a write's bytes stand and the abort is alone,
for any range and any sizes of records. A log is a sequence and the range is only
words, so the proof is of what the words *spell*: `Spells` relates them to the
records they are of and to where each ends. That the reader's walk comes to what
is spelled is an induction from the last record back; laying a record, spilling
and committing each extend, cut or keep it (`SpellsPart`, `SpellsStill`). The
inductive invariant `RecordsInv` says in whose hands which words are spelled: the
turn's, with an open transaction begun where a record ends (`InGuest`); what END
says (`InHost`); after a trap only that an abort was left alone (`InTrap`).

**Handle.** `KeepsNames`: the table implements `Names`, its free list is exact, and
a handle kept names nothing, for any slots and any width of generation. The
invariant `HandleInv` has the free list as a sequence (`Listed`): it begins at the
head, goes on by the slots' `next`, ends at 0, and is the free slots of those
handed out, each once. A rollback puts slots on it one by one, so `Walked` follows
its walk slot by slot. `KeptFits` counts the generations since a handle's release,
past the 0 that is skipped.

**Edge.** `WakesTaskOnce`, for any frames, room and waits. A task is a chain of
frames that await one another and ends in one that awaits none. `EdgeInv` says
that the chains are apart (`Chained`), that the parked are on the list once each
(`ParkedOnce`), and that the chains' ends are no more than the list has room for
(`TasksFit`): so the one that parks, which is not on it, finds room. `SoonestKept`
is of what was asked of the turn and what the edge keeps of it.

**Tick.** `StepsRunOnceHolds`, for any steps, phases, budget and items. `TickInv`
does not follow the walk by its index, which a removal moves: `WalkKept` speaks of
the set of steps the walk has passed and of the set it has not come to, and
`TakingOffKeeps` says that a removal only takes from each. `RemovedKeeps` carries
that over all a step asked for, by induction over the recursive function that
applies them. `ShareKept` bounds the ms spent by the first phase's share and the
overruns of its steps so far (`Reach`), which a step raises by one as it begins.

**Encoder.** `KeepsPace`: `HostKeepsPace`, for any slots, kinds of object and room
of a turn. What will be named once the host has run some of the records is said
without running them: `Will`, by the last record that touches the object.
`EncoderInv` says that what is held will be named, that what a record is of is
named before it, and, for a transaction that may be dropped, the same without its
records: that what they touched and is held is its own, and that nothing else
will be named that is not held. `KeepsNamed` sets what is kept beside what is
named: while the device stands, they differ only at a view, so that the record
that throws is of one (`StoppedFor`). `CountsOK` keeps the counts one element of a
finite set at a time.

**Answers.** `LandsTrue`: `AnswersLand`, for any number of tickets, textures and
records. `AnswersInv` says that each ask is at one place, in the turn's records or
in the host's list of its kind (`Distinct`, `Waits`); that the word naming it, if
one still does, is of its kind and not done; and that jobs and their answers are
numbered below `next`, so that what a decoder answers of before a loss is of no
decode since.

**Surface.** `KeepsTheNewest`, `ShowsAsAsked`, `ConfiguresSoon`, `AdmitsWithin`,
and `KeepsWindows`, these together, which the run checks. The first is an order told from numbers that wrap: generations are modulo
`GenerationMod` and pass over 0, and the code compares two of them by the half of the
range their difference falls in. `GenerationsTell` says that this tells the newer
of two handles no further apart than `MaxLate` or `MaxAhead`, where twice either,
with the 0 passed over, fits in the range. The inductive invariant `SurfaceInv`
has three parts: `HandlesOK`, that the generation the window remembers is that of
the newest handle it was told of, which is near the newest made; `WindowOK`, that
what is bound and not stale is as was asked, and that what is not has its
configuring on the way; `FramesOK`, that only a turn admits a frame and the
frames counted are within the latency.

**Buddy.** `BuddyBlocksTile`: `BlocksTile`, for any least and largest block, any
range and any requests, under `BuddyAssumption` (a free block has room for its
links, the range for one) and `RequestsAssumption`. The induction is over the
tree, not over its lists: `TreeOK` says, of a tree and of the blocks in use, that
each list has a block once, that the blocks listed and those in use are apart,
aligned and between them the whole root, that no two free ones are buddies, and
that the split bits are *exactly* the parents one of whose two halves holds
something in use and the other nothing. The last is what the invariant checked
does not say and every step needs: `malloc` decides by it whether the root is
free, `free` whether to merge. A search and a merge are followed level by level:
midway the tree is not yet right, so each level has its own invariant (`Found`
for what a search has come to, and the node carried up for a merge), by induction
with `UpTo`. What is asked of powers of two is in `Powers`, `Sizes` and
`Quotient`. `AllocatedOK` and `FreedOK` say what the two operations make of a
tree that is right, whoever calls them.

**Slab.** `SlabRunsAgree`: `RunsAgree`, for any range, sizes, alignments and
requests, under `BuddyAssumption`, `SlabAssumption` and `HeadsEnough`. The last
is true of the Rust twin, and of the C++ where nobody asks for more than half a
page and less than one; what becomes of one that does is `Slab_half`'s. A run's
header does not hold its class, so the inductive invariant `SlabInv` says that
there is a class for each run, `cls`, of which `Sound` holds: the tree is right
(`TreeOK`) with the runs and the blocks handed out whole as its blocks in use;
each slot of a run past its header is free or handed out, and what is handed out
is what the header counts (`RunFill`); each class's list is a chain, by `prev`
and `next`, of its runs with a slot free (`Lists`, `Chain`); and the counts are
sums over the runs (`RunSum`, `SlotSum`). Between the steps of one call a run
that has just been filled is still on its list, so `Sound` takes the set listed
as a parameter, and `Settled` says that at the call's end it is the runs with a
slot free and that no run is empty. There is a lemma for each step (a slot
taken, given back, a run pushed, dropped, made, given up), and `TakeSettles`,
`OpenSettles` and `GiveSettles` compose them into the operations. What the tree
does is `AllocatedOK` and `FreedOK`, as they stand; what walking the links gives
is the chain (`WalkListed`), which is what the property checked sees.

`Elements` holds the lemmas on sequences and on remainders that these share, and
two on recursion: `Recursion`, that a function defined by steps from 0 to some n
exists, and `UpTo`, induction over 0 .. n stated of a set, since the provers
cannot be given an induction theorem's operator.

Only model-checked, and why. Everything under fairness (`OperationsReturn`,
`LeftoversApplied`, `CallsEnd`, `TurnGiven`): the provers have no rule for it.
`CommandsRead`, `HoldWhatWasPut`, `FormatsRead`, `TextsDecode` and `JsonRead`:
they are of what a recursive definition computes from its input, for every input,
an induction over data that the provers cannot be given, and these modules'
operators are RECURSIVE, which the solver is not reached from.

## Findings

Those with a run:

1. **The reserve does not cover the turn's own events** (`MCDoor_overrun`). The
   reserve is checked before each command, never for what is raised after the
   drain. The last command may fill the completion ring, and the turn's own
   event then stops the guest with ENOSPC, though `door.rs` says the reserve is
   for "its events, or the turn's after the drain".
2. **A need above half a page and below a page has no list's head**
   (`Slab_half`). The C++ `class_for` (`slab.hpp:135`) rounds it up to class
   `CLASS_CNT`, one past the last of `partial_` (`slab.hpp:177`), and `alloc` takes
   the word behind it, the count of allocations, for the list. The first such
   request on a fresh slab is sound, as the count is 0 and a run is opened; the
   count then moves the run's address by one, and the following request reads the
   header a byte off and hands out a slot that finds no run. The Rust twin has
   heads enough.
3. **A trap before the publish runs the last turn's records again**
   (`Records_trap`). END is written by the guest as its turn ends, nothing clears
   it, and the host runs what it says in a `finally`.
4. **A write refused at its open throws** (`Files_refused`). `openat` returns
   before the list of what is written is made; the WRITE of the same turn finds
   none, throws EBADF out of the turn's `finally` and stops the guest, which was
   to be told EROFS or ENOENT.
5. **A device lost before the guest asks for its block is told nobody**
   (`Answers_lost`). The poll takes the loss whether or not there is a block to
   write it to.

Stated as definitions that no run checks, since each is a near relation of what
a run already shows with its exception:

- A listener that throws leaves the ring unread, and the next turn is rung over
  what was left (`ReadBeforeRing` in `Doorbell`). `MCDoorbell` shows what still
  holds: nothing overruns, and nothing is lost.
- A listener, or a `submit`, that throws loses the wake (`WakeAlwaysKept` in
  `Strobe`): the strobe is told only after the reading, and its own turn has
  cleared the timer, though `policy.ts` says the strobe keeps it.
- A dropped GPU transaction that let go an object made before it leaves that
  object on the host, its handle given back and its record dropped
  (`DroppedLeavesNothing` in `Encoder`), though `encode.hpp` says one dropped
  with its transaction left nothing there.
- A refused block may be served without a release in between (`RefusedStays` in
  `Buddy`): `malloc` pops only the back of a bucket's list, and refuses where
  that block runs past the range though another would fit.

And three that the models bound away: after 2^24 calls a call's id wraps to the
0 of the sends, and an earlier send's failure is taken for the call's reply
(`OwnReply` fails where ids are few); a surface's handles compare by age within
half their 2^16 generations, and past it a newer one is taken for an older
(`MaxLate`, `MaxAhead`); and a RESIZE of a surface not bound keeps, for the turn,
a texture made for frames never shown at the size before.

## What is not modelled

- **Hash, math, random numbers**: functions over floats and 64-bit words, which
  TLC's numbers are not.
- **Toc**: a table written before the first turn and looked up; no step of it
  interleaves with another.
- **Guest memory and entry, wasm form**: addresses over linker symbols, statics,
  export glue.
- **Native allocator and boot**: the core heap is the slab that `Slab` models;
  which allocator a block goes back to is decided by its address.
- **Status and bug reports**: a table and a hook; what a report does to a turn's
  records is `Abort` in `Records`.
- **Spec tool, generated tables, examples, pure I/O.**
- Of the parts modelled: what a policy measures and so chooses
  (`frame_pacing.ts`); `DoorStat`, counters no decision reads; a frame whose
  packet lies outside a slot (EBADMSG of `Ring::pkt`), which neither producer can
  write; the namespaces of `ns.ts` and what a file holds; the numbers of the GPU's
  enumerations, objects other than a texture, passes, what is drawn, and an
  image's pixels; the TypeScript kit's map; of `view.hpp` the bulk views, and a
  value's byte order.
- Payloads: a packet in a ring is a value, and what a command does is its
  success or failure.
- What WebGPU, wgpu, the platform's windows and the event loop do is external,
  modelled from how the code uses them.
- The Rust tasks, which are the language's futures; `Edge` is of the C++
  coroutines. Where the twins otherwise differ in order (a reply's flag is looked
  at before or after the errno) the outcome is the same.

## What is left

1. Proofs: `KeepsOrder` of `Collections`, once its operators are recursive
   functions or folds; `ShareHeldBack` for phases past the first.
2. Models: passes and bind groups of the native GPU host; the bulk views of
   `view.hpp`; frame pacing's choice of moments against a clock.
