# TLA+ models of SGX-DPDK

SGX-DPDK runs the firewall pipeline of DPDK's `ip_pipeline` application (17.05)
inside an SGX enclave. This directory holds TLA+ models of the parts of it that
keep state and can go wrong in ways a test would hardly reach, the TLC runs that
check them on small instances, and TLAPS proofs of what matters most for every
size. `PROJECT.json` maps every definition to the lines it models.

Run a configuration with `tlc -config <cfg> <module>`, check a proof with
`tlapm <module>.tla`.

## 1. The system

`App/` is the untrusted application: command line, configuration, and the RX and
TX pass-through pipelines. `Enclave/` holds the firewall pipeline and the DPDK
libraries it needs. The shipped topology (`config/sgx_firewall.cfg`) is

    core 1: PASS-THROUGH   RXQ0.0      -> SWQ0
    core 2: FIREWALL       SWQ0        -> SWQ1, SWQ2        (in the enclave)
    core 3: PASS-THROUGH   SWQ1, SWQ2  -> TXQ0.0, SINK0

with one more thread, on the master core, for the command line. The threads share
rings and nothing else: software queues (SWQ) of packets, and for every pipeline a
request ring `msgq_in` and a reply ring `msgq_out` of control messages. The enclave
thread (`Enclave/firewall_thread.c`) runs `rte_pipeline_run` in an endless loop and
handles control messages and flushes its ports in every sixteenth round.

### Inventory

| Component | State | Operations | Talks to | What makes it correct |
|---|---|---|---|---|
| Pipeline input ports (`rte_pipeline.c`) | mask of enabled ports, chain of `next` pointers, `port_in_next` | enable, disable, run | control messages enable and disable; the thread loop runs | the chain links exactly the enabled ports; round robin; nobody starves |
| ACL table (`rte_table_acl.c`) | rule list, entries, live context, name in use | create, free, add, delete, bulk add, bulk delete, lookup | called by the message handlers; compiles through the ACL library | list and context never differ; a failed compilation is undone; lookups honour priority |
| ACL library (`librte_acl`) | contexts by name | create, add rules, build, free, classify | ACL table | a name is never compiled into twice |
| Control channel (`pipeline_common_fe.h`, `pipeline_common_be.[hc]`) | two rings, the message being handled | send and wait, time out, handle, reply | every command and every pipeline | nothing lost or reordered; commands return |
| Firewall control plane (`pipeline_firewall.c`, `pipeline_firewall_be.c`) | the front end's rule list and default rule; the table and default entry; arrays shared through messages | add and delete of rules, batches, default rule; ping | both sides of the control channel; ACL table | the front end's view is the table's; memory is not touched after it is freed |
| Rings (`rte_ring.h`, `rte_ring.c`) | four indices and the slots | burst and bulk enqueue and dequeue | all threads | a bounded queue; no slot held twice; no thread waits for ever |
| Ring ports (`rte_port_ring.c`) | `tx_buf`, its count | receive, send, send bulk, flush, retry | pipeline and ring | no packet lost, duplicated or reordered in dropless mode |
| Packet path (`rte_pipeline_run`, `full_copy.c`, `header_copy.c`) | action masks, copies of the burst, their pool | receive, copy, look up, actions, send, drop | ring ports, ACL table, mempool | every packet gets one action; every copy is freed once |
| Count-min sketch (`count_min_sketch.c`) | counters | update, estimate (never called) | packet path | an estimate is never below the count |
| Application threads (`thread.c`, `thread_fe.c`) | per thread list of pipelines; `enabled` flag of the front end | enable, disable, headroom | thread message rings | front end and thread agree on what runs |
| Links and common commands (`pipeline_common_fe.c`) | link state | link up, down, configure; port enable, disable; statistics | control channel | a link is used only when it is up |
| Initialisation, configuration, other pipelines, enclave environment | | | | one-time set-up, text processing, unused samples, stubs |

What is hard in it: the interleavings of producers and consumers on a ring; a
command that times out while its request is still in the ring; messages that
point to memory of a command that has returned; a compilation that fails after the
rule list was changed; batches that repeat keys; chains of pointers that are
spliced while in use; tables and rings at their limit; indices that wrap. There is
no persistent state, so no crash recovery. `PROJECT.json` lists the hazards one by
one, at their lines.

## 2. The modules

| Module | Models | Extends / instantiates |
|---|---|---|
| `PipelinePorts` | input ports of a pipeline | instance of `RoundRobin` |
| `RoundRobin` | abstract: enabled ports are served in cyclic order | |
| `PipelinePortsProofs` | theorems | `PipelinePorts` |
| `AclTable` | the ACL table and the contexts of the library | |
| `MCAclTable`, `AclTableProofs` | model constants; theorems | `AclTable` |
| `ControlChannel` | requests, replies and timeouts | |
| `ControlChannelProofs` | theorems | `ControlChannel` |
| `FirewallCtl` | commands, handlers, the two copies of the rules | instance of `ControlChannel`, which it implements |
| `MCFirewallCtl`, `FirewallCtlProofs` | symmetry; theorems | `FirewallCtl` |
| `RteRing` | the lock-free ring, one step per access to shared memory | instance of `BoundedFifo`, which it implements |
| `BoundedFifo` | abstract: a bounded queue of bursts | |
| `MCRteRing`, `RteRingProofs` | symmetry; theorems | `RteRing` |
| `RingWriter` | an output port in front of a ring | instance of `PacketChannel`, which it implements |
| `PacketChannel` | abstract: an ordered queue that gives packets up only when it is full | |
| `RingWriterProofs` | theorems | `RingWriter` |
| `PacketPath` | one `rte_pipeline_run` after another, and the firewall's copies of packets | |
| `MCPacketPath`, `PacketPathProofs` | symmetry; theorems | `PacketPath` |
| `AppThread` | moving pipelines between threads | |
| `AppThreadProofs` | theorems | `AppThread` |

How they fit: `AppThread` decides which thread runs a pipeline; on that thread
`PipelinePorts` picks the input port, `PacketPath` takes its burst through the tables
and hands it to output ports, each a `RingWriter`, over an `RteRing` (which
`RingWriter` sees as the queue of `BoundedFifo`). In every sixteenth round the
thread handles a message of `ControlChannel`; for a firewall `FirewallCtl` says
what the message does, and `AclTable` how the table does it.

Definitions named `..._without_...`, `..._off_by_one` and the like and marked
"Faulty variant" are not part of any specification: each is a plausible mistake in
the definition that follows it, kept to show that some property notices it.

### PipelinePorts

`enabled_port_in_mask` is the set of the one bits of the `uint64_t`, `Width` bits
wide instead of 64. `next[p]` is `ports_in[p].next`, of disabled ports too (they
keep a stale pointer). `rte_mask_get_next` and `rte_mask_get_prev` rotate the mask
and take its lowest or highest bit, as the code does with `__builtin_ctzll` and
`__builtin_clzll`. Enabling an enabled port and disabling a disabled one return at
once and are stuttering steps. A call of `rte_pipeline_run` is one step: whatever
happens to the burst, the turn passes on.

### AclTable

Slots are `1 .. NRules - 1` (slot 0 is never used). `acl_list` maps each of the two
context names to the rules in that context; `{}` is no context. A compilation may
always fail, since it allocates memory, and must fail when a priority is outside
the library's range. `rte_acl_create` of a name that exists returns the existing
context, as in the library. Single operations are one step. A bulk operation is a
step that checks the arguments, one per key, and one for the compilation; `op`
keeps its local variables together with the list and entries it started from, so that
properties can speak of both. The tables are only touched by their pipeline's
thread, so nothing interleaves with a bulk operation: the steps are there because
an invariant at each of them says that the error path could still undo everything.
A packet is the set of keys it matches, any set; the classification itself is
taken as what it computes, the matching rules of the highest library priority
(ties are broken by the trie, so the lookup yields a set).

### ControlChannel

`fe` is where the command line thread is (`idle`, spinning on a full request ring,
or polling for a reply), `be` the message the back end has taken. Requests are
numbered, which the code does not do, only to say which reply a command gets. The
deadline is checked before the ring, so a timeout is possible although a reply has
arrived; a timeout is possible at any time because the deadline is wall-clock time
(200 s by default) and the model has no clock.

### FirewallCtl

The messages of `ControlChannel` with their contents. Commands check and mask their
keys and write a request. The handlers of the back end give the set of possible
effects on the table, seen here as key -> port with a bounded number of rules, and
of what they write to memory. A reply is written over its request: `Replies` says
which word the front end will read as `key_found` and whether `entry_ptr` is not
NULL, for every combination of request and reader, since after a timeout a command
reads the reply of another type of request. `keys_found` of a bulk command is
uninitialised until the back end writes it. The front end's list is kept per key, as the
sequence of ports of the nodes with that key: a bulk add looks every key up before it sends
its request and allocates a node for each that it does not find, so that a batch that repeats a
new key would insert several nodes for it (`NewNodes`); the first node of a key is the one that is
found, changed and deleted. The order of nodes of different keys does not matter.
`undefined` records undefined behaviour: a use of freed memory, a free of something else than
was allocated, and unlinking a rule through a NULL pointer or one that was just
freed; the behaviour stops there. A key is a prefix (address and depth), which commands mask, and a
protocol, which they leave alone; destination and ports are treated like the source and are left out.
Priorities are left to `AclTable`.

### RteRing

The indices are `IndexBits` wide and wrap; a run may start anywhere (`Starts`). A
step is one access to shared memory: read own head, read the other side's tail,
compare-and-set or store the head, copy, wait for and store the tail. `single` are the flags `RING_F_SP_ENQ` and
`RING_F_SC_DEQ` the ring was created with: a single producer or consumer stores
its head, several compare and set it. Copying a
burst is one step because no other thread touches its slots meanwhile, which is an
invariant (`ReservationsAreDisjoint`) and not only an assumption. Accesses take effect in
program order: the indices are volatile, the code has its barriers, and x86 keeps
loads and stores in order but for a store followed by a load of another location,
which does not matter here because no step decides on a load that must follow its
own store. `MaxEnqueues * MaxBurst + Size < 2^IndexBits` excludes a full
turn of the indices during one call, in which the compare-and-set would be fooled:
in the code that takes 2^32 objects while one thread stands still.

### RingWriter

`port` is what the port was created with: drop or dropless, the burst size, the
retry limit, single or multi writer; a run covers all combinations. The dropless
variants and the others share their actions because their code differs in what
happens to packets that did not fit. A call is cut into steps where it looks at the
ring, since the reader and other writers run in between: `send` and `retry` are
the calls of `rte_ring_*_enqueue_burst` in `send_burst` and `send_burst_nodrop`, `direct`
the one of the bulk path. A bulk call gets its packets by position, so that the
bulk path, which takes the first packets of the array, and the buffered path, which
takes those whose bits are set, are told apart; a position that is not the port's
holds `Foreign`. `n_retries` is wider than the counter it is compared with
(`CounterRange` stands for 2^32), which makes the default endless.

### PacketPath

Masks are sets of positions, and the steps are those of `rte_pipeline_run`: receive,
look up, miss, hit, again for the next table, then the reserved actions in the order of
the code. What a lookup finds is any function from a subset of the packets to entries
that the table may hold; `AclTable` says which. `entries` keeps stale entries as the code
does; `verdict` is what a reader would expect instead, the entry that each packet was
given last. There are two kinds of pipeline in one model, because
they share the library: the firewall with its copies, whose user actions take no packet, and
any pipeline with several tables and with actions that drop or hijack whatever they
like. A burst that finds too few free copies ends in `panic`. Packets are single segments:
`rte_pktmbuf_copy` takes one buffer of the pool for each segment of a packet, so packets of several segments
would exhaust it sooner.

### AppThread

`placed[t][p]` counts how often pipeline `p` is in the array of thread `t`; the
order of the array does not matter. A thread that was given a firewall is in the enclave
and has no message handler. The command line runs on the master core, in the same loop as the
message handler of that core, so that handler does not run while a command waits
(`Serves`). Initially the threads are those of the configured pipelines and the master.

## 3. The runs

| Run | Bounds | Checks |
|---|---|---|
| `ports` | 5 bits, 5 ports | `ChainLinksEnabledPorts`, `TurnIsEnabled`, refinement of `RoundRobin`, no starvation |
| `acl` | 3 keys, 2 entries, 2 usable slots, priorities -1 to 2 of which 0 and 1 are good, batches of 2 | see below |
| `acl_rollback` (violation) | as above, smaller | a failed bulk add leaves entries alone |
| `channel` | rings of 3, 11 commands | see below |
| `firewall` | 1-bit addresses (3 prefixes), 1 protocol, 2 ports, 2 rules, batches of 2, rings of 1, 3 commands of any kind | see below |
| `firewall_free` (violation) | the same with one bulk add | without a timeout, only what was allocated is freed |
| `ring_bursts` | 1 or 2 producers, 1 consumer, ring of 4, 4-bit indices from 14, bursts of 2, 3 enqueues | refusals, refinement of `BoundedFifo` |
| `ring_multi` | 2 producers, 1 or 2 consumers, single objects, 5 enqueues | index order, disjoint reservations, refinement, `CallsReturn` |
| `ring_writer` | bursts of 3, ring of 3, reads of 2, all burst sizes and modes, retry limits 1, 2, 4 and none, a counter of 4 values | buffer, refinement of `PacketChannel`, calls return, packets leave |
| `packet_path` | bursts of 2, a firewall with 2 copies, a pipeline with 2 tables, 2 output ports | see below |
| `copies_leak` (violation) | firewall, bursts of 3, 3 copies | a burst always finds copies |
| `app_threads` | 3 threads, 2 pipelines of which 1 firewall, rings of 1, 6 commands | see below |

Why the bounds are enough to be interesting:

- `ports`: every subset of five ports, every port's turn, every stale pointer. Both
  ends of the mask are used, so both rotations wrap. The theorems cover 64.
- `acl`: three keys for two slots fill the table, in the middle of a batch too; a
  batch of two can repeat a key, or replace one rule and add another; -1 is the
  priority that passes the table's check and fails the library's.
- `channel`: 11 commands are enough for the 2 * 3 + 1 timeouts after which the channel
  is stuck, and for commands after them. Deadlock is not checked because the
  channel really gets there; what holds until then is `CommandsReturn`.
- `firewall`: three prefixes over capacity two; a batch of two and two more commands are
  enough to fill the table, be refused, delete and look at the outcome, with up to
  two timeouts in between. Deadlock is not checked: a behaviour ends at `MaxCommands` or at
  undefined behaviour.
- `ring_*`: four slots of which three are usable, filled and emptied across both the
  end of the slots and the end of the indices. The order of objects is told by two
  different ones in the first run; `ring_multi` has one, and enough calls that a
  slot is used twice. Symmetry over threads and objects is used except in that run,
  which checks liveness.
- `ring_writer`: bursts of three with a burst size of two or three have gaps, overflow a partly
  filled buffer and exceed the free room; the limit 4 is one the counter never
  reaches. Deadlock is not checked since a port may be freed.
- `packet_path`: two packets are enough for two to part in any two of hit, miss, drop,
  hijack and the two ports, in either table, and for a burst to find the stale entries and saved
  copies of the last one. Deadlock is not checked because a firewall can panic.
- `app_threads`: master, enclave and one other thread; six commands on rings of one slot are
  more than the timeouts after which a thread is stuck. Deadlock is not checked because commands end at
  `MaxCommands`.

What the passing runs show:

- `acl`. `KeysAreUnique`: no key has two slots. `ContextMatchesList`: the live context holds
  the rules of the list as it was before the operation in progress.
  `OnlyLiveContextExists`: the other name is always free, so a build starts from an
  empty context and none leaks. `BulkIsUndoable`: at each key of a batch the error
  path gives back the list. `FailedCallKeepsRules`, `SuccessfulCallHasItsEffect`: what a
  caller may rely on. `LookupHonoursPriority`: the reversal of priorities is right, and
  consistent with the list at all times.
- `channel`. `OutstandingInOrder`: rings and back end hold the requests of the
  last commands, in order, one for each timeout there has ever been and one for the command
  that waits. `RepliesLagByTimeouts`: hence after t timeouts every command gets the
  reply of t commands earlier, for ever. `TimeoutsFillTheRings`: 2 * RingSlots + 1
  timeouts and the back end, with its packets, is stuck in `pipeline_msg_send`.
  `CommandsReturn`: until then every command returns.
- `firewall`. `MirrorMatchesTable`: without timeouts and without failed bulk
  commands the two copies of the rules agree whenever no command is in progress.
  `NoUnknownRules`: even after failed bulk commands no rule is in force that the
  front end cannot list or delete, but for the bulk add of finding 2, at which a behaviour
  ends. `ListedOnce`: without a timeout no rule is listed twice, although the front end itself does not look
  for repeated keys in a batch. `MemoryErrorsNeedTimeouts`: freed memory, freed rules and NULL rules are only
  touched after a timeout. `ImplementsChannel`: the channel's theorems apply to the firewall.
- `ring_*`. `ImplementsFifo`: bursts enter and leave in one piece and in order.
  `IndicesInOrder`: a slot is not reserved before its last consumer has left it, wherever
  the indices wrap. `RefusedOnlyWithReason`: a stale head never makes a
  thread give up wrongly (in the run, which has one consumer, this is tested for producers; for racing consumers it
  is the theorem `RefusalsHaveReasons`). `CallsReturn`: the waits in `update_tail` are not circular.
- `ring_writer`. `BufferFits`: `tx_buf`, two bursts long, is never overrun on any path.
  `ImplementsPacketChannel`: order is kept although full bursts bypass the
  buffer, a retry sends nothing twice, a packet is given up only at a full ring, and never by a
  port without a retry limit. `CallsOfThePortReturn`: with a limit always, without one if the ring is
  the port's own and its reader makes room again and again (`ReaderKeepsUp`).
  `BufferedPacketsLeave`: a flush gets packets out that too few others follow.
- `packet_path`. `EveryPacketInOnePlace`: each packet is sent once, freed once or hijacked,
  whatever tables and user actions do. `PacketsFollowTheirVerdict`: stale entries never decide.
  `CopiesAreFreedOnce`: with one input port, no copy is freed twice.
  `DropsLeakTheirCopies`: the pool loses exactly the copies of dropped packets.
- `app_threads`. `FlagMatchesThreads`: without timeouts no pipeline is ever on two threads,
  where nothing would lock it, and the front end's flags are right. `StatusesLagByTimeouts`: a timeout leaves one
  message behind for good, so every later command to that thread reads the status of an earlier one. `CommandsReturn`: also commands to
  the enclave's thread, until its ring is full of requests that nobody reads, and
  to the master's own. `RequestsAreHandled`: what a command that gave up has asked for is still done
  in the end.

### Fairness

- `PipelinePorts`: weak fairness of `rte_pipeline_run`, which the thread calls in an
  endless loop. Nothing is assumed of enables and disables.
- `ControlChannel`: weak fairness of sending, of leaving the polling loop (by a reply
  or by the deadline, which always comes), of handling and of replying: both threads have
  their own core and spin. Nothing is assumed of `Issue`.
- `RteRing`: weak fairness of each thread's steps within a call. `CallsReturn` starts
  when the head has been moved: before that, a compare-and-set may lose for ever
  against faster threads, and the code does not promise otherwise.
- `RingWriter`: weak fairness of the steps within a call; strong fairness of the flush, which
  the thread calls in every sixteenth round, between other calls of the port. Nothing is assumed of the reader
  or of other writers: what is needed of them is a hypothesis of the properties.
- `AppThread`: weak fairness of sending, of the end of the wait, and of each thread's message
  handling, which its loop reaches once per timer period. Nothing is assumed of
  `Issue`, so a command line that is never idle may keep the master's handler waiting.

## 4. Findings

1. `acl_rollback`: a bulk add copies the entries of keys it finds at once; when the
   compilation for the new keys of the same batch fails, "Roll back changes" does not restore
   them, so packets take the new action of a command that reported failure.
2. `firewall_free`: a bulk add names a new key twice, and nothing times out. The table adds the rule, reports the second
   occurrence as found and sets `entries_ptr[i]` of both to point into its own memory; the front end, which
   has noted both as new, takes this for an error (`pipeline_firewall.c:716-730`) and frees every `entries_ptr[i]`.
   The same happens to the keys that were found when the handler reports an error (704-714), and after a timeout (687-702).
   The rule is in force and not listed.
3. `copies_leak`: the copy of a packet that the firewall drops is never freed. The default
   entry of a new firewall is to drop. The pool is as large as a full burst (64), so after a single unmatched packet
   the next full burst panics, and after 64 of them any burst.

Not findings, since nothing in the repository says otherwise, but worth knowing:

- Adding a rule whose key is installed succeeds and ignores the priority it is given,
  while the front end lists the new one. A negative one is listed too, and then the listing, which counts
  priorities up from 0, goes through the whole range of `int`.
- Of two rules that differ only in bits of `proto` outside `proto_mask` both can be installed, although they match the same
  packets: addresses are masked before keys are compared, protocols are not (`pipeline_firewall.c:244-251`).
- A bulk delete with a key that is not there, or named twice, deletes the others from the table, reports an error
  and leaves all of them in the front end's list.
- After a timeout a command takes the reply of an earlier one for its own, for
  ever (`RepliesLagByTimeouts`); the same holds for the commands to threads. There, one timeout is
  enough for a later enable to read a status of 0 that is not its own.
- A command to the master's own core always times out and is carried out afterwards,
  with `p->enabled` unchanged; so does any enable or disable that is handled after its command gave up.
- `saved_mbufs` is one array for all input ports. The firewall sets the copying action on input
  port 0 only; with bursts from another port the output actions would free old copies
  again, which is why `CopiesAreFreedOnce` is stated for one input port.
- A dropless port without a retry limit on a ring that nobody reads, or whose room others always
  take, stops its pipeline and the handling of its messages.

One comment is wrong and harmless, and no run is about it: `rte_ring.h:415-418` says that `free_entries` is always
between 0 and the size of the ring less one. With several producers it can be more, when the consumer's tail is newer than
the head it is compared with; the compare-and-set then fails.

## 5. What is proved

For every value of the constants that the named assumptions allow.

**PipelinePortsProofs** (assumptions: `Width >= 1`, `NumPortsIn` in `1 .. Width`,
`NULL` is not a number). `GetNextIsSuccessor` and `GetPrevIsPredecessor`
say that rotating the mask and taking its first bit finds the cyclic neighbour in the
mask; both rest on the fact that a non-empty set of naturals has a least element.
The inductive invariant is `TypeOK /\ ChainLinksEnabledPorts /\ TurnIsEnabled`: the
chain alone is not inductive for the turn, which follows it. For an enable, the
predecessor of the new port is the only port whose successor changes; for a disable,
the predecessor takes over the successor of the port that leaves. `RefinesRoundRobin` maps every
step of the chain to a step of `RoundRobin`.

**AclTableProofs** (assumptions: at least one slot counted with slot 0, priorities are integers,
`NULL` is neither rule nor entry nor name; the sets of keys and entries are arbitrary). The inductive
invariant adds to the properties `BulkInv` (the list a bulk operation started from has no key twice, and
no slot is recorded yet for the keys still to come) and `NoTable`
(there is no context without a table). `BulkIsUndoable` needs `BulkInv`: recording a slot for the next key
must not overwrite the record of another. `CommitOutcome` and `RollBackOutcome` say once what the two ends of every
operation do to the contexts; each action then only shows what it does to the list. From
the invariant follow the theorems on `KeysAreUnique`, `ContextMatchesList`,
`OnlyLiveContextExists`, `BulkIsUndoable` and `LookupHonoursPriority`, and the action property
`FailedCallKeepsRules`. `SuccessfulCallHasItsEffect` needs a second invariant, `Progress`: for a batch of
distinct keys, the keys before `op.i` have been added (`KeyAdded`) or deleted (`KeyDeleted`) as the batch asks, those from it on not at all,
and no other slot or entry has changed. The point at which it could fail is a key that looks
present only because an earlier key of the same batch put it there; `AddTouched` and `DeleteTouched` exclude it.

**ControlChannelProofs** (assumptions: at least one slot). `OutstandingInOrder` is
inductive together with `TypeOK` and the fact that the oldest outstanding
request has a positive number. Lengths and numbers give `TimeoutsFillTheRings` (what
two rings and the back end can hold) and `RepliesLagByTimeouts` (the head of
the reply ring is the oldest request).

**RingWriterProofs** (assumptions: positive burst size and capacities, a burst size of the port
of at most the largest burst, a counter with at least two values). The invariant adds to `BufferFits`
`PhaseInv`: what each phase of a call says about the buffer, the burst that waits behind it
and `nb_tx`. `MaskFacts`, `FirstPacketsFacts` and `GatheredFacts` show that both ways of
collecting a burst yield as many packets as the mask has bits, and that the direct path, which looks at
positions only, takes the port's own packets because the mask has no gaps. For
the refinement the backlog is what is left of the buffer followed by the waiting
burst; `TransferStep` turns each of the three enqueues into one transfer of the
abstract channel, and `RestOfConcat` and `RestOfRest` are the facts on sequences this needs.

**AppThreadProofs** (assumptions: finite sets, an array that has room for all pipelines, at least one slot). The
flags alone are not inductive: `OneCommand` says that without timeouts at most one
message is under way, the one of the waiting command, and that a status on its way back
tells whether the pipeline now runs. The case in which the handler adds a pipeline rests on
the flag having been 0 when the command was issued. `StatusesLagByTimeouts` is inductive with the types and needs no
assumption on timeouts: `NextKeepsLag` counts, for each action, what it adds to and takes from the rings of a thread.

**PacketPathProofs** (assumptions: bursts, tables and ports are not empty in number, as many packet buffers as a burst has
positions). The places of `EveryPacketInOnePlace` alone are not inductive. `PathInv` adds that hits and misses
split what a table was asked (`TableAnswers`) and, in `MasksAgree`, that the entry of a packet that waits for the port
action is still the one its last table gave it: this is where a stale entry would do harm, and it is what
`PacketsFollowTheirVerdict` follows from. On top of it, `CopyInv` ties `saved_mbufs` to the packets of the burst that have
not left (no copy is saved at two positions, and what is saved and not yet sent is in use), and `CountInv` counts: copies in use =
packets in flight + packets dropped. `CopiesAreFreedOnce` is proved for one input port and `DropsLeakTheirCopies`
for one input port and at most two output ports, as the firewall is configured and as the code requires: only
input port 0 copies, and only the first two output ports have the action that frees.

**RteRingProofs** (assumptions: disjoint sets of threads, a size that divides the range of the indices, less than one turn
of enqueues in a run). Indices that wrap cannot be compared, so the invariant says that there is a start `s` such that the
distances `U(s, i)` of the indices from it are ordered (`Order`), less than a turn (`Budget`: what pending calls may
still reserve is counted, which is where the assumption on the number of enqueues is used), and that the threads of each side
hold disjoint intervals below the side's head (`Side`, used once for producers and once for consumers). A stale head is at most
the current one; the compare-and-set succeeds only if they are equal, and then the room that was
computed is still there because the other side's tail only moves forward. `RingIsAFifo` maps the slots from `cons.head` to
`prod.tail` to the queue: an enqueue takes effect when `prod.tail` moves, for which `Filled` says that the objects
are in their slots, a dequeue when `cons.head` does.

**FirewallCtlProofs** (assumptions: sizes are natural numbers, at least one slot per ring, `NONE` and the bad port are not ports). Without a
timeout the two threads move in lock step, and `InStep` says what a reply on its way is worth: there is a table that agreed with the
front end's list, and the table now is what the handler made of it, with the answer the reply gives
(`MadeBy`). Each handler is shown once to do what `MadeBy` says (`AddMakes`, `DelMakes`, `AddBulkMakes`, `DelBulkMakes`);
`AcceptedAgrees` then says, key by key, that after a reply the front end accepts, the command applied to its own list gives the
new table, and `ReplyAgrees` that a reply it does not accept has added no rule, unless it is a bulk add whose error path frees memory of the
table (finding 2), where a behaviour ends. The hard case is a new key that a bulk add repeats: the list would get a node for each
occurrence, and the table has one rule, with the port of the first. But `keys_found` of the second occurrence is then set, the front
end does not expect it and refuses the reply; so an accepted batch names a new key once, which is also why `ListedOnce` holds and why it is part of the
invariant (a deletion removes one node, and must leave none). In the same way a bulk delete that is accepted names no key twice (`MadeBy`), so that it frees
no rule twice. That the nodes of a repeated key have types at all, after timeouts, needs the n-th of its positions to exist (`NthOfPlaces`).
After a bulk add that failed in the handler (`bulk_failed`) list and table may differ in ports but not
in which rules they have, which is `NoUnknownRules`. `FirewallUsesTheChannel` shows every step to be one of `ControlChannel`, with the numbers of
the messages for its contents.

Only model-checked: liveness (`EveryEnabledPortIsServed`, `CommandsReturn`, `CallsReturn`,
`CallsOfThePortReturn`, `BufferedPacketsLeave`, `RequestsAreHandled`), which is out of reach of
this prover. Every invariant, action property and refinement that a passing run checks is also proved.

## 6. Not modelled

Text processing (configuration files, parsing of commands, loading rules from a
file, printing); one-time initialisation; the trie construction and
the vectorised classification of the ACL library; memory management
(`rte_malloc`, memzones, mempool caches); the statistics; the sample pipelines that
the firewall configuration does not use; drivers, link commands and the stubs that let DPDK
run in an enclave; source and sink ports and the header cache, which keep no
state that matters to others; the count-min sketch, whose estimate nothing calls; commands that
enable or disable the MASTER pipeline itself. Most of the repository's lines
are vendored headers of DPDK and of the compiler (vector intrinsics), of which only the
ring and the pipeline interface carry behaviour that is modelled.

## 7. Plan

Modelled first were the parts everything else goes through: rings, control channel,
firewall commands, ACL table, input ports; then output ports, the packet path and the
threads. Proved are the safety properties of all of them. What is left:

1. Carrying theorems across the refinements: that after t timeouts a firewall command takes the reply of t commands
   earlier follows from `FirewallUsesTheChannel` and the theorems of `ControlChannelProofs`, but is not stated for `FirewallCtl`.
2. `TypeOK` of the table in `FirewallCtl` against `AclTable`: the handlers of `FirewallCtl` abstract the calls of
   `AclTable`, which is argued in the comments and not proved.

Model work worth doing later: `PacketPath` with several input ports and copies of more than one kind, should the
firewall ever copy on other ports; the routing and flow pipelines, should they be used.
