# Verification of motor-data-producer

TLA+ models of the QNX node that reads vibration/current blocks from an STM32 over
SPI, publishes them in shared memory and manages the configuration of both ends
(`src/motor_controller.c` and what it links), of the shared-memory protocol its
consumers rely on (`src/motor_shm.h`), and of the consumer in the repository
(`src/motor_monitor.c`).  Every definition is translated from the C source; the
table `map` of `PROJECT.json` names the lines.

## 1. The system

```
            SPI, full duplex                        /dev/shm
 STM32  <------------------->  motor_controller  ------------>  consumers
 (firmware, not here)           one SCHED_FIFO thread            motor_monitor, Qt, SOME/IP
   data-ready pulse  ---------->  (rpi_gpio server)
                                  config.json, SIGHUP ---> reload driver
                                  spi.conf, spi-dwc   <--- config loader
```

| component | state | operations | interacts through |
|---|---|---|---|
| seqlock snapshot (`motor_shm.h`) | `seqlock`, latest row | `motor_snapshot_publish`, `motor_snapshot_read` | shared memory, no lock |
| block ring (`motor_shm.h`) | `write_pos`, 16 slots with a seqlock each | `motor_ring_publish`, `motor_ring_read_slot`, `motor_ring_write_pos` | shared memory, no lock |
| monitor (`motor_monitor.c`) | `read_pos`, `blocks_seen`, `drops` | one polling loop | reads snapshot and ring |
| region lifecycle (`shm_setup`, `motor_shm_region_init/valid`, unlink) | the shm object, `magic`, `version` | create or reopen, initialise, validate, unlink | both sides of the region |
| main loop, frame handling (`main`) | `have_last`, `last_seq`, `bad_read_count`, `active_stm`, statistics | one exchange per data-ready event: validate, account, publish | SPI, region, command transmitter |
| command transmitter (`cmd_*`) | `g_cmd` | queue, fill, count attempt, observe, refresh | every SPI exchange |
| reload driver (`handle_reload`), watcher (`cfg_watch_*`), SIGHUP flag | `cfg`, watcher baseline, `g_reload` | reload in tiers: live, SPI, pin, STM | transmitter, SPI link, data-ready, loader |
| SPI link (`open_spi`, `close_spi`, `rpi_spi.c`) | `spi_link_t`, fd table | open, configure, exchange, close | the `spi-dwc` resource manager |
| data-ready wait (`dataready_*`, `rpi_gpio.c`) | channel, armed pin, `misses` | subscribe, wait, re-point | pulses of the `rpi_gpio` server |
| config loader (`config.c`) | none; `spi.conf` on disk | load and validate, rewrite `spi.conf`, bounce `spi-dwc` | file system |
| STM32 firmware (external) | configuration, result latch, armed frame | arm a frame, carry out or reject a command | SPI |
| CRC-32/MPEG-2 and frame checks (`frame_crc_compute`, `main`) | none | compute, validate | every SPI exchange |
| cJSON as the loader uses it (`cJSON.c`) | parse buffer, item tree on the heap | parse, decode strings, look up, delete | config loader |
| PWM and output API of `rpi_gpio.c`, printing and editing API of `cJSON.c`, `motor_controller_debug.c`, `pd_test.c`, `spi_probe.c` | | | see section 7 |

What is hard here: the region is read without locks by processes the producer does
not know; the producer may be killed at any store and be restarted over the same
object; a consumer may be lapped at any moment; commands to the STM32 are repeated
until a result is seen, over a link that loses either direction, while a newer
command may replace one in flight; the decision what a frame means depends on what
the controller believes the STM32 runs; configuration is applied in tiers that fail
separately.  `hazards` in `PROJECT.json` lists each of these at its line.

What makes each component correct:

- snapshot: a read that returns true returns one whole row, the latest at some moment
  of the call; a call always returns.
- ring and monitor: no torn block and none of a former lap; each position counted
  once, as seen or as dropped; a drop only for a block that was really overwritten;
  the cursor never falls behind for ever.
- link: an acknowledged configuration is the one the STM32 runs; commands take effect
  at most once and in order; every command ends; losses are counted exactly.
- lifecycle: a consumer that passes the validity check reads nothing that the
  initialisation has yet to reset.
- reload: what was loaded is what runs, or an attempt to get there is under way; no
  change of the file goes unnoticed; a failing tier is tried again.
- data-ready: an armed frame is read; a pulse that finds none has a reason.
- SPI link: the device exchanged with is the one configured, with its settings.
- loader: all or nothing, also of a file that is being written; the beginning of a version
  is not taken for another one.
- `spi.conf`: `spi-dwc` is touched only to follow a change that was really written.
- cJSON: it reads within its buffers, frees each item once, and returns what the text says.
- CRC: it is CRC-32/MPEG-2; a burst of errors no longer than it is not published as data.

## 2. Modules

| module | what it is |
|---|---|
| `AtomicSnapshot` | abstract: a register that is written and read atomically, calls that may fail |
| `Snapshot` | the seqlock, one step per access to shared memory; producer death and restart |
| `BlockRing` | the ring and the monitor's loop, one step per access; the life of the shared object |
| `SetConfig` | abstract: numbered requests, each carried out at most once and in order |
| `MotorLink` | one exchange at a time: transmitter, frame checks, accounting, STM tier of a reload; the STM32 |
| `SpiSettings` | the constants the next three share |
| `SpiLink` | the descriptor table of `rpi_spi.c` and `spi_link_t`: operations, each with its failure |
| `SpiConf` | `spi_apply_conf`: compare, rewrite, bounce of `spi-dwc`, step by step |
| `Reload` | start, watcher, SPI and pin tiers of a reload, bus recovery; composes `SpiLink` and `SpiConf` |
| `GpioClient` | the connection of `rpi_gpio.c` and what its messages leave in the driver |
| `DataReady` | `dataready_*` and the loop around them: pulses, level fallback, pin moves; composes `GpioClient` |
| `CJson` | the item tree: construction, deletion, lookup |
| `CJsonParse` | `cJSON_Parse` on a text of tokens, its recursion as a stack; composes `CJson` |
| `ConfigLoad` | `config_load_file` and an editor of its file; composes `CJsonParse` |
| `ConfigMeaning` | what a text and a document mean by the grammar, and that `ConfigLoad` finds it |
| `JsonString` | `parse_string` and its helpers, byte by byte |
| `StringMeaning` | what a literal denotes, and that `JsonString` decodes it |
| `Crc32` | the CRC as functions, and what it is by definition |
| `FrameCheck` | a frame on the wire bit by bit, a burst, the validation; uses `Crc32` |
| `MCSnapshot`, `MCBlockRing`, `MCMotorLink`, `MCReload`, `MCDataReady`, `MCConfigLoad`, `MCAlgorithms` | values for TLC |
| `SnapshotProofs`, `BlockRingProofs`, `MotorLinkProofs`, `ReloadProofs`, `DataReadyProofs`, `ConfigLoadProofs` | theorems about the module of that name and those it composes (section 4) |
| `AlgorithmsProofs` | theorems about `JsonString` and `FrameCheck`, and on the way about `Crc32` |
| `CommonLemmas` | lemmas about `%` with a modulus that is not known, and about induction and recursion |

### Snapshot

`seqlock` is the field of `shm_snapshot_t`; `payload` its other fields, cut into
`Words`.  The C accesses between the fences are unordered, so a word is stored and
loaded in any order; the release/acquire fences and the release store and acquire
loads of `seqlock` order the payload against `seqlock`, and that is the order of the
steps.  `PublishBegin`, `PublishWord`, `PublishCommit` are `motor_snapshot_publish`;
`ReadCall`, `LoadSeq`, `LoadWord`, `CheckSeq`, `GiveUp`, `Return` are
`motor_snapshot_read`, whose locals are `tries`, `s1`, `out`.  A word holds the number
of the row it was stored from, so that a row is torn exactly when its words differ.
`Crash` leaves everything as it is; `Restart` is `shm_setup` on the existing object:
`motor_shm_region_init` clears the counters and leaves the rows.  The 32-bit wrap of
`seqlock` is not modelled (2^31 publishes within one attempt).

### BlockRing

As above, for `shm_block_ring_t`: `write_pos`, `seq[i]`, `slots[i]`.
`PublishAdvance` is the separate store of `write_pos` after the slot's commit.  The
monitor is `Attach` (cursor at "now"), `Sync` (load `write_pos`, skip what was lapped),
`Drain` (the `while`), the call of `motor_ring_read_slot`, and `CountSeen`/`CountDrop`.
Its 64-bit arithmetic is `Minus`, modulo `PosMod`; the model keeps all real positions
below `PosMod`, so only differences wrap, as in the code's lifetime.

The module follows one shared-memory object.  `Start` is `shm_setup`; `InitField` and
`ResetSlot` are the stores of `motor_shm_region_init`, relaxed or plain and therefore in
any order; stores of what is there already are left out.  The monitor attaches as soon as
the magic is visible, which on a second life is from the start.  `Crash` may come between
any two stores; `Exit` is the orderly end, or the failed start, that unlinks the object.
`SameLife` says that the monitor took its cursor after `write_pos` was reset and that no
further reset has begun: slots with seqlocks of the former life are then still about, and
`WholeAndFresh` shows that they do no harm, because no position leads to them yet.

### MotorLink

One action is one exchange of the main loop, because the thread does nothing else in
between and the other end is only visible through frames.  The frame is what the
STM32 has armed (`stm`): its size (`cfg.block_rows`), sequence number, the
CONFIG_APPLIED flag and the latched result (`ack`).  `Accept` is the path through all
checks: `cmd_count_attempt`, `cmd_observe`, sequence accounting.  `Reject` is any
failed check (magic, version, CRC, size): baseline dropped, and, as in the code, the
attempt not counted and the result not looked at.  The command travels the other way
in the same exchange and arrives or not (`delivered`), whatever becomes of the frame.
`SpiError` is a failed transfer, with the reopen after three in a row.  `Reload` is the
STM tier of `handle_reload` plus what the SPI tier does to the link state.
`CtrlRestart` starts the process again: `g_cmd` is static, so its numbers begin anew.
Payloads have `sample_rate_hz` other than 0; the loader also lets 0 pass, which stands
for "leave it alone" on the STM32 and adds nothing the properties tell apart.

The STM32's side (`StmBlock`, `StmApply`, `StmReject`) is external.  It may take any
number of blocks to decide, may carry out a repeated command again or only
acknowledge it again, may reject anything, and keeps only the newest command it
received.

`SetConfig` is what this promises: `ImplementsSetConfig` maps the requests, the
STM32's configuration and `active_stm` to it.

### SpiSettings, SpiLink, SpiConf, Reload

`SpiLink` keeps apart what can drift apart: `fd` (descriptor open), `setting` (what
`DCMD_SPI_SET_CONFIG` last told the device) and `spi` (what `spi_link_t` believes
configured).  `open`, `devctl` and `close` fail one by one, with what each failure
leaves behind.  A transfer opens its device if need be, as `open_spi_device_fd` does.

`SpiConf` is `spi_apply_conf`: `Compare`, `Rewrite` (visible at its `rename`, or
failed), `Slay`, `Respawn`.  The results of `slay` and of the shell command that starts
the driver are ignored by the code and the wait between them is a fixed one, so `Slay` may
leave the old driver running, and after `Respawn` there is the new one, the old one or
none.  What the driver runs at first, and whether there is one, has nothing to do with
`spi.conf`: it is started at boot, and the source has three paths for the file
(section 5).  What can be promised is therefore about the bounce, not about agreement:
`BouncedForConf` compares the driver with the one the process found when it was started
(the history variable `found`).  If it is another one, `spi.conf` has been brought to what
the configuration wants, and the driver runs that or nothing.

`Reload` is `main` with its program counter `pc`: `Load`, `ConfStep`, `OpenAtStart`,
`ArmAtStart`, `WatchAtStart`; `Poll` is the top of the loop (`config_reload_requested`,
`cfg_watch_fired`); `LoadNext`, `CloseForReload`, `Reopen`, `PinAndAdopt`,
`SyncAfterReload` are `handle_reload` and the `cfg_watch_sync` after it; `ExchangeOK`,
`ExchangeFails`, `CloseForReset`, `ReopenForReset` the exchange and its recovery.  A
configuration is its SPI device, what the device is told (mode, clock), what `spi.conf`
must say, and the data-ready pin.  The watcher is on (`--watch`).  An edit replaces the
file as a whole, the way editors and the deployment do (the code itself speaks of "an
atomic rename"), and its modification time differs from all before.  Whether `errno`
says EINTR after a failed transfer is left open, because `devctl` does not set it.  The
`rpi_gpio` server, `spi-dwc` and the file are external.  An orderly exit is the
controller's own choice (`Gone`), a `Crash` may come before any step.

### GpioClient, DataReady

`gpio_fd` is -1, open, or closed but not -1: `rpi_gpio_cleanup` closes it without
forgetting it, after which every call fails.  `DataReady` takes `dataready_setup` call by
call (`CreateChannel`, `AttachChannel`, `Arm`), each failing or not; `Repoint` is
`dataready_repoint`, which takes the new pin over before it arms it and continues on
failure; the last call of `dataready_arm_pin` reads the level for a message only and is
left out.  `WaitPulse`, `WaitLevel`, `WaitFloating`, `WaitTimeout` are the outcomes of
`dataready_wait`, `misses` its static counter, which wraps at `IntMax` (formally
undefined; the build wraps).  A wait may time out with a pulse in the channel, which is
how a late pulse looks from here.  External are the STM32 (`StmArms`), the driver
(`Edge`: a pulse, or a missed edge), the wiring (`Plug`) and a floating pin (`Noise`,
`WaitFloating`).

The line and the frame are kept apart, as in the comment at `motor_controller.c:333`:
`armed` says that a frame waits to be read, `high` is the level of the line.  Arming raises
the line, which stays high through the exchange and for as long afterwards as `StmLowers`
likes, at the longest until the dip before the next frame.  A level read in that time is
stale: `WaitLevel` then leads to an `Exchange` that finds no frame, as often as the limit
of misses comes round.  Nothing explains these but the level itself, and nothing is said
about their number.

`PulsesExplained` is about the other half of that comment, "one pulse per armed frame"
(`motor_controller.c:341`), as an account: `credit` grows with each frame read by its level (its pulse
is still to come), frame replaced unread, replug and edge of a floating pin, and shrinks with each
pulse that is answered by an exchange without a frame.  Pulses still in the channel are never more than the
credit, but for the one of the armed frame.  The falling edge of a stale level (`Fall`) must not add one:
a subscription to both edges, as the mutant has it, breaks the account.

### CJson, CJsonParse, ConfigLoad

`CJson` has the heap as a function from item numbers to items, so that a double free, a
leak or a dangling link is visible.  `CJsonParse` runs over tokens; its `stack` has the
locals of the calls of `parse_array` and `parse_object` under way, and `Unwind` is a
failure running up through them.  Offsets are those of the code, one past the end
included: the step back of `buffer_skip_whitespace` is what keeps `parse_string`, which has
no check, inside the text. Every allocation may fail, and one for which there is no room
(`HasRoom`) does. What `cJSON_Delete` walks over (`Reach`) is the least set of items that
has the one it is given and all that follow or lie below one of its own. `ParsesTheText`
compares the tree that is built with the text by the grammar, defined on its own in
`ConfigMeaning`.  There a value is a position of the text with its name and nesting; `ListEnd` has
where each list ends, a recursive function on the positions; `FirstIn` and `NextTo` are the first
value in a list and the one next to a value.  `Walk` goes through the items from the root and through
the values from the document side by side, and what it comes by at the same time has to agree.

`ConfigLoad` is `config_load_file`: `TakeSize` (open, fstat), the loop of `read` calls,
the parser, `LoadPi` and `LoadStm` (all field checks of a tier, of which the order does
not matter because any failure abandons the copy), `Return`.  Each `read` is a step:
`ReadSome` returns fewer bytes than were asked for and the loop goes on, `ReadAll` returns
the last of them, `ReadShort` is an error or the end of a file that became shorter; `buf` has what was
read so far.  The editor truncates the file and writes it bit by bit, also between fstat
and the first read and between any two reads; a replacement by rename in that time leaves
the open file as it is.  Numbers are whole; fields are the code's own with the code's ranges.
`VerdictIsRight` and `OutIsAVersion` compare with what the text configures by its meaning.

`OutIsAVersion` says of the text that the configuration handed out was taken from
(`source`, a history variable) that, if it begins a version of the file, the configuration is that of the
whole version: a beginning is never adopted as something else, whoever cut it off.  It
says nothing of a text that begins no version.  There are such texts: with a truncation
and a new write between two reads the loop puts the first bytes of one version before the
last of another, and if that is valid by itself the code adopts it.  The run reaches this (versions
of equal length that differ on both sides of a `Cuts` position); only `VerdictIsRight` binds what
is handed out then.

### Crc32, FrameCheck, JsonString

Pure algorithms.  `Crc32` has the two loops of `frame_crc_compute` as functions, for any
width.  `FrameCheck` takes every frame of a format, flips every burst no longer than the
CRC, and validates in the code's order with `block_rows` known, unknown or other.  The
header is one byte each for magic and version, flags, and `n_rows`; sequence number,
timestamp and the ACK field are payload to this check.  The CRC is copied between the wire
and a `uint32_t` (`Memcpy`), lowest byte first, while the register is computed highest bit
first: a burst that reaches both the last row and the CRC is therefore not one burst to the
CRC, and `BurstRejected` leaves it out.  With the code's polynomial such a burst can go
undetected from 31 bits on: `BurstIntoCrc` in `MCAlgorithms` shows one.  `JsonString` measures a literal,
allocates and decodes it, with the position of every byte it reads.  `StringMeaning` has what a
literal denotes, and what UTF-8 does, each by what stands at a position and what the rest denotes;
`DecodesLiteral` compares the two for literals that are `Readable`: UTF-8 (the code copies any byte as
it is) in which every `\u` is followed by four digits (the code takes others for `\u0000`).

## 3. Runs

| run | checks | shows |
|---|---|---|
| `snapshot` | `TypeOK`, `NoTornRead`, `ImplementsAtomicSnapshot`, `ReadReturns` | producer death at any access and two restarts: no torn row, except where a restart cut it in two; until a restart an atomic register; calls end although the producer died with `seqlock` odd |
| `snapshot_restart` | `ConsistentSnapshot` violated | finding 1 |
| `ring_safety` | `TypeOK`, `EveryPositionCounted`, `WholeAndFresh`, `DropsAreLosses`, `CursorCatchesUp` | the monitor against a producer that laps it, dies, is restarted, and exits; it attaches at any step of the initialisation |
| `link_safety` | `TypeOK`, `AckedIsRunning`, `ImplementsSetConfig` | three reloads, block size changes, losses in both directions, superseded commands |
| `link_live` | `CommandResolves`, `AccountingExact` | equal block sizes: commands end; losses counted exactly across the wrap of `seq` |
| `link_wedge` | `CommandResolves` violated | finding 2 |
| `link_restart` | `AckedIsRunning` violated | finding 3 |
| `reload` | `TypeOK`, `LinkMatchesCfg`, `BouncedForConf`, `FileIsLoaded` | starts, reloads and resets with every hardware step failing, missing and invalid files, a crash at any step: the exchange uses the device that was configured; the driver is touched only to follow a rewritten `spi.conf`; a file left alone is loaded |
| `reload_lost_edit` | `FileIsLoaded` violated | finding 4: the same property, when an edit may also fall between load and `stat` |
| `dataready` | `TypeOK`, `PulsesExplained`, `FrameIsRead` | missed and late edges, reads of a level that is there or stale, failing re-points, replugs and noise: pulses without a frame are explained, an armed frame is read |
| `config` | `TypeOK`, `NameInBounds`, `EveryItemOwned`, `ParsesTheText`, `VerdictIsRight`, `OutIsAVersion` | 640 thousand states over good, malformed, truncated, nested, half-written and mixed files, read in one piece or in several, with failing allocations |
| `algorithms` | `CrcIsRemainder`, `BurstRejected`, `OutputFits`, `ReadsWithinLiteral`, `DecodesLiteral` | the CRC and the frame check on all small frames, with all flags and two contents of the rest of the buffer; all literals of up to three pieces. The check value of CRC-32/MPEG-2 is an assumption of `MCAlgorithms`, evaluated with the real polynomial |

Deadlock is checked in `config`, `link_*`, `reload` and `snapshot`.  The ring ends when
the producer has removed the object before the monitor opened it; the data-ready wait ends
with its bound on starts; the algorithms end.

Bounds and why they are enough.  Two words tear as well as seven: a torn copy is a
difference between two words.  One reader is enough for
TLC because readers write nothing shared (the theorem of section 4 has any number).  Three
attempts (64 in the code) have a first, a repeated and a last one.  Four rows let a reader
start on one row and see later ones on both sides of a restart.  Depth 2 with four blocks laps the ring
twice, so that positions share slots with others, and leaves blocks for both sides of a
restart.  `PosMod` 16 exceeds all positions, as
2^64 does.  Two payloads and three reloads contain a request, its replacement and the
return to the first configuration.  A retry budget of 2 has a charged, an uncharged
and a last exchange.  `FrameSeqMod` 6 leaves two positive differences above "next";
4 is used where only the presence of accounting matters.  One restart suffices for
every effect of a restart in `BlockRing` and `MotorLink`; `Snapshot` has two, so that
`seqlock` can return to a value twice.  In `Reload` two attempts to reopen (5) and two errors (3)
have a first and a last; the two configurations differ from the defaults in `spi.conf` only,
and in device, mode and pin; two edits let a bad file be repaired, and one crash leaves a
bounce half done; the driver at the first start is any.  In `DataReady` two pins and one move, replug and noise each make the
line, the armed pin and the configured pin differ in all ways; two frames let one be
replaced unread; `IntMax` 3 lets `misses` wrap.  The texts of `MCConfigLoad` end lists in
all places a list can end, nest to the limit (3) and one beyond, and give good and bad
fields, repeated names and tiers that are no objects.  A read that does not return everything ends at
one of `ShortReads` (`Cuts`: before the first and before the second field of a tier), so
that up to three reads have edits between them.  `MCAlgorithms` has bytes of two bits and a CRC of
four, rows of two bytes and up to two rows, so that `n_rows` moves the CRC and a burst covers
several bytes; what is left over behind a frame is all zeros or all ones; its pieces of a literal are the code points at which the length of the
encoding or the kind of surrogate changes, all escapes' kinds, characters of two and of four
bytes, and numbers cut off by the quote.

Fairness.  `Snapshot`: a reader inside a call keeps running (it is a thread of its own;
the code cannot be blocked by the producer); nothing is assumed of the producer.
`BlockRing`: the monitor keeps running.  `MotorLink`: exchanges with a clean frame keep
happening (data-ready pulses go on and the link is not permanently broken; the main
loop does nothing else) and the firmware decides on a command it holds.  No fairness
is assumed of deliveries: a command that never arrives has to end by its budget.
`Reload`: weak fairness of every step of `main`, which is one thread; strong fairness of
`Poll`, because the code passes it between any two exchanges, while the model's exchanges
do not wait for it.  That hardware ever works is not assumed.  `DataReady`: weak fairness
of the controller's thread; strong fairness of `WaitPulse` (a wait that times out with a
pulse in the channel again and again is not the code's: `MsgReceivePulse` takes a queued
pulse at once), of `WaitLevel` (reading the level does not fail for ever) and of `Exchange`
(nor does the transfer).

## 4. What is proved

Each theorem holds for all values of the constants that satisfy the assumptions the modules
name (`ConstantsAssumption` and its like), which say what the code relies on: some word, at
least one attempt, payloads that are configurations, a modulus beyond the positions in use.
The bounds on counters are constants as well, so a theorem has no bound in it.  Each
inductive invariant was checked by TLC on the instance of its run before it was proved, that of
`JsonString`, which quantifies over functions, with the count computed from the text; but not
the two named `MeaningInv`, whose quantifiers over sequences and functions TLC cannot enumerate.

| theorem | property | run |
|---|---|---|
| `SnapshotProofs`: `TypeCorrect`, `ReadsAreWhole`, `SnapshotIsAtomic` | `TypeOK`, `NoTornRead`, `ImplementsAtomicSnapshot` | `snapshot` |
| `BlockRingProofs`: `TypeCorrect`, `ReadsAreWholeAndFresh`, `CountingIsExact`, `DropsWereLost` | `TypeOK`, `WholeAndFresh`, `EveryPositionCounted`, `DropsAreLosses` | `ring_safety` |
| `MotorLinkProofs`: `TypeCorrect`, `AckIsTrue`, `LossesAreCounted`, `LinkImplementsSetConfig` | `TypeOK`, `AckedIsRunning`, `AccountingExact`, `ImplementsSetConfig` | `link_safety`, `link_live` |
| `ReloadProofs`: `TypeCorrect`, `LinkFollowsCfg`, `DriverFollowsConf` | `TypeOK`, `LinkMatchesCfg`, `BouncedForConf` | `reload` |
| `DataReadyProofs`: `TypeCorrect`, `PulsesAreExplained` | `TypeOK`, `PulsesExplained` | `dataready` |
| `ConfigLoadProofs`: `TypeCorrect`, `NamesInBounds`, `ItemsOwnedOnce`, `TextsAreParsed`, `VerdictsAreRight`, `OnlyVersionsAreTaken` | `TypeOK`, `NameInBounds`, `EveryItemOwned`, `ParsesTheText`, `VerdictIsRight`, `OutIsAVersion` | `config` |
| `AlgorithmsProofs`: `DecodingFits`, `DecodingReadsInside`, `LiteralsAreDecoded`, `CrcsAreRemainders`, `BurstsAreRejected` | `OutputFits`, `ReadsWithinLiteral`, `DecodesLiteral`, `CrcIsRemainder`, `BurstRejected` | `algorithms` |

`Snapshot`.  `TypeOK` alone is not inductive: `CheckSeq` adds to `tries` without testing it, so
`TypeInv` adds that a call that is copying has an attempt left.  For whole reads `IInv` adds three
parts.  The version part (`VersionInv`) ties `seqlock` to the rows: twice the rows published in
this life, plus one while writing.  The payload part (`PayloadInv`) says that while nothing is
being written all words are of the last row (once one was published in this life), and while one
is being written the words already stored are.  The copy part (`CopyInv`) is the reason the
protocol works: as long as `seqlock` still equals `s1`, every word already copied is of the row
`s1` stands for; once it has moved on it never returns within this life.  The refinement follows:
the register changes at `PublishCommit`, a call looks at it at `LoadSeq`.

`BlockRing`.  The parts of `IInv` are about the producer (`RingInv`: what its stage leaves to do,
how `write_pos` counts the blocks of this life, which seqlock is odd, and that each of the last
`Depth` blocks is in its slot), the cursor (`CursorInv`: in the same life it is not ahead of
`write_pos`, and `seen + drops` is what it has passed, without any wrap), and the attempt under
way (`AttemptInv`: while the version is the one the attempt started on, it has copied what is in
the slot; once the version differs, the block asked for is being overwritten or is gone).  The
last clause is what a drop rests on: a monitor that gives up after its attempts has seen the
version move, or odd, which in the same life means that the block was overwritten.  Drops are
bounded by `DropInv`.  The initialisation of a later life needs no ordering: before `write_pos`
is reset no statement about this life is made, and afterwards no position leads to a slot
that was not written in it.  The proof of `DropsAreLosses` counts the set of overwritten
positions by `FiniteSetTheorems`; slots and positions modulo 2^64 are by `CommonLemmas`.

`MotorLink`.  `ProtocolInv` says who may know what: the command of the controller is its latest
request (`CmdInv`); what the STM32 holds, runs or has reported was requested, and nothing in it
is overtaken by something older (`StmInv`); an acknowledged command is the one that runs
(`AckInv`).  It needs that numbers are not used again, which is why it is stated for
`restarts = 0`: with a restart it is false, finding 3.  `LinkImplementsSetConfig` has the same
premise, as `[](restarts = 0)`.  `BaselineInv`: the armed frame is as many numbers ahead of the baseline as
frames went unread, modulo `FrameSeqMod`; with the condition of `AccountingExact`, fewer than half the modulus,
the signed difference of the code is that number.

`Reload`.  `LinkMatchesCfg` speaks of the main loop only, `LinkInv` of every `pc`: none
before the bus is opened and between a close and the next open; the next configuration in `pin`,
where a reload has reopened the bus or seen that it need not; the running one elsewhere.
`DriverInv` follows the bounce: until it is due the driver is the one the process found; when it is
due the rewrite has been made, so `spi.conf` is what the running configuration wants, and that stays so
until a reload adopts another one; without a driver `main` does not get past the open.  `LinkOps` and `ConfOps` are the lemmas on what each operation
of `SpiLink` and `SpiConf` leaves, failures included.

`DataReady`.  `PulsesExplained` is not inductive: an exchange that answers a pulse without a frame
takes from `credit`, and what pays for it was known when the wait returned.  `Explained` keeps it: while
an exchange is due that has taken a pulse, one more is owed (`Owed`).
`TypeCorrect` needs `PulsesBounded`: pulses come from frames, replugs and noise only.

`ConfigLoad` with `CJsonParse` and `CJson`, for every set of texts, nesting limit and size of the
memory.  That each item has one owner is not inductive, because deletion is not local: the step
that frees a list must know that no other owner leads into it.  `Forest` says so: the live items
are trees, their roots are what the parser holds in its hands (the root item, and the head of each
list under construction), each item is linked once, and each is in the tree of a root.  `FrameInv`
says where each call of `parse_array` and `parse_object` stands in it: it appends to the end of its
own list, whose item is not linked to the list before it closes.  The lemmas are what allocation,
linking, and deletion of a tree do to a forest.  `NamesInBounds` follows from `StepInv`: what the
parser is about to do, it can do.  `TypeCorrect` is more than types here: `TypeOK` has every field
of the configuration handed out in the range the code allows for it.
`TextsAreParsed` needs to know what each item stands for while the tree is still growing.  `MeaningInv`
says that there are positions of the text, one for each item (`pos`), and one for the bracket or comma
each call of `parse_array` and `parse_object` has passed last (`sep`), such that (`Meant`) an item that is
finished has the type, value and name of what is at its position, and is linked to the items of the first
value in it and of the one next to it; and that the calls under way are the lists around the offset
(`FrameMeans`), each of which ends where it does from its last comma on.  A step moves the offset to the
next token and the invariant with it; where a step fails, the innermost list has no end, hence none
of those around it has, and the text does not begin with a document (`Begins`).  The definitions of `ConfigMeaning` are recursive functions on
positions or numbers of steps, and exist by `Recursion` of `CommonLemmas`.
`VerdictsAreRight` and `OnlyVersionsAreTaken` go on from the document that was returned.
`DocumentStands` says that its items stand for values of a text, and `LookupIs` that
`cJSON_GetObjectItemCaseSensitive`, which follows the links of the heap, then finds what `First`
finds in the text, or nothing where there is nothing: a list of members is no longer than the text,
because each stands behind the one before (`ChainIs`).  From it `TierTaken` has what a tier
leaves to each field, and `Stage` what has been staged at each `pc`.  The
text that was read may be a beginning of a version (`Begun`).  What ends in a
beginning ends at the same place in the whole text (`ListEndsSame`), so the same items
stand for values of both (`LongerStands`); `VerdictInv` therefore has `Stage` of the
text that was read and of every version that it begins (`StagedInv`), and what is handed out is what each of these
configures.  A text that is cut off inside its document does not begin with one, and what follows the
document configures nothing.  `TextRead` is what the read loop guarantees of any text, mixed ones included:
it has the length that was taken first.

`JsonString`, for every text.  The buffer has a byte for each byte of the literal less one for
each escape that was counted, and the decoder need not come by the same escapes: the digits of `\u`
are not looked at when they are measured, and may be backslashes.  So `Decoded` does not count what was decoded; it
compares the output with how many escapes were counted before the position decoding has reached.
No two counted escapes begin next to each other (`CountsApart`), so the six bytes of `\u` account for at most
three, and yield at most three bytes; the twelve of a pair for six, and yield four.
The decoder may end one byte behind the quote, after an escaped quote in `\u`'s digits; the
invariant covers that position as well.
`LiteralsAreDecoded` has an invariant of its own (`MeaningInv`).  Where decoding stands, the output
is the UTF-8 of some code points, whatever follows (`Encodes`), and the literal denotes these code points
followed by what it denotes from there (`Begins`); behind that there may be the first bytes of a
character, copied one by one (`held`).  Measuring leaves the positions it stopped at (`Boundaries`), and in
a readable literal decoding stops at these as well, so it meets the quote that measuring found and no other,
and a number is never cut off.  `Utf8Decoded` is that the bytes written for a code point are its UTF-8,
`PairIs` that the code computes the code point of a pair as it should, `CodePointsBegin` that a character
may be taken off the front.

`FrameCheck` with `Crc32`, for every polynomial that ends in 1, width, number of rows and content.
The recursive functions are reasoned about by `SetInduction`: a set of numbers that has 0 and, with
a number, the next one, has all of them, which follows from there being a least counterexample; the
operator each induction is over is the set of the numbers it holds for.  `CrcsAreRemainders` rests on
what the register holds in the middle of a byte: the remainder of the bits before, with the bits of
the byte that were put in ahead of their time added on top (`Crcs`).  Adding one bit to a message
adds one power to the sum `Remainder` is.  `BurstsAreRejected` follows the CRCs of two messages side
by side: where the register of one differs from that of the other, less what is still to come, never
becomes zero again, because the polynomial ends in 1 and a shift loses nothing; so a burst in the bits
covered changes the CRC, and one in the CRC alone does not match it (`FrameInv` is the inductive
invariant: the frame sent holds its CRC, the one received differs by at most one burst, and what
was found valid passed the checks).

Only model-checked, and why:

- all liveness (`ReadReturns`, `CursorCatchesUp`, `CommandResolves`, `FileIsLoaded`,
  `FrameIsRead`): fairness and `ENABLED` are outside the prover's reach.

Every invariant that a passing run checks is stated by a theorem.

## 5. Findings

1. A producer killed inside `motor_snapshot_publish` leaves half a row; the next one
   resets `seqlock` to 0 and readers accept the half row as consistent
   (`motor_shm.h:85`).
2. A size change whose single CONFIG_APPLIED frame is lost wedges the link: every later
   frame fails the size check, which is made before the command is looked at, so
   neither its result is seen nor its budget spent (`motor_controller.c:997`).
3. After a controller restart the latched result of a command of the former life is
   taken for that of the new command with the same number
   (`motor_controller.c:399`).
4. `cfg_watch_sync` takes the file as it is after the load, and at a start after the
   bounce of `spi-dwc`, as the baseline.  An edit made in between is never loaded
   (`motor_controller.c:813`).

Seen in the source and not given a run of their own:

- After a producer restart `wp - read_pos` wraps and the monitor adds almost 2^64 to its
  drops, "producer lapped us" (`motor_monitor.c:77`); `EveryPositionCounted` is modulo 2^64
  and holds.
- A superseded command that had been applied, followed by a rejected one, leaves
  `active_stm`, "what we believe the STM32 is currently" running, at a configuration that no
  longer runs (`motor_controller.c:498`).
- A bus that could not be reopened in a reload is not reopened by the next one, unless that
  changes the settings once more: the failed ones were adopted all the same.  The log says
  "bus stays down until the next reload" (`motor_controller.c:681`); what brings it back is
  the lazy open of a transfer, without the settings, or the reset after three errors.
- A document may be followed by anything, and a root or a tier that is no object is skipped
  without a word: both load as the defaults (`config.c:254`, `config.c:268`), although
  `config.h:14` speaks of rejecting the whole file.
- `\u` followed by anything but four digits is taken for `\u0000` (`cJSON.c:689`).
- A number outside the range of `int` is converted before it is checked, which C leaves
  undefined (`config.c:123`); on the target the conversion saturates and the check refuses it.
- The message about a parse error is taken from the text after that was freed
  (`config.c:255`, `config.c:257`).
- `rpi_gpio_cleanup` cannot be followed by a new connection (`rpi_gpio.c:114`); the
  controller only calls it when it ends.
- `motor_ring_read_slot` does not return false when a slot is overwritten during the
  copy: it retries and returns the newer block for the older position, which the
  monitor counts as seen (`motor_shm.h:197`).  `WholeAndFresh` therefore allows a newer
  block of the same slot.
- No SET_CONFIG is queued at startup although the comment says so
  (`motor_controller.c:843`; line 845 only casts the function to void).
- Rows are stamped with the sample rate that was loaded, not the one acknowledged
  (`motor_controller.c:1067`).
- A reload does not rewrite `spi.conf` or bounce the driver: the call is a `(void)0`
  (`motor_controller.c:671`), and cpha, word width and idle insertion only take effect
  at the next start.
- SIGHUP is ignored once the loop runs (`motor_controller.c:828`).
- A crash inside the bounce, or between the rewrite and the bounce, leaves a driver that does
  not run what `spi.conf` says, or none, and the next start sees nothing to do
  (`config.c:444`).  So does a bounce that did not take: the results of `slay` and of the
  restart are ignored and the wait is 200 ms (`config.c:456`).  No property relates the driver
  to the file in these cases; `BouncedForConf` allows them.
- The file that is rewritten is `/var/spi.conf` (`config.c:353`); comments speak of
  `/tmp/spi.conf` (`config.c:343`) and `/system/etc/spi.conf` (`config.h:30`, `config.h:104`).
  Nothing shows that the driver that runs at boot was started from the same one.
- A file that is truncated and written anew while the read loop runs can be read as the first
  bytes of one version and the last of another, and is adopted if that is valid
  (`config.c:248`).
- The level fallback reads frames that are not there yet: a level may be that of the frame just
  read (`motor_controller.c:333`, `motor_controller.c:364`).  The frame check turns such a read away.
- After a failed re-point `d->pin` is the new pin, and the log message prints it as the
  one "still armed" (`motor_controller.c:706`).

## 6. Plan

Done: the models of all parts but those of section 7, their runs, and the theorems of section 4.
What is left, in the order of importance:

1. `GpioClient` on its own: what each call preserves, as lemmas, so that the proofs about
   `DataReady` rest on the operations as those about `Reload` do on `LinkOps`.
2. Action properties that follow from the invariants above and are not stated yet: `out` changes
   as a whole and only with a good file; `active_stm` changes only with an acknowledgement.
3. The STM tier in `Reload`: what the file says reaches the STM32, or the command failed.

A further question of the same component joins the run that has its bounds, rather than
getting a run of its own.

## 7. What is not modelled

- The byte layout of frames beyond what the validation reads: in `MotorLink` a frame is
  intact or it is not, in `FrameCheck` it has the fields the checks use.
- `strtod`: a number token has the value it spells.
- Statistics, logging, timing instrumentation, the scaling of sensor values: no property
  is about them.
- The memory model below release/acquire: payload accesses are formally racy in C;
  the models take each word as single-copy atomic, which a torn word would still
  show as two differing words.
- `rpi_gpio.c`'s PWM and output functions and the printing, editing, comparing and
  minifying functions of `cJSON.c`, which no program here calls; `motor_controller_debug.c`,
  which is not built; the bench programs.
- Two producers at a time: nothing excludes it, and nothing survives it.
