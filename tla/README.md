# Aether X6200 Control: specifications and proofs

X6200Control is the C library between an application on the Linux board of the
Xiegu X6200 transceiver and BASE, the board that does the radio's work. BASE
streams packets (samples, meters, flags) to a serial port, and is controlled by
writing its registers over I2C. This directory holds TLA+ models of the library
with BASE, the serial line, the bus and failures around it, the TLC
configurations that check them, and TLAPS proofs.

Paths below are those of the repository; `low/control.c` is
`src/low/control.c`, `control.c` is `src/control.c`, `flow.c` is
`src/low/flow.c`.

## Inventory

The library has no thread and no lock. Each part keeps static variables; an
application calls the parts from one thread (`examples/*.c`).

| part | state | operations | talks to |
|---|---|---|---|
| Flow reader, `flow.c` | `flow_fd`, `buf`, `buf_write`, `prev_hkey` | `x6200_flow_init`, `_read`, `_restart` | `/dev/ttyS1`, on which BASE streams packets of 2088 bytes |
| Register link, `low/control.c` | `i2c_fd`, the shadow `all_cmd` | `x6200_control_init`, `_cmd`, `_host_cmd`, `_idle`, `_get`, `_get_fw_version` | BASE over `/dev/i2c-0` |
| Setters, `control.c` | `fg_vfo`, `vfo_modes`, and the shadow of the link | some eighty `x6200_control_*_set`, `_atu_tune`, `_poweroff` | `x6200_control_get`, `_cmd`, `_host_cmd` of the link; `init` (SIGUSR2) |
| Band selection, `low/control.c:483-546` | `cur_band` | `x6200_control_set_band` | nothing calls it any more (`control.c:28-35`) |
| Descriptors | the process's table | `open` and `close` in `i2c_open`, `i2c_close`, `open_flow_fd`, `x6200_flow_restart` | shared by both drivers and the application |
| GPIO, `low/gpio.c` | chip and line handles | `x6200_gpio_init`, `_set` | libgpiod |
| Examples | local state | `atu`, `vfo`, `flow`, `ptt` | all of the above |

How the parts interact: the setters read and write the shadow by
`x6200_control_get` and `x6200_control_cmd`, and the latter sends the register
at once; `x6200_control_idle` sends all of the shadow again. The reader shares
nothing with them except BASE: an application that sets a register sees the
result, if at all, in the flags of a later packet. `examples/atu.c` closes that
loop. And both drivers take their file descriptors from one table and keep the
numbers in `i2c_fd` and `flow_fd`: what one closes the other may be given.

What is hard here, and what makes each part correct:

* **Reader.** Bytes come in pieces of any size. BASE may change `hkey` after it
  has computed a packet's checksum, so the reader tries each packet twice, with
  the hkey received and with that of the packet before, and writes the latter
  into its buffer to do so. Correct means: on a clean line every packet once and
  in order; on a damaged one nothing that was not checked, no loss beyond the
  damage, and a buffer that never overflows.
* **Link.** Every transaction can fail, wholly or half-way; BASE and the process
  restart independently. Correct means: registers of BASE never hold anything
  but what the shadow held, they are equal to it again after failures, and BASE
  is greeted by both host commands, by every start again, before it is given
  registers.
* **Setters.** Some eighty settings live in some thirty registers and each
  setter masks and rewrites a whole register. Correct means: no setter touches
  another setting, and a passband goes to the filter of the mode in front.
* **Band selection.** A caller that acts only on answers of true must not be
  misled, at the end of a band nor by a frequency that is negative as `int`.
* **Descriptors.** Devices fail, are closed and reopened, and a closed number
  soon names another file. Correct means: no driver uses, or closes, what it has
  not opened, and both work again when the faults are over.
* **ATU example, GPIO.** The program learns of the tuner from packets that are
  behind BASE. Correct means: it does not stop the tuner before it has finished,
  it does not ask again, it ends, and uses no GPIO line that it could not open.

`PROJECT.json` lists every hazard at its line with the properties that would
notice it, or the reason why none does.

## Modules

| module | what it is | code |
|---|---|---|
| `FlowReader` | the reader: one action per `read()`, per way through an iteration of `flow_check`'s loop, for the memmove, the restart and the port's death | `flow.c` |
| `FrameQueue` | abstract: a queue of packets | what `x6200_flow_read` promises |
| `FlowLine` | `FlowReader` with the line that feeds it, the properties, and the refinement of `FrameQueue` | |
| `Mirror` | abstract: registers that follow others | what the link promises |
| `RegisterLink` | the link with BASE, the bus and crashes; one action per I2C transaction | `low/control.c` |
| `Setters` | the setters as operations on words, a table of fields for those that mask and insert | `control.c` |
| `FrontPanel` | any sequence of setter calls, and what was asked for | the callers of `control.h` |
| `Band` | `band_index`, `x6200_control_set_band` and a caller that acts on the answer | `low/control.c:483-546` |
| `Descriptors` | `i2c_fd` and `flow_fd` in the table they share with the application | every `open` and `close` of `low/control.c` and `flow.c` |
| `Gpio` | the handles and outputs of five lines | `low/gpio.c` |
| `OneTuning` | abstract: one tuning, withdrawn when it is over | what `examples/atu.c` means to do |
| `Tuning` | `main` with `Gpio`, BASE's tuner and the packets on their way | `examples/atu.c`, `control.c:169-188` |
| `MCFlow`, `MCRegisterLink`, `MCFrontPanel`, `MCBand` | small instances for TLC | |
| `FlowLine_proofs` | theorems: buffer, checksum, contiguity | |
| `FlowLoss_proofs` | theorems: repeated, late and lost packets | |
| `FlowQueue_proofs` | theorem: the refinement of `FrameQueue` | |
| `RegisterLink_proofs`, `FrontPanel_proofs`, `Band_proofs`, `Descriptors_proofs`, `Tuning_proofs` | theorems about the other parts | |

### FlowReader and FlowLine

A packet of 2088 bytes becomes `PackLen` cells: the magic word, a payload cell,
`hkey`, `crc`. The buffer keeps its real proportion of three packets
(`flow.c:21`). `buf` stands for the bytes between `buf` and `buf_write`; bytes
past `buf_write` are never looked at. `read_ptr` is an offset from 0. The
checksum is a constant operator `Crc`; the runs give it an ideal one (different
contents, different checksums), the proofs any at all.

A call of `x6200_flow_read` is `ReadNothing`, or `ReadCells(n)` followed, when
more than a packet is there, by steps of `flow_check` and `Compact`. Details that
matter and are kept: room is made before `read()` even if it then returns
nothing; a buffer that holds exactly a packet is not scanned; the
second check overwrites `hkey` in the buffer and a failed one does not undo it;
a tail of length zero is not moved, which leaves a packet that was already
handed out in the buffer; a restart empties the buffer and keeps `prev_hkey`.

`FlowLine` adds the stream as a whole (`stream`), the place from which the
open port reads it (`opened`), and the place where each packet handed out stood
(`places`, a history variable). A packet is known by its place and not by its
contents, so that two packets that happen to be alike are two, and a packet that
comes out twice is one. `ReadUpTo` is the place of the oldest cell in the buffer. `LineCallSpec` has calls only; `LineSpec` adds
restarts (with any number of cells lost, reopened or not) and a port that dies.

### RegisterLink

`pc` says which transaction of `x6200_control_init` or `x6200_control_idle` the
process makes next. Each action is a transaction and the code up to the next
one: its success and its failure are the two disjuncts. `SendFails` may leave a
first part of the registers in BASE. `ready` is register 0x2000, which
`x6200_control_init` polls; while it is 0 BASE may acknowledge and ignore.
`i2c_close` comes directly after the failed write and cannot be told apart from
it. `Stick` is a descriptor that stops working until the device is opened again,
the reason for `i2c_close` and `i2c_open` in `x6200_control_idle`. Two variables
are history: `hosted`, the host commands that BASE has taken from this start
(every `x6200_control_init` empties it, in the same process or in another), and
`restarted`, whether BASE has restarted since this start polled it.

### Setters and FrontPanel

A word is the set of its bits that are 1, so masks are set differences and
shifts are images. A setter that reads, masks and inserts is a row of a table:
register, first bit, number of bits cleared, number of bits kept of the
argument. `take` and `width` differ where the code's masks do (`agc_slope`,
`mic`, `vfo`, `txpwr`). Setters that do more have actions of their own.
`x6200_control_cmd` is the shadow's change alone here: it happens whether or not
BASE can be reached, and whether BASE hears of it is `RegisterLink`'s subject.
`x6200_control_ssb_filter_set_set` is not in the header (`control.h:52`) and is
modelled all the same: it puts the edges into the other halves than the rest of
the filter setters and leaves `rxfilter` alone, so after it the filter kept for
ssb is no longer the passband asked for.

### Band

A frequency is a `uint32_t` in two halves of 16 bits, which keeps TLC's integers
in range; `ToInt` is the conversion to `int` of the call of `band_index`. The
chain of comparisons is the first n for which `Below(freq, n)`. `acted` is what
the caller knows: the last frequency that was answered with true. `Limit` holds
the numbers of the code; what they should be is `Listed`, the list of bands in
the comment at `low/control.c:341-351`, and the properties are about that list.

### Descriptors

`file` says what each number names, and `open` gives out the lowest free one. A
call of the library is one step, since the table belongs to a process of one
thread. Kept are the details that go wrong: `i2c_open` overwrites `i2c_fd`
without closing it; `open_flow_fd` stores the number before the settings are
made and closes it, without forgetting it, when they fail (`flow.c:136`);
`x6200_flow_restart` closes whatever `flow_fd` names, `close(-1)` included. The
application opens and closes files of its own. `RetryAtOnce` is a rule for the
caller, stated nowhere: after a restart that returned false nothing is opened
until it has been repeated.

### Gpio and Tuning

`handle` tells a pointer that is NULL, a line that was found and not granted,
and one that can be used; `x6200_gpio_init` may end at any of its seven steps, and
twice within each step for a line. `Tuning` has an action for each transaction
and each packet read. A packet is its flag `tx`, is read once and in order, and
not before the next has begun to arrive, which is what `FrameQueue` promises and
`FlowLine` shows; a packet that is lost or damaged is one not sent, so that
`SendPacket` may skip any part of a tuning. Each command is lost or not, and as
the example never calls `x6200_control_idle` a lost one stays lost; the shadow is
therefore not needed. What BASE does on the host command without the bit is not
known and left open.

## Runs

All finish in well under five minutes. "Slip" operators are explained under
Mutants.

| run | bounds | shows |
|---|---|---|
| `flow_queue` | 4 packets, 2 hkeys, every assignment of hkeys, every set of packets whose checksum was taken before hkey changed, reads of 1 to 6 cells | `QueueSpec`: the reader implements `FrameQueue` with its fairness: every packet once, in order, unchanged, and never waiting for more bytes than it needs |
| `flow_streams` | 4 packets with up to 6 cells missing at any place, or one cell replaced by noise or by a cell of the magic word; any 4 packets, and 6 packets that start with a late one, each with a checksum that fits its hkey, the first, another, or none | `TypeOK`, `LossIsLocal`, `BacklogBounded`, `BufferSafe`, `OnePiece`, `AtMostTwice`, `OneLate` |
| `flow_restart` | 4 packets, restarts and port deaths at any step | `LossIsLocal`, `Checked`, `OnePiece` |
| `link_faults` | 3 registers of 2 values, 4 faults at any moment, save that the descriptor does not stick during a start | `TypeOK`, `InStep`, `CatchesUp`, `InitReturns`, `GreetedFirst` |
| `panel_fields` | every pair of calls of all setters, arguments with no bit, all bits, the outermost bits | `PanelTypeOK`, `LastCallWins` |
| `panel_filters` | 5 calls of VFO, mode and filter setters, 3 passbands, all 10 modes | `PassbandKept`, `RightFilter` |
| `tuning` | 4 packets on their way, any command lost, any step of the start failing | `TuningTypeOK`, `LeavesClean`, `LineHeld`, `TunesOnce` (implements `OneTuning`), `LoopEnds` |
| `descriptors_rule` | 7 numbers, 2 files of the application, 3 faults, `RetryAtOnce` | `DescriptorsTypeOK`, `OwnFiles`, `LeakBounded`, `OthersUntouched`, `BothRecover` |
| `descriptors_reset` | the same without `RetryAtOnce` | violates `BothRecover`, see Findings |
| `band` | 0, both ends of every band as code and list have them and the frequencies beside these, 2^31 - 1, 2^31, 2^32 - 1, in any order | `BandTypeOK`, `CallerKnowsBand`, `NoIdleChange`: both leave out the frequencies at the start of 60 m on which code and list differ (`Disputed`) |
| `band_list` | the same | violates `ListedBandKnown`, see Findings |
| `panel_defaults` | the state after `x6200_control_init` | violates `DefaultFilters`, see Findings |

Why these bounds are enough to be interesting. Reader: the buffer is three
packets, and it takes four of them to have one in the buffer before, at, and
after the one in question with another arriving. The shift in
`x6200_flow_read` is hard to reach at all, since each call takes out what it
puts in: it needs a packet that failed both checks to become valid by the next
one's hkey, which `flow_streams` puts at the start of its six-packet streams, so
that the shift happens with a packet still to come. The magic word of three
cells overlaps itself by one, as 0xAA5555AA does. Link: order matters only as "a first
part of the registers was taken", for which three registers have all cases
(none, some, all); four faults allow a failed write, its failed reopening, a
restart of BASE and a crash in one behaviour. Setters: a setter depends on one
register only, so a pair of calls shows any interference; five calls are a
change of VFO, of mode, a full passband, an edge and one more. Tuning: the
program leaves a packet unread while fewer than two are there, so four let it be
up to three behind, a whole short tuning and the packets from before it
included. Descriptors: two numbers of the drivers, standard input, one file of
the application, and one leaked number for each of three faults are all in use
at once with seven. Bands: all frequencies between two ends behave alike.

What the reader's properties say, precisely, about its less obvious behaviour:
a packet can be handed out twice, and a packet that failed its checks can come
out one packet late, but never more (`AtMostTwice`, `OneLate`). Both come from
the tail of length zero that stays in the buffer (`flow.c:215`) together with
the hkey written into it (`flow.c:196`); neither happens on a clean line
(`QueueSpec`). More than two packets' worth of cells are kept between calls only
in that case, when the newest of them have been handed out (`BacklogBounded`): the
shift in the next `read()` throws away nothing that the caller still waits for. An intact packet overlapped by a false magic word may be lost
(`Clear` in `LossIsLocal`).

## Fairness

* `LineCallSpec`: weak fairness of a `read()` that returns bytes and of the
  steps inside a call. The applications poll in an endless loop
  (`examples/vfo.c`) and one call is straight-line code with a loop that
  advances. No fairness on restarts: the header asks the application for them,
  nothing does them.
* `FairSpec` of the link: weak fairness of the start (the application starts
  again after failing or being killed), of `x6200_control_idle` (meant to be
  called periodically: `REFRASH_TIMEOUT`, `low/control.c:22`) and of BASE
  finishing its own start. Faults are finite in number, so that from some point on
  nothing fails; `CatchesUp` says the registers are equal to the shadow again
  after each, and infinitely often. No command need ever be given.
* `StickAt` lets a descriptor stick only while the application runs. This bound
  is needed: `x6200_control_init` polls without reopening the device
  (`low/control.c:137-147`), and if the descriptor is what fails it never ends.
* `FairSpec` of `Tuning`: the program runs; BASE sends packets (every 35 ms,
  `low/flow.h:94`); a tuning ends by itself. `LoopEnds` begins with a packet that
  shows the tuner at work, because nothing assures that there is one: a tuning
  that is over before its packet is read leaves the loop waiting
  (`examples/atu.c:60`).
* `FairSpec` of `Descriptors`: the application starts the drivers until that
  succeeds, calls `x6200_control_idle`, and restarts the port as long as it gives
  nothing, which the header asks of it (`low/flow.h:94`). Faults are finite in
  number.
* The models of the setters and of the bands have no liveness.

## Mutants

Each property of each passing run comes with a mistake in the code that breaks
it. The mistakes are operators next to the ones they stand in for, marked
"Slip": a check that is not looked at, a pointer that is not reset, a shift at
the wrong end, a mask that is not applied. Nothing else uses them.

## Proofs

TLAPS proves, for every value of the constants that meets the named assumptions:

| theorem | statement | along which argument |
|---|---|---|
| `LineTypeCorrect` | `LineSpec => []TypeOK` | `BufferInv` |
| `BufferAlwaysSafe` | `LineSpec => []BufferSafe` | `BufferInv`: at most `BufSize` cells, and `read_ptr` within them while scanning. `BufferSafe` alone is not inductive: it says nothing of `read_ptr` when a scan is about to begin |
| `OnlyCheckedPackets` | `LineSpec => []Checked` | `CheckedInv`: `prev_hkey` is that of the last packet handed out, in every state, through false starts and restarts |
| `BufferIsOnePiece` | `LineSpec => []OnePiece` | `PieceInv`: with `CheckedInv`, what has yet to be read is the rest of the stream, and the buffer ends where that begins; `prev_hkey`, the only value written into it, is a key seen |
| `NothingThreeTimes` | `LineSpec => []AtMostTwice` | `TwiceInv`: a packet that came out twice has left the buffer or leaves it with the next memmove: it was whole the first time, more of the stream was read before the second, and so there is a tail behind it to move (only a tail of length zero is not moved) |
| `OnlyOneLate` | `LineSpec => []OneLate` | `LateInv`: nothing handed out stood more than a packet's length past the start of the buffer, or of what the next shift keeps of it (`Behind`) |
| `CallerKeepsUp` | `LineSpec => []BacklogBounded` | `BacklogInv`: a scan that hands nothing out leaves less than two packets' worth and something to move, so when the tail is empty a packet was handed out that ends with it. `BacklogBounded` says nothing of the states inside a call |
| `DamageStaysLocal` | `LineSpec /\ []KeysApart => []LossIsLocal` | `LossInv`: an intact packet that nothing overlaps is handed out, or is still to come: the scan has not passed it, no shift will discard it and no hkey was written into it (`Waiting`). `StopsBefore` says that a scan ends at its start or a whole packet before. `LossIsLocal` speaks of packets that have left the buffer and is not inductive |
| `CallsAreAQueue` | well-formed streams prove `LineInit /\ [][LineCall]_lineVars => Queue!Spec` | `QueueInv`: between calls the buffer starts at the end of the last packet handed out and holds one at most; a scan has that packet whole and something behind it, so there is always a tail to move; `prev_hkey` is the hkey of the packet before, so one of the two checks fits. A step that hands out a packet is `HandOver`, a `read()` is `Arrive`, the others stutter |
| `TypeCorrect` | `Spec => []TypeOK` of the link | by itself |
| `StaysInStep` | `Spec => []InStep` | `InStepInv`: after a good full write BASE is ready until trouble begins, so an acknowledged write was taken |
| `GreetingComesFirst` | `Spec => GreetedFirst` | `GreetInv`: unless BASE has restarted since, it is ready from the poll on, and has been told by this start what the process's place in it says |
| `LinkImplementsMirror` | `Spec => Follows` | step by step to `Mirror!Next`, with types |
| `PanelTypeCorrect` | `Spec => []PanelTypeOK` of the panel | by itself |
| `LastCallAlwaysWins` | `Spec => []LastCallWins` | fields that share a register do not overlap, so an insertion shows in its field and in no other (lemmas `InsertHere`, `InsertBeside`) |
| `PassbandAlwaysKept` | `Spec => []PassbandKept` | with types; halves of a word are disjoint |
| `FilterIsRight` | `Spec => []RightFilter` | `CopiesAgree`: the library's copies of VFO and modes agree with the registers, modes up to the kind of filter, since they start as lsb and usb |
| `BandIndexIsMeant` | `band_index(f)` for every integer that is not `Disputed`: as the list of bands has it, odd inside a band, even between two | the limits are increasing, so the first comparison that holds is found by its neighbours (no induction: there are 22), which is the place of `f` among the code's limits (`Placed`); the limits are the ends of the list but for one (`SameEnds`) |
| `BandInvariant` | `Spec => []BandInv` | `cur_band` is the place of the last frequency, and of the last that was answered with true; `CallerKnowsBand` speaks of those two only and is not inductive |
| `BandTypes` | `Spec => []BandTypeOK` | a conjunct of `BandInv` |
| `CallerAlwaysKnowsBand` | `Spec => []CallerKnowsBand` | from `BandInv`: outside the disputed end the place is the number by the list (`PlaceIsMeant`) |
| `NeverAnIdleChange` | `Spec => NoIdleChange` | the same, and a frequency has one place |
| `FilesStayOwn` | `RetryAtOnce` proves `Spec => [](DescriptorsTypeOK /\ OwnFiles)` | `DescInv`: with `OwnFiles`, no number names the port before `x6200_flow_init` opened it, so its first `open` cannot leave one behind and nothing is refused yet |
| `DescriptorTypes` | `Spec => []DescriptorsTypeOK`, with or without `RetryAtOnce` | `TypesInv`: a start that fails with the device open has met a fault, so `failed <= faults`, which is what bounds `failed` |
| `OthersStayUntouched` | `RetryAtOnce` proves `Spec => OthersUntouched` | from `DescInv`: what a driver closes is its own or free, and a free number given out again was not the application's |
| `LeakIsBounded` | `Spec => []LeakBounded`, with or without `RetryAtOnce` | with `TypesInv`: a driver closes the number it gives up first, and if that had come to name the file of another, that file is closed and not lost. `LeakInv`: the `i2c_fd` of a failed start counts as lost at once; `LeakBounded` counts it only when the next start overwrites it, and is not inductive |
| `TuningInvariant` | `Spec => []TuningInv` | what the packets on their way tell: one with `tx` was sent after the tuner began, one without behind it after it ended; with that, the place of the program bounds how far BASE can be |
| `TuningTypes`, `ProgramLeavesClean`, `LightLineHeld` | `Spec => []` of `TuningTypeOK`, `LeavesClean`, `LineHeld` | conjuncts of `TuningInv` |
| `ImplementsOneTuning` | `Spec => TunesOnce` | step by step to `OneTuning`: `bit_off` is a `Withdraw` because `TuningInv` says the tuner is over |

Assumptions. `LayoutAssumption` of the reader: a magic word of at least two
cells before `hkey` before `crc`. `StreamsAssumption`: streams are sequences of
cells. `RegisterAssumption`, `FaultAssumption`: types of the link's constants.
`LayoutAssumption` of the panel is not about a constant: it says of the table of
fields that no two overlap and all lie in a word, and TLC evaluates it on every
run of the panel. `ArgAssumption`: arguments fit their fields, needed because
`agc_slope`, `mic` and `vfo` are not masked. `PassbandAssumption`: the high edge
is not negative, needed because it is sign-extended over the low one
(`control.c:136`); every filter of the code has such edges. `FreqsAssumption`:
frequencies are `uint32_t`. `BoundsAssumption` of the descriptors: there is at
least one number, and bounds are natural. Without the hypothesis `RetryAtOnce`
`OwnFiles` and `OthersUntouched` are false: a number kept after its file was closed
(`flow.c:136`) may be the I2C device's or the application's by the next restart.
`PacketsAssumption`: at least two packets can be on their way, which the invariant does not need and the reading does.

Of the reader's theorems none needs an ideal checksum: `Crc` may be any function,
and noise may pass it. `CallsAreAQueue` has a hypothesis about the streams,
`WellFormed`: they are whole packets, each of which starts with the magic word and
carries a checksum that fits its hkey or that of the packet before. `MCFlow`
states the same of the streams of `flow_queue` and TLC evaluates it.

`DamageStaysLocal` has the hypothesis `[]KeysApart`: no hkey that is handed out,
nor the 0 that `prev_hkey` starts with, is a cell of the magic word. The
argument needs it: `flow.c:196` writes the last hkey into the buffer before the
second check; were it a piece of the magic word, a word that was never sent could
come about just before an intact packet and overlap it. With a magic word `1 2 1`,
packets of six cells and an hkey 2: a false start seven cells before an intact packet
has this hkey written into it, which makes a magic word four cells before that
packet, whose own check then writes over the packet's first cell. `BufferIsOnePiece`
is proved without the hypothesis. In `flow_streams` and `flow_restart` the checksum is ideal, so an hkey
handed out is one that some packet's checksum was taken with, and none of those
is a cell of the magic word.

Only model-checked, because liveness is out of the prover's reach: the fairness
part of `QueueSpec`, `CatchesUp`, `InitReturns`, `LoopEnds` and `BothRecover`. Every
safety property of a passing run is a theorem.

## Findings

**Default filters.** `x6200_control_init` fills the default filters with words such as `0xb80b2c01`
and names their edges in comments, "0bb8 - 3000, 012c - 300"
(`low/control.c:328`). `x6200_control_rx_filter_set` and its two companions
keep the low edge in the upper half and the high edge in
the lower, in the machine's byte order. Read that way the defaults mean other
edges: the constants look as if they had been copied from a dump, byte by byte.
`panel_defaults` shows it.

**A reset that does not bring the port back.** When the settings of the port
cannot be made, `open_flow_fd` closes it and leaves the number in `flow_fd`
(`flow.c:136`). If `x6200_control_init` or `x6200_control_idle` opens the I2C
device before the next restart, it is given this number. From then on the two drivers take it from
each other: `x6200_flow_restart` closes it as its own and opens the port under
it, `x6200_control_idle` finds that `i2c_fd` does not work, closes the port and
opens the I2C device under it, and so on, with no further fault.
`descriptors_reset` shows it: the port "dies. And then you have to reset it"
(`low/flow.h:94`), but resetting it does not help. Setting `flow_fd` to -1 beside
the `close` would do; so does the caller's rule of `descriptors_rule`.

**Where 60 m begins.** `band_index` has the band from 5330500 on
(`low/control.c:493`); the list of bands in a comment of the same file says
"60m  5332000  - 5405000" (`low/control.c:343`). The other twenty-one ends agree.
`band_list` shows what a caller notices: `x6200_control_set_band` answers true at
5330500 and false at 5332000, so that for the caller of the list the change into
the band never happened. The comment does not say whose list it is; one of the
two numbers is wrong. The properties of `band` hold for every other frequency.

Behaviours worth knowing that no text of the repository contradicts: the poll of
`x6200_control_init` does not reopen a stuck descriptor; after BASE restarts on
its own the host commands are not repeated; packets may be repeated or late as
above; the power-off bit stays in the shadow; a failed start leaks a descriptor;
`x6200_control_ssb_filter_set_set` has the edges in the other halves than
`x6200_control_rx_filter_set`; `cur_band` starts below 160 m while BASE is
started on 14.074 MHz; the tuner example waits for ever if it misses the tuner,
and leaves the tuner's bit set if its last command is lost; a second
`x6200_control_init` in one process resets the registers and not the library's
copies of VFO and modes; `x6200_flow_restart` after a failed `x6200_flow_init`
opens the port with no buffer to read into.

## Not modelled

Termios settings and the polynomial of the CRC (data);
`x6200_control_get_fw_version` (a read that changes nothing); the examples
`vfo.c`, `flow.c` and `ptt.c`, which run straight through the library and keep no
state but a counter; build files. Of the tuner example: an operator who keys the
transmitter meanwhile, whom the program takes for the tuner, and the lines that
`x6200_gpio_init` keeps when it is called again. Starts of the library that are
repeated in one process after they succeeded. Threads: the repository creates
none, so the unlocked read and write of the shadow in the setters is not a race
here.

## Plan

Done, in this order: the reader with its line (the most intricate code), the
link with its failures, the setters; abstract specifications `FrameQueue` and
`Mirror`; band selection; the descriptors that both drivers share; the tuner
example with GPIO and its abstract specification `OneTuning`; the runs and
theorems above.

Decided against: the panel on the link. A setter that sends two registers
(`set_rx_filters`) is two commands in a row, the second sent whether or not the first
succeeded; each fails like any other command of `RegisterLink`, whose properties
hold for every sequence of commands, so that a composition would say nothing that
`InStep` and `CatchesUp` do not.
