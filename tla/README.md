# Verification of the ulp firmware

ulp is a framework for bare metal firmware (`src/src`): drivers for a few
families of microcontrollers, a small library (ring buffers, shell, parsers,
file transfer), a main loop, and on top of it one application per product under
`src/src/tasks`. This directory holds TLA+ models of the parts whose behaviour
depends on the order in which things happen, the TLC runs that check them, and
TLAPS proofs of their most important properties.

Paths below are relative to `src/src` unless they start with `src/`.

1. [Inventory](#1-inventory)
2. [What is modelled where](#2-what-is-modelled-where)
3. [The runs](#3-the-runs)
4. [Where code and comments disagree](#4-where-code-and-comments-disagree)
5. [The proofs](#5-the-proofs)
6. [What is not modelled](#6-what-is-not-modelled)

## 1. Inventory

There is no operating system. A program is one `while(1)` loop that calls
`sys_update` (shells, leds, background tasks) and its own update routine, plus
the interrupt handlers of the hardware it uses. Two mechanisms make the order of
events hard to see in the code:

* an interrupt handler runs between any two instructions of the main loop, and
  what they share is protected by discipline only (masking, single writers);
* many routines wait by calling the main loop's update routine again. `vm_wait`
  in `tasks/irt` runs `irc_update`, which runs the shell, so every command and
  every error may arrive in the middle of another operation, on top of its stack.

There are no unit tests in the repository; the comments at the head of the files
("design hints", "limitations") are what says how a part is meant to work.

### The irt instrument (tasks/irt)

The largest application with a protocol of its own: an instrument that switches
some thousands of relays and measures through them. One `irc` board talks to the
host over a shell and to up to 64 slot cards (`mxc.5x32.4`) over a can bus; a
wire called LE, driven by irc and pulled low by any card that objects, lets the
relay drivers of all cards take over their shift registers at the same moment.

| part | state | operations | talks to |
|---|---|---|---|
| opcode machine, `vm.c` | queue `vm_opq`, current, range end and prefetched opcode, ARM and scan counter | `ROUTE` commands add opcodes; `vm_update` takes one and executes it | `mxc.c` through `vm_execute` |
| frame packing and latch, `mxc.c` | frame buffer `mxc_odata`, type of the last operation, busy flag | `vm_execute`, `mxc_emit`, `mxc_latch`, `mxc_measure` | slot cards, meter, LE |
| slot manager, `mxc.c` | `mxc_list` with flags, error and lost counter of each slot, mailbox `mxc_new`, `mxc_ping_enable` | `mxc_can_handler` (interrupt), `mxc_update`, `mxc_scan`, `mxc_mode` | slot cards |
| main loop and error trap, `irc.c`, `err.c` | `irc_ecode`, `irc_status.error` | `irc_update`, `vm_wait`, `irc_error_set`, `*CLS`, `*ERR?`, `*RST`, `ABORT`, `*OPC?`, `MODE` | all of them |
| slot card, `mxc.5x32.4` | status, LE lock, error, two relay images; shift register, latch and enabled outputs of the relay drivers | `mxc_can_handler` (interrupt), `mxc_update` (main) | irc, LE, relays |
| power supplies, `dps.c`; other generation, `umx.c` | set points, debounced comparators | `dps_update`, `dps_hv_start` ... | adc, `mxc.c` |

What makes them correct:

* *opcode machine*: whatever the host sends and however scans are cut by ARM, by
  the end of a list and by the eight bytes of a frame, every relay action goes out
  once and in order; a range is never split over two frames; a scan measures with
  exactly ARM points; `*OPC?` does not answer "completed" too early; the machine
  always empties its queues.
* *latch*: no relay moves while a card has an error; when a latch succeeds, every
  card that missed no frame shows what the commands asked for, through resets, hot
  plugging, races inside a card, and frames that others missed.
* *slot manager*: one entry per card; a card that starts is answered; a card that
  failed or vanished is reported, past any number of acknowledged errors.
* *card*: of a range that spans cards each one switches its own part, no more.

Hard: four actors (main routine of irc, its can interrupt, main and interrupt of
each card), a shared wire, frames that are not sent, sent late or lost, commands in
the middle of waits, an error trap that can be re-entered, resets, hot plugging,
timeouts.

### The sample fifo (lib/common/fifo.c) and its users

A ring of integers between the data ready interrupt of an a/d converter and the
main loop (`tasks/misc/vwpwr.c`, `vwsig.c`, `fdsig_dmm.c`). Its state is a
buffer and two positions. The producer either drops a sample when the ring is
full (`fifo_push`) or throws the oldest away (`fifo_push_force`), and then the
producer writes the reader's position. Correct means: samples come out in order,
none is lost once accepted (or only the oldest), none is seen twice, and after a
dump none of the previous channel is seen. Hard: nothing but the order of two
writes, and masking where it is done, protects the ring.

### File transfer (lib/common/kermit.c, lib/shell/cmd_load.c)

The command `load` takes the console over and receives a file by the kermit
protocol, to memory or to flash. State: packet state machine, an output buffer of
a page (or the memory itself) with a checkpoint of it, a second buffer for the
rest of a packet that meets the end of a page, the last sequence number. A packet
in error or seen again rolls the buffer back. Correct means: each byte of the file
is written once and in order, success means the whole file, and a transfer ends.
Hard: retries after lost answers, and a page that was written meanwhile.

### Link to a second processor (lib/common/vchip.c) and its multimeter

Registers of one processor are read and written by another one over spi, one byte
at a time, while the slave's interrupt interprets them and its main loop changes
them. `tasks/ybs/ybs_cal` measures this way. Correct means: a write that is
acknowledged was made as asked (or not at all where the code refuses it in silence), a value belongs to the mode that was set, and the
host never hangs. Hard: either side restarts between any two bytes, and an escape
byte may be the last thing the slave saw.

### Shell command queue (lib/shell/cmd.c)

A line may go to the background: with a period, for a number of loops, or as long
as its command asks for it. State: a list of nodes, a pause flag, the deadline of
each node. Commands run inside the walk of the list; a command that waits runs the
shell, and with it another walk and another line. Correct means: one node for each
command, no loop lost and none added but by a command that asks for it, every node
gets its turn.

### Non-volatile variables (drivers/flash/nvm.c)

Two copies of the variables at the end of the flash. A save writes the first
copy, erases and writes the second one, and erases the first; the start of the
program finishes what a loss of power has cut off. Correct means: after any
number of failures at any moment the variables are the old ones or the new ones.

### Other parts

* **mempool, debounce, tstep** (`lib/common`): small sequential state machines.
* **modbus and kwp2000** (`lib/common/mb.c`, `kwp.c`), **ccp, mcamos, usdt**
  (`lib/priv`): request and answer protocols with timeouts.
* **instr** (`lib/instr`): finds instruments on a bus and shares them.
* **drivers** (`drivers`): can with a software fifo filled by the interrupt, uarts
  with dma rings, an nrf radio, and many thin layers on registers.
* **system and tasks** (`lib/sys`): update routine of all libraries.
* **osd, gui, pmsm**: drawing, and mathematics of motor control.
* **test stations** (`tasks/*`): one long sequence of steps per product.
* **vendored**: `cpu`, and `lib/FreeRTOS`, `fatfs`, `lua`, `lwip`, `zbar`,
  `mass_storage`.

## 2. What is modelled where

| module | models | composed with |
|---|---|---|
| `Fifo` | `fifo.c`, the handlers that push and the masking around `fifo_pop` and `fifo_dump` | implements `BoundedQueue` |
| `BoundedQueue` | what the fifo promises: a bounded queue of numbered samples | |
| `IrtVm` | `vm.c`, and of `mxc.c` and `err.c` what carries out one opcode | implements `RelayOrder` |
| `RelayOrder` | what the host relies on: relay actions go out once, in order | |
| `IrtBus` | latch, mode and frames of irc, and the cards with LE, images and relays | |
| `IrtPoll` | the list of slots: mailbox, answers, pings, failed slots, nested traps | |
| `SlotSwitch` | which relays the opcodes of a frame select on each card | |
| `Kermit` | the packet receiver with the loader, a sender and a line that fails | |
| `Vchip` | both ends of the link, byte by byte | |
| `Mcd` | the multimeter: host functions on one end, the slave's loop on the other | extends `Vchip` |
| `CmdQueue` | the command queue and the nested calls of the shell | |
| `Nvm` | the two copies of the variables, flash operation by flash operation | implements `NvmStore` |
| `NvmStore` | what a program relies on: one disk, replaced at one moment | |
| `MCIrtVm`, `MCIrtBus`, `MCIrtPoll`, `MCKermit`, `MCMcd`, `MCCmdQueue`, `MCNvm` | small instances | extend the above |
| `FifoProofs`, `IrtVmProofs`, `IrtBusProofs`, `IrtPollProofs`, `KermitProofs`, `McdProofs`, `CmdQueueProofs`, `NvmProofs` | theorems | extend `Fifo`, `IrtVm`, `IrtBus`, `IrtPoll`, `Kermit`, `Mcd`, `CmdQueue`, `Nvm`; `IrtBusProofs` also extends `SlotSwitch` |

The irt instrument is cut in four because its parts share little: `IrtVm` decides
what is in a frame and when one goes out, `SlotSwitch` what a card makes of its
opcodes, `IrtBus` when relays follow, `IrtPoll` which cards are known. Where one
of them needs another, it lets anything happen: frames in `IrtBus` carry any
operation of `Switches` at any time, and an error of a slot in `IrtVm` comes at
any wait.

**`Fifo`.** The handler is one action, as nothing preempts it. Main's `fifo_pop` is
four (`PopLoad`, `PopTest`, `PopRead`, `PopStore`), one per access to shared
memory, and `fifo_dump` is two, so a handler may come between any of them unless
`irq` is off. `Forced` selects the push, `Masked` whether main masks the interrupt
around `fifo_pop`. A sample is its serial number; `out` and `floor` remember what
main took last and what came first after the last dump.

**`IrtVm`.** `pc` is where the main routine is between `vm_update` and the end of
`vm_execute`. The nested loops of the code that wait (`vm_prefetch`, the latch,
the measurement, the trap) are the states where `AtWait` holds; there, and only
there, the shell actions (`Route`, `RouteArm`, `Mode`, `Cls`, ...) may happen.
`loc` is the local variable of `vm_prefetch`. A point is one number, line times
buses plus bus, as in the bit field of `opcode_t`. An error goes to `trap`, and
`ret` says where the code goes on after `*CLS`: most callers of `irc_error` ignore
that it was called, and the model follows them, so a group whose frame was lost is
still latched and measured. Left out: the time of waits, the power supplies, the
frame counter (no card checks it, `mxc_verify_sequence` returns 0), the dead check
of the bus of a range in `vm_prefetch`, parsing.

**`IrtBus`.** Each card has a can fifo, a status, an LE lock, an image, a static
image, the shift register and latch of its relay drivers, their outputs enabled or
not (`oe`), and one relay, `Closed`. `Line` is the wired LE; `Drive`, the last
conjunct of every action that may change it, lets the latches follow the shift
registers while it is high. A card that is reset goes through `BOOT`: its processor
stops, lets LE go and forgets its memory, but the drivers keep shift register and
latch, as nothing clears them (`bsp.c:281-310`); what they hold after power-up is any
of `Residues`. `PowerUp` is `mxc_init`, after either; it disables the outputs, and
the first MODE the card accepts enables them, before the empty image is shifted
out (`mxc.c:156`).

The can interrupt of a card is the actions `OnReset` ... `OnSwitch`; its main loop
matters for one thing, the status read in `CheckLost` and overwritten in `SetLost`,
with interrupts in between. irc's `mxc_latch` is `Rise`, `Fall` and `GiveUp`, so
resets, commands, errors and hot plugging fall between them. `Send` is `irc_send`: a
frame is delivered, or it is not sent in time, which is an error; then it stays in the
mailbox `tx` and may still be sent (`SendLate`) until the next frame cancels it. A card
whose fifo is full has its last frame overwritten (`Put`). The code goes on after such
an error, and so does the model: `Mode` without its frame sets `mxc_ping_enable` and
skips the latch, `Cmd` without its frame waits for `*CLS` (`held`) and then latches all
the same (`Resume`). `want` records what the commands asked for, `synced` the cards
that missed no frame since a MODE that was sent. A list chained like `(@a:b:c)` makes
an opcode no card knows, and with it an error of one card in the middle of a group.

**`IrtPoll`.** `Hear` is the can interrupt of irc. `mxc_update` is cut where main
reads or writes what the interrupt writes: `TakeNew` and `FreeNew` for the
mailbox, `Ping` and `Count` for the lost counter, `Answer` and `Forget` for the
INIT flag. `stack` holds the calls of `irc_error_set` that are trapped, each with
the place of `irc_update` it will return to. `Expire` lets the timers run out.

**`SlotSwitch`.** A frame with any operation on a point or a range of the whole
matrix, then an `OPEN`; every card clips the range to its own lines. `Points` is
the host's view, as `vm.c` counts points, `CanSwitch` the card's.

**`Kermit`.** One action is one turn of the loader's loop: what `kermit_recv` does
with what has arrived, then the drain of a full page. `k` is `kermit_t` with its
output buffer: `mem` and `size` are `obuf`, `saved` its checkpoint, `tbuf` the
second buffer. A byte of the file is its position, a byte the line changed is
`Junk`, which stays in the buffer until a rollback. The line may lose a packet,
garble its header or its body, cut off its end (the receiver then takes the next
packet for the rest), and lose an answer. `Drain` writes a page the moment it is
full, while `saved` still counts from the page before; this is where a rollback
can go wrong. Left out: the quote character, which only changes how many bytes a
byte takes; file names of more than 31 bytes, whose rest goes into the file
(`kermit.c:340`); a length byte that was made larger than the input buffer, which
ends in the timeout; packets of extended length (see section 4); the dummy target.
`wait` is how many times the sender may still send before the loader's timeout is
over: the loader asks it to repeat after 3 seconds (`kermit.c:401`) and waits 60
seconds for the first byte, 6 for each later one (`cmd_load.c:34`, `74`), so `FirstWait`
is 20 and `LaterWait` 2. Each packet, or its answer, that is lost counts one down, and
what is heard sets it again; `Expire` ends the transfer when it is 0, whatever the
sender does, or when the sender is gone. A packet whose first byte is lost is one
that was not heard.

**`Vchip`, `Mcd`.** `Xfer` is one byte each way with the slave's interrupt:
`Update(b)` is `vchip_update`. The host's frames are the sequences `todo`; `READ`
marks a byte that is read. `Mcd` adds the host's `mcd_init`, `mcd_mode` and
`mcd_read` as what follows the end of a call (`Turn`), the slave's main loop
(`Adopt`, `Measure`, `Deposit`), a slave that loses its power and a host that
restarts, each at any byte. A value is four equal bytes that tell the mode it was
measured in. `took` is the last write of registers the slave has made, at which
offset and of which bytes; a frame that the guard of `vchip.c:103` skips makes none.

**`CmdQueue`.** `stack` holds the calls of `shell_Update`, the innermost first,
each with its place: `walk` with the node that `list_for_each_safe` has saved,
`run` in the command of a node, `read` before `shell_ReadLine`, `exec` in a line
that was typed. A command that waits is a call in `exec` (or `run`, with `BgWait`)
under another call. `repeat` is the counter of the code. `runs` counts every execution
of a node that is over, whatever it returned, and `more` tells that one of them, in
the background, returned a positive code; `last` is the node that has just left the
list with its work done. `KillFirst` removes the node in one step with the CLOSE call
that precedes it (`cmd.c:494`); a command that waits in that call is left out.

**`Nvm`.** A rom is its words: the magic, the size and the data. One action is one
word programmed or one page erased, by the function in `op` at the place `pc`;
`nvm_init` shares the last steps of `nvm_save`, as their code is the same.
`PowerOff` comes between any two of them, and a word that was being programmed may
then read as anything. `Page` says on which page a word lies.

## 3. The runs

All runs check deadlock except where it says so in the cfg: the bounds of `IrtVm`,
`IrtBus` and `IrtPoll` (commands, plug-ins, errors) stop those systems though the
code never stops, and the transfer of `Kermit` ends.

| run | cfg | checks |
|---|---|---|
| `fifo_push` | `FifoPush` | plain push, nothing masked around `fifo_pop` |
| `fifo_force` | `FifoForce` | forced push, `fifo_pop` masked |
| `irt_vm` | `IrtVm` | lists of points and ranges, three commands, one error |
| `irt_bus` | `IrtBus` | two cards, hot plugging once, three commands, one frame not sent or lost |
| `irt_poll` | `IrtPoll` | two slots plugged in twice |
| `irt_poll_trap` | `IrtPollTrap` | one slot, three commands |
| `slot_switch` | `SlotSwitch` | two cards, all ranges but full scans |
| `kermit` | `Kermit` | an empty file and two cuts of another, memory and flash, two failures of the line |
| `mcd` | `Mcd` | two modes, two readings, two losses of power, two restarts of the host |
| `cmd_queue` | `CmdQueue` | seven lines, four typed, one call in another |
| `nvm` | `Nvm` | two words of data in one page |
| `nvm_pages` | `NvmPages` | the same in two pages, see section 4 |

### Fifo

`HoldsNewest`: the cells between the two positions hold the newest accepted
samples in order, in any state but the middle of a dump. `FreshInOrder`: what main
takes is newer than what it took before, and newer than the last dump.
`PopTakesOne`: main's write of the read position takes exactly one sample away, so
it never undoes a change the handler made meanwhile. `NoLoss`: without forced
pushes no accepted sample is skipped. `ImplementsQueue`: with the contents of the
ring read from the two positions, every step is a step of `BoundedQueue` or
changes nothing; the abstract queue replaces the oldest sample if and only if
pushes are forced.

Four cells and seven samples wrap both positions almost twice and fill the ring
from every offset. A fifth cell adds no order of events that four do not have.

### Opcode machine

`FramesWhole`, `ScanGroupExact`, `OpcHonest`, `InOrder` and `Drains` are the
properties of the inventory. `InOrder` is the refinement of
`RelayOrder`: `Pending` is the concatenation of what waits in the frame buffer,
the current range, the prefetched opcode and the queue, expanded to single relay
actions. A lost, repeated or reordered action anywhere in the pipeline breaks it.
`ScanGroupExact` and the last part of `OpcHonest` are limited to groups without an
error on the way; that an error in between leaves a group short is what `*CLS`
means in this code.

The instance has two buses and two relay lists. The second one has a single
point, a range of three lines and one that starts later, with more opcodes than a
frame holds, so that a range meets a frame with one free place; ARM 3 cuts the
ranges at different points from one command to the next and leaves groups open
across commands, the case `VM_SCAN_OVER_GROUP` is for. The queue, of 14, is
filled: the third command may be refused. `Types` leaves out `OPEN`, which the
machine treats exactly as `CLOS`. `Arms` has one value besides the initial 1.

Fairness: weak fairness of `Vm`, as the main loop runs for ever, and of `Cls`: the
host answers an error with `*CLS`, without which the code waits for ever by
design. No command is assumed to come.

### Latch

`ErrorHoldsLe`: a card with an error, or that was not answered yet, holds LE.
`NoSwitchWithError`: no relay of a card that stays on changes in a step after
which some card has an error or waits to be answered, but for one step: the first
MODE that a card accepts after a start enables its outputs, which then show what the
drivers held (section 4). `LatchFaithful`: when irc is about to end a latch, the line is
still high and the frames have been taken, then every card that is on and missed no
frame since the last MODE (`synced`) shows what the commands asked for, whatever it
held before that MODE, and whatever the other cards missed. `Drained` there and in
the guards of `Fall` and `GiveUp` is an assumption on time: the interrupt of a card
has taken its frames within the millisecond, or ten, that irc waits. The firmware
relies on it (`IRC_SLOT_LE_CHECK` is 0, cards do not confirm). With it,
`LatchFaithful` is about what is in the images, not about delays.

Two cards, one of them closed by one operation and the other scanned by another,
are what is needed for one card to object while the other would switch. One power
cycle lets a card appear between any two steps of a latch. Three commands are a
`MODE`, a scan (which must restore the static image) and one more, or a frame that
fails, the `MODE` that makes good for it and a frame. One failure (`MaxFail`) is a frame
that is not sent, one that comes late, or one that a card loses. A fifo of two frames
is filled by the frames of two commands; the hardware's three would need one more.
Drivers come up with a relay closed, as an open one hides a fault. The operations
are `CLOS`, `SCAN` and the unknown one: `OPEN` is in the module and the theorems, but
left out of the run for its size. The run has 3.0 million distinct states, the largest
of all.

### Slot list

`OneEntry`: no slot is in `mxc_list` twice (`mxc_search` finds the first entry
only, the other one would go stale and become lost). `InitAnswered`: a starting
slot is eventually told to go offline, or `MODE` is sent, or it is gone.
`ErrorReported`: an error that persists sets `irc_ecode`. `LostReported`: the same
for a listed slot that was pulled out, once pings run.

Fairness: the update routines of irc and of the slots run again and again
(`Update`, `Talk`), timers run out (`Expire`), and a frame on the bus arrives
(`Hear`). Nothing is assumed of the shell. Timers of entries run at the same pace,
which is what the code has: a slot whose timer ran out is served before another
one's runs out twice. The models assume that `irc_send` gets through except
`MaxErr` times, that the slots' can priorities starve nobody, and that pings are
sent one per walk.

`NL` is 2 instead of 5: the counter must pass one intermediate value. Two slots are
needed for the mailbox to be full; the traps do not depend on the second slot and
are checked with one, more commands and two power cycles.

### Cards

`SwitchExact`: the relays closed on all cards are those the host's operations
close. Two cards of two lines and two buses have ranges that start, end or lie
wholly on either card, that are empty, and that cover both.

### File transfer

`FileFaithful`: what is in the pages and the buffers is always the beginning of the
file; whenever no packet is half read it holds every packet the sender has stopped
repeating; and success means the whole file. Two kinds of failure of the line are
excused, by name, in `Recoverable`, because the code loses data there (section 4):
`back`, a rollback that takes an acknowledged packet with it, and `again`, a packet
that filled a flash page and comes a second time. `hit` records exactly these.
`Completes`: the transfer ends, with success unless the sender gave up or nothing was
heard for as long as the loader waits. That takes two failures in a row; with one, or
with two that are apart, the transfer succeeds.

Two cuts of a file put the end of a page inside a packet and at the end of one, and
an empty file has no data packet at all; two failures are one of the line and one
of the answer to it. Two packets and one answer may be on the line at once, so
a repeated packet meets a late answer. Fairness: the loader's loop runs, the sender
repeats and takes answers, and the loader's timeout passes. It is assumed of the
sender that it repeats within the 3 seconds it was asked for: one that waits for
more than six is aborted though nothing was lost.

### Link and multimeter

`OutExact`: a `vchip_outl` that returns 0 has had its four bytes written at its
address, whatever the slave had half received from a host that restarted, if and only
if they stop short of the last register (`vchip.c:103`). The word of `mcd_init` does not:
it is never written, and 0 is returned all the same (section 4).
`ReadFresh`: each byte of a value `mcd_read` takes was measured in the mode of the
last `mcd_mode` that succeeded, unless a side restarted since. `ReadEnds`: `mcd_read`
ends, also when the slave is gone, but for a slave left in a mode that measures
nothing (section 4).

The word of `mcd_init` has both bytes that must be escaped, at its ends. Two modes
show a value of the wrong one, and two losses of power and two restarts of the host
cut a frame and the one that follows. A slave of two values per mode shows the
change of a value. Fairness: both processors run; nothing makes the slave come back.

### Command queue

`TypeOK` includes that no command has two nodes. `LoopsExact`: a node that leaves
the queue because its work is done was executed no less often than its line asked,
the first time included, and more often only if its command returned a positive code
in the background, which the code does not count as a loop (`cmd.c:305`).
`Served`: a node that is due is executed, removed or paused in
the end. The lines are the same command in the foreground, with `&` and with a
period and three loops, a second one with a period, both forms of kill, and pause;
four of them in any order, each possibly typed while another command waits.
Fairness: the main loop runs, commands return, deadlines pass.

### Non-volatile variables

`OtherCorrect` is the comment at the head of `nvm.c`: while one copy is erased or
written, the other one is the whole image. `ImplementsStore` says what it is for:
seen through `nvm_init`, the two copies are one disk, replaced as a whole at one
moment of a save. Two words of data are the least with a word in the middle of a
write; the values of a word are the four that the code can tell apart.

## 4. Where code and comments disagree

`nvm_pages` is a run that checks `OtherCorrect` with variables in two pages and
finds it violated; `PROJECT.json` quotes the lines. `nvm_init` looks at the size
word to tell whether rom 1 is blank (`nvm.c:63`), but an erase of two pages that
was cut off leaves the first one blank and the second one as it was. The next save
then finds words it cannot program, ignores it, and writes the magic: rom 1 is a
mix of two images, and rom 2 is erased next. One more loss of power and the mix is
what the program starts with. `tasks/sss` keeps lists of more than a page.

The following were met while modelling. No run of their own checks them; where a
run excludes them, it says so above.

In the irt instrument:

* "ARM value could be changed only when vm_opq_is_empty" (`vm.c:9`). A scan range
  that ends before it starts is an error, but is executed after `*CLS`
  (`vm.c:189`), and its negative length lands in `vm_scan_cnt`, which then cancels
  out the queue in the sum of `vm_is_busy` (`vm.c:78`): `ROUTE ARM` is accepted with
  opcodes in the queue, and `*OPC?` may answer early. Such ranges are left out of
  `MCLists` and, by `ForwardLists`, of the theorems on counts; no property covers them.
* "arm is used to notify the group length in scan operation" (`vm.c:351`). A range
  that ends just before it starts has length 0, and the code tests for less than 0
  (`vm.c:161`, `vm.c:191`), so it is not an error: it reaches the frame, adds nothing
  to the count, and a group may be latched and measured with no point in it. With
  such a list in `Lists`, `ScanGroupExact` is violated. The lists of the run are
  forward, and the theorems on counts name it as their hypothesis.
* "slot relay action is performed when group end tag is executed" (`vm.c:4`). A
  latch that timed out leaves LE high (`mxc.c:345`). The relays move when the card
  that held it is pulled out or answered.
* "avoid re-entrant" (`err.c:46`). `*CLS` is executed inside the trap, and the same
  `irc_update` goes on to raise the next error, a level deeper, for as long as the
  host repeats `*CLS` and the slot stays failed: `Len(stack)` of `IrtPoll` grows
  with the commands, and nothing in the code bounds it.
* "irc response with OFFLINE" (`mxc.h:4`). Not once `MODE` has been sent
  (`mxc.c:258`). The card holds LE low meanwhile, so after that only `*RST` frees
  the line.
* "add FSCN sequ type support (line:bus -> line:bus)" (slot card, `mxc.c:11`). The
  card tests the type of the first opcode of a range (`mxc.c:277`), but
  `vm_prefetch` has put SEQU there and the operation in the second one
  (`vm.c:117`), so a full scan of a range is taken along one bus. With FSCN in
  `RangeTypes`, `SwitchExact` is violated, and its theorem names this as its
  hypothesis.
* "seq operation must be inside one can frame ----- irc vm algo could ensure!" (slot
  card). The parser accepts `(@a:b:c)`, for which the exchange of types in
  `vm_prefetch` makes a range without an operation; with such a list in `Lists`,
  `FramesWhole` is violated. `MCLists` therefore holds lists without chained
  ranges, and `IrtBus` has frames of this kind among its `Switches`.
* "hold le = low, then all relay operation will fail" (slot card, `mxc.c:4`). After a
  start the outputs of a card are disabled, but its drivers are never cleared, and
  MODE enables the outputs before it shifts out the empty image (`mxc.c:156-157`), which
  is latched only when LE goes up. So the card shows what the drivers held before the
  start, from its first MODE until the next good latch, also while another card holds
  LE. `NoSwitchWithError` names this one exception, `FirstMode`. Before `mxc_init` calls
  `oe_set(1)`, the pin has been an output at its reset level, low, for the time between
  (`board_init`); that glitch is not in the model.
* A frame that is not sent in time is reported, and after `*CLS` the code goes on: the
  group is latched without that frame (`mxc.c:94-98`), and a `MODE` that was not sent
  is followed by frames to cards that are not in the mode, as `mxc_ping_enable` is set
  already (`mxc.c:356`, `368-373`). What the relays then show is not what was asked for,
  until a MODE gets through. `irc_send` also asks for the first of the three mailboxes
  only (`can1_stm32.c:328-331` tests the same bit three times): a frame that lies in another
  one, as the first was still busy, is taken for sent when that one is empty, which the
  model leaves out. Nothing tells irc of a card whose fifo was full.
  `LatchFaithful` therefore speaks of the cards that missed no frame since a MODE.
* "power-up(/plug-in): le = high, do not affect test system" (slot card). A card
  holds LE low from its first instruction until it is answered, so it makes the
  latch of a running test time out (`GiveUp`).
* "remove the dead card from the active list" (`mxc.h`). No code removes an entry;
  in `IrtPoll` only `Rst` empties `list`.

Elsewhere:

* "irq safe version of circbuf" (`fifo.c`). A handler that calls `fifo_push_force`
  moves the read position; main, interrupted between reading and writing it, writes
  an old one back. With `Forced` TRUE and `Masked` FALSE, TLC finds `PopTakesOne`
  violated. `fdsig_dmm.c` masks the interrupt and is safe (`fifo_force`);
  `vwpwr.c` and `vwsig.c` use the plain push, which needs no mask (`fifo_push`).
* "same sequence number, restore the previous state" (`kermit.c:177`). When the
  acknowledgement of the packet that filled a flash page is lost, the page has been
  written and the packet, sent again, is stored a second time. A header in error
  (`kermit.c:263`) rolls back to the checkpoint of the packet before, which was
  acknowledged already and will not come again, in memory as well as in flash.
* The acknowledgement of a send packet offers long packets (`kermit.c:448`), of
  which `kermit_recv` takes the two length bytes without `untochar`
  (`kermit.c:210`): the length is beyond the input buffer, and the transfer times
  out.
* "reliable, no error except physical channel off" (`vchip.h:8`). `ofs + n <
  vchip_n` (`vchip.c:103`) is off by one: a word that reaches the last register, as the
  one `mcd_init` writes to DATA, is not written, and the answer is OK. `OutExact`
  states what the code does, in both directions. With `SPIZEN` 0 (`spi_aduc.c:189`) an
  empty tx fifo repeats its last byte, where `vchip.c:10` says 0 is read; the model
  brings 0, and no property depends on it. A value read byte
  by byte may be torn between two measurements. A slave that restarts between
  address and data takes the data at offset 0: it may be left with a mode that
  measures nothing, and `mcd_read` then waits for ever (`ybs_mcd.c:86`). The command
  byte is not escaped, and the data of a read are covered by no check.
* `mcd_mode` waits for `ms` milliseconds after its last try, which is not
  initialized when all of them fail (`ybs_mcd.c:75`).
* "0 -> finished success" (`cmd.h:15`). A command that was queued because it returned
  a positive code stays in the queue when it returns 0 later (`cmd.c:305`), until it
  returns an error or is killed, if its line asks for no loops. One that returns a
  positive code in the background is not counted: "read &100,10 for 10 loops"
  (`cmd.c:104`) may then execute it more than ten times. A line is queued when its first
  execution is over, and "remove the old one" (`cmd.c:356`) removes whatever has the
  same command: if that execution waited, and a newer line of the same command was
  typed meanwhile, the older line replaces the newer one.
  `kill all` kills the first task only (`cmd.c:497`). A number of loops of 0 means
  without end (`cmd.c:112`).
* A command in the background that kills a node, or waits while another line does,
  may free the node the walk goes on with (`cmd.c:288`). With `BgWait` TRUE or kill
  in the background, `stack` of `CmdQueue` refers to nodes that are gone.
* `kill`, `pause` and traps act on the queue of the console that executed the last
  line, also when a background task of another console calls them (`cmd.c:345`).

## 5. The proofs

### FifoProofs

For every ring of two or more cells and any number of samples, under the
discipline `Discipline == Forced => Masked`:
`SamplesFreshInOrder` (`TypeOK`, `HoldsNewest` and `FreshInOrder` always hold; also
stated apart, as `TypeCorrect` and `NothingOld`),
`PopRemovesOne` (`PopTakesOne`) and `ImplementsBoundedQueue` (`ImplementsQueue`).
Without forced pushes, masked or not: `NothingLost` (`NoLoss`).

The invariants are not inductive alone. The strengthening says, for each value of
`pc`, what main already knows: the local read position is still the shared one,
the ring is not empty once main has seen that it is not, the datum read is the
oldest sample, the handler is off where it is masked, and the two history
variables bracket the contents. That the shared read position does not move under
main is where `Discipline` enters; without it the theorem is false (section 4).
Arithmetic modulo the size is split off
into lemmas on `Gap` and `Next1`.

`NothingLost` adds one conjunct, `Gapless`: the oldest sample held is the successor
of the last one taken, or the first after the dump. A push leaves the oldest one
alone, a pop moves both, a dump makes the second half true.

The refinement rests on `HoldsNewest`: the contents of the ring are a run of
consecutive serial numbers, `Serials(serial - Count, Count)`, so a push appends to
the run, a pop takes its head, and a forced push into a full ring does both. Main's
other steps do not change the run and are stuttering steps; both writes of a dump
clear the queue.

### IrtBusProofs

For any set of cards, finite or not, any operations, any residues, fifos of any
length, and any bounds: `TypeCorrect` (`TypeOK`), `ErrorKeepsLeLow` (`ErrorHoldsLe`)
and `NoRelayMovesInError` (`NoSwitchWithError`).

`ErrorHoldsLe` is not inductive because a card's status can be overwritten: main
may read READY, be interrupted by a frame that makes an error, and write LOST. The
error code, not the status, then keeps the lock. `HoldsLe` and `Sober` add that a card
in status ERROR has an error code, that the race is only possible for a card that has
been answered, and that a card that does not run hears nothing; `IInv` is `TypeOK`
with both. The action property follows from the invariant before and after the step.
A card at work stays at work while it runs, so its outputs stay enabled
(`OutputsStay`), and but for its first MODE a relay moves only with its latch. A latch
moves only while the line is high (`MovedByLine`), and if some card is failed, it holds
the line, so `Line'` is false.

For the same: `LatchesFaithfully` (`LatchFaithful`). When a latch ends well, every card
that is on and missed no frame since the last MODE shows the relays the commands asked
for. What a card will become is decided by frames that still wait in its fifo, so the
invariant speaks of the card after them. `Now(s)` is the card reduced to what an
opcode can change, `After` what one frame makes of it, and `Leads(s, c, q, d)` says
that the frames `q` take it from `c` to `d`; it names the way by a function, so that
it needs no recursion. `Prepared` says that each card in `synced` is led to one that
`Fits` what was asked: it has the images that were wanted, or it is one that takes no
opcodes. A card that waits for MODE must not be left, as it takes none and does not
hold LE low either. The other cards only must be led somewhere: a frame that
overwrites another one leads on from the frame before it (`LeadsOver`). `Tuned` says
that cards are counted only once pings are sent instead of OFFLINE, when a frame that
may still come late is a PING, which fits any card (`FitsPing`). `Shown` says that
while the line is high the latches are what was shifted out. `LInv` is the whole. A
frame that is sent lengthens the way at its end (`LeadsOn`), a frame that is received
shortens it at its start (`LeadsBack`), and the latch needs empty fifos, where the
card is already the one that fits.

The module also has the theorems about the opcodes of a frame. It extends
`SlotSwitch` beside `IrtBus`, which is why the names of the two differ. For any number
of cards, lines and buses and any operations: `SwitchTypeCorrect` (`SwitchTypeOK`). If no
range is scanned fully (`NoScanRanges`): `CardsSwitchExactly` (`SwitchExact`). Without
that hypothesis it is false (section 4), and TLC shows it.
`SwitchExact` is inductive together with `SwitchTypeOK`. What is to be shown is that a card
that clips a range and counts from its own first line selects the relays of the host
that lie on it: `Own(c, S)` is what card `c` has of a set `S` of the host's relays,
`LinesAreOwn` and `FscnIsOwn` say it of a range of lines and of a point of a full
scan, and `OwnOfSwitch` that it does not matter whether one switches first or looks
at a card first. The arithmetic is that of a quotient (`DivIs`, `QuotientIs`).
`Targets` and the fold of `CanSwitch` are recursive; a frame has two or three opcodes,
so each is unfolded, from a function that solves its equation (`TargetsOfRange`,
`TargetsOfPoint`, `SwitchOfTwo`). `Picked` is what the cards make of an operation, and
`PointsArePicked` says that the host means the same unless it scans a range fully.

### IrtPollProofs

For any set of slots, any number of pings (`NL`) and any bounds, with traps nested
to any depth: `TypeCorrect` (`TypeOK`) and `OneEntryEach` (`OneEntry`).

`OneEntry` needs `Unlisted`: the slot in the mailbox `mxc_new` has no entry yet,
except between the two steps of main that make the entry and free the mailbox
(`pc = "free"`). The type invariant is strengthened too: a walk that is at an entry
has one left, and an echo on the bus carries the number of the slot that sends it,
so the slot that `Hear` looks for in the list is the one it leaves in the mailbox.

### KermitProofs

For any cuts of files, empty ones too, any page that is longer than a packet, memory
and flash, any number of failures and of packets on the line: `TypeCorrect` (`TypeOK`)
and `ArrivesFaithfully` (`FileFaithful`).

The pieces of a packet are in four places: pages, the circular buffer, the second
buffer and the line. `Holds(r, o, m)` says, byte by byte, that buffers `r` and pages `o`
are the first `m` bytes of the file, and `Sound` says which `m`, in three cases. While a
packet has been begun and is not acknowledged, everything before it is there and
the checkpoint is the end of it (`At`). When the last packet begun was acknowledged,
that packet is there too, and the checkpoint is before it, unless it filled a page
(`Whole`). And when such a packet was taken back (`Backed`), the file ends before it
again. `Lost` and `Stale` are the failures after which nothing is claimed: a packet
that filled a page and came twice, and a packet that was taken back and never came
again. `Recoverable` implies that neither happened. They are weaker than
`Recoverable`, which does not survive the steps by which the protocol makes a
packet good that was taken back.

`Line` says why a number is enough to tell a repeated packet from a new one: the
line keeps its order, so packets carry the number of the last packet begun or the
next one. `Reading` ties a packet that is half read to the head of the line.
`Pages` says that flash is written in whole pages until the last one, so that by
`PageEnd`, an arithmetic lemma, a packet reaches the end of the buffer exactly when
it `FillsPage`; and that memory never overflows. The proof follows the code: what
`Put`, `Error`, `Start` and `Drain` do to buffers that `Hold`, then packet in error
(`NakSound`), packet acknowledged (`AckSound`), header (`HeaderSound`), each with its
action. That each packet ends later than the one before is an assumption on cuts;
that none ends after the last (`CutRise`) needs induction over the cut, and is drawn
from the least number in a set (`LeastNumber`).

### CmdQueueProofs

For any lines, any number of them and calls of the shell nested to any depth, with
the background wait or without: `TypeCorrect` (`TypeOK`, with one node for each
command) and `LoopsAsAsked` (`LoopsExact`).

The invariant counts (`Counts`): a node in the list that has loops left satisfies
`runs + repeat >= loops` and `repeat <= loops`, and `runs + repeat > loops` only if a
positive code was returned in the background; a node that was just typed is one loop
short, as its first loop is run before it is in the list. The two sides move apart in
an execution that the code does not count: it adds to `runs` and leaves `repeat`. One node for each command is needed
because `cmd_queue` looks for the first node of a command only. Of the calls on the
stack only the innermost may be in its walk or before `shell_ReadLine`; the others
wait in a command. That a search which finds something returns a place in the list
is by well-foundedness of the naturals.

### NvmProofs

For any words, number of variables, values and pages: `TypeCorrect` (`TypeOK`). For
variables of any size that fit in one page (`OnePage`, a hypothesis of the
theorems): `OtherRomCorrect` (`OtherCorrect`) and `TwoRomsOneDisk`
(`ImplementsStore`). The hypothesis is needed: with two pages both are false
(section 4), and TLC shows it.

`OtherCorrect` is not inductive, as it does not say what `nvm_init` may find. `IInv`
adds: a rom 1 whose size word is blank is blank (what the test of `nvm.c:63` relies
on, and what two pages break); rom 1 is blank while the program runs, so a save can
program every word; a rom that is being written holds the words of the image up to
`k` and nothing behind (`Begun`), the magic last, so that a copy cut off is never
taken for good; and when the copy that is left is erased, the other one is the
image. The invariant is `Inductive`. The refinement maps the disk to what
`nvm_init` would find, `Disk`; it changes when the magic of rom 1 is written, also
when the power fails just then and the word happens to be right, and when rom 2 is
erased by `nvm_clear`. All other steps on the flash leave the disk as it is.

### IrtVmProofs

For any relay lists (however long), queue size, group sizes, number of buses,
commands and errors. Two hypotheses are about what the host sends; both are what a
host that follows the manual does, the parser checks neither, and without them the
theorems are false (section 4):

* `ProperLists`: every `:` has a point before it that does not end a range itself,
  so no list is chained like `(@a:b:c)`;
* `ForwardLists`: no range is empty or runs backwards.

With the first: `TypeCorrect` (`TypeOK`), `WholeFrames` (`FramesWhole`) and
`Ordered` (`InOrder`, the refinement of `RelayOrder`). With both: `GroupsExact`
(`ScanGroupExact`) and `OpcTells` (`OpcHonest`).

*Data.* `Encode`, `Fetched` and `Actions` flatten sequences of sequences, and what
they give for every list needs induction over its length. The induction theorems of
the library take an operator as parameter, which the provers here cannot
instantiate, but that every set of naturals that is not empty has a least member
they can use (`LeastNumber`, from `NatLessThanWellFounded` and `WFMin`), and so that
a set with 0 and the successor of each of its members has all (`AllNumbers`). From
that come `FlattenAppend` and `FlattenCat`, what the relay actions of a sequence
are when it is put together from two, and `EncodeClosed`: the opcodes of a list are
groups of points and ranges, closed by a GRUP.

*The stream.* What is safe to fetch next depends on what follows it, so the
invariant is about the whole of what is still to be fetched, `Stream`: the opcode in
`loc` or `nxt`, then the queue. In it every relay opcode is followed by the end of
its range, its own type or a GRUP, and every SEQU stands between a relay opcode and
its own type or a GRUP (`StreamOK`). `Fetch` ties `loc`, `cur`, `seqend` and `nxt` to the
place of the main routine. `Packed` says of the frame buffer that it is whole, that
it holds opcodes of the type saved, and that when the buffer is not empty what comes
next is of that type or closes the group: this is why a buffer of scans never meets a
`CLOS`. `Counted` says that a scan counter other than 0 is that of a scan in
progress. They are inductive together (`Inductive`), one lemma per action.

*The refinement.* `Pending` is `Waiting` (the frame buffer), `Current` (the range being
cut) and `Queued` (the rest). Every action either leaves the three alone, moves actions from
one to the next, adds to the end of the last (`Accept`) or takes from the head of the
first (`Send`), and the proof is one lemma for each of these.

*Counts.* `FInv` adds `Forwards`, every range still to be executed has a point, and
`Exact`, that while no error has come the counter is the number of points of the group
in frames sent and in the buffer, place by place; where a group is complete the
counter is 0 again and the points are `arm`. Without `Forwards` the counter could be
negative, and the sum in `vm_is_busy` zero with opcodes in the queue.

### McdProofs

For any banks, any values of a bank, any word of `mcd_init`, and any number of
readings, losses of power of the slave and restarts of the host, each between any
two bytes: `TypeCorrect` (`TypeOK`), `WritesExactly` (`OutExact`) and `ReadsFresh`
(`ReadFresh`).

The two sides share nothing but bytes, so the invariant says what the slave's
parser must have understood of the frame the host is in the middle of. `InFrame`
has one case for each frame and for each place in it (`InAddress`, `InWrite`,
`InRead`): how many bytes are left, and with what command, data and escape the
slave waits for them (`Opened`, `Heard`, `Quoted`). A slave that has lost its power in
the middle of a frame (`hurt`) may be in the state a frame without its head leads to,
and the invariant then only says what it cannot do: `Sane`, that it never holds a
complete frame it did not execute. During a read each answer that is on its way
`Tells` something of the register it was taken from. `Restarted` covers the case
`mcd_mode` is there for: a slave that came back has the offset of the register MODE,
and does not show a bank it was not told, so the host's check of MODE sees the loss.
That nothing is written at an address that reaches the last register is one more
invariant, `Short`, of what was written last. `Ready` ties a value to the bank the slave shows, `Known` says that while the host
knows the bank the slave is on, was not lost, and has it in both registers.

`McdAssumption` takes the word of `mcd_init` to be any four bytes; the other
assumptions are that bank 16, which `mcd_init` writes, is one of the banks, and that a
bank is not a byte that the link escapes (1 to 60).

In all these modules the proof that a step preserves the invariant has one lemma or
one step per action, and an action property is drawn from the invariant before, or
before and after, the step.

### Only model-checked

* Liveness (`Drains`, `InitAnswered`, `ErrorReported`, `LostReported`, `Completes`,
  `ReadEnds`, `Served`) is out of the prover's reach and stays with TLC.

## 6. What is not modelled

* Time: a timer is something that may happen. Consequences of real rates (how
  often an echo collides with a ping) are not covered.
* In the irt instrument: power supplies, `umx.c`, range relays, probe, host tools;
  the MXC debugging command; `*ERR? <slot>`, which changes nothing; line and sense
  relays of a card; safelatch, which is configured off.
* A second MODE from the shell while `mxc_latch` waits for the first. `irc_is_busy`
  does not know of it, so it is accepted and nested.
* The read, change and write of a slot's `flag` in `mxc.c:265` is one step in
  `IrtPoll`: a request that is lost there is sent again by the slot.
* In the file transfer: what is listed in section 2, and a sequence number that the
  line changes into another valid one, which the comment at `kermit.c:170` rules out.
* In the link: absolute addresses, other lengths, the toggled bits (cal, clr, dac) and
  the second measuring board.
* In the shell: several consoles, traps, reading and parsing of lines.
* In the flash: no checksum protects a copy, so a page that is erased in part could
  read as anything; an erase is atomic in `Nvm`. So are two more assumptions: the
  layout of the variables does not change from one build to the next, and no
  interrupt changes them during a save. The flash could also program one half of a
  word whose other half is not blank.
* Request and answer protocols (`ccp`, `mcamos`, modbus, kwp2000) were read but not
  modelled; two of them have listed hazards. Their answers differ from late ones in
  data only, which these models abstract, and their timeouts are a matter of time.
* The drivers of can, uart and radio: what their hardware does is not in the source.
* Vendored code, drawing, numeric helpers and the test stations: they have no
  protocol or no state of their own.
