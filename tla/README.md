# A verification project for the CVRA CAN bootloader

The bootloader runs on more than twenty microcontroller boards of a robot and is
the one program that cannot be replaced over the bus. This directory models what
it and its client do when power fails, frames are lost and commands come in any
order, checks the models with TLC and proves the central results with TLAPS for
every value of the constants. Paths are relative to the repository (`src/` in
`PROJECT.json`).

## 1. The system

| Component | Code | State it keeps | Operations | Talks to |
|---|---|---|---|---|
| configuration store | `config.c`, `command.c:138-192`, head of `bootloader_main` | two flash pages with a CRC each, `bootloader_config_t` in RAM, `config_page_buffer` | read at boot, update a map of keys in RAM, save to both pages | flash writers, command interpreter |
| boot control | `boot.s`, `boot_arg.c`, `vector_table.c`, `bootloader.c:69-102`, `command_jump_to_application`, `fault_handler` | magic value and argument at the start of RAM, `timeout_active` | reset, timeout, jump after a CRC check, fault, reboot with an argument | configuration (CRC and size), application, ST bootloader |
| timeout timer | `platform/mcu/armv7-m/timeout_timer.c` | SysTick, `sys_ticks` | initialise, `timeout_reached` | boot control |
| platforms | `platform/*/platform.c`, `platform.h`, linker scripts, `can_interface_init` | clock tree, wait states, pins, timer, bit timing, filter; the memory map | set-up between reset and the loop, fault handler | hardware, timer, CAN |
| CAN datagram reader | `can_datagram.c:16-113`, `bootloader.c:104-141` | `can_datagram_t dt`, one for all senders, `addr_buf`, `data_buf` | start, input byte, complete?, valid? | CAN interface, command interpreter |
| CAN datagram writer | `can_datagram.c:115-176`, `return_datagram`, `client/cvra_bootloader/can/datagram.py` | writer counters of a `can_datagram_t` | cut a datagram into frames and send them | CAN interface |
| CAN interface | `platform/mcu/*/can_interface.c` | bxCAN registers | read and send a frame | hardware |
| command interpreter and flash commands | `command.c` | none of its own; an uninitialised `device_class` on the stack, `output_buf` | dispatch, erase, write, read, CRC, ping | flash writers, configuration |
| flash writers | `platform/mcu/stm32f{1,3,4}/flash_writer.c` | `sector_erased` (F4) | erase page, write bytes or half-words | flash peripheral |
| client: reader | `read_can_datagrams` of `utils.py`, `decode_datagram` of `can/datagram.py` | a buffer per source (`read_can_datagrams`) | decode after each frame | bus |
| client: flashing | `bootloader_flash.py`, `utils.py` | the answers of the current command, the boards found online and those that passed the check | ping, retry a command until every board answered, erase, write, configure and check a set of boards | boards, over the bus |
| client: configuration tools | `change_id.py`, `write_config.py`, `read_config.py`, `run_application.py` | the answers of the current command, the queue of a scan | change an ID, write, read or list configurations, start applications | boards, over the bus |

The board is a single loop without interrupts: what is concurrent is the rest of
the bus (client and other boards), time and its counter, the reset pin and the
power supply. The hard behaviours are therefore a *power failure or reset between
two flash operations or two steps of the set-up*, the *argument that survives
resets in RAM*, the *timeout against the client*, the *counter that runs while it
is read*, *frames lost and frames of several senders mixed in one reader*, *state
left by earlier commands* (erased marks, stack, output buffer), the *widths of
lengths*, *page sizes of the client, the boards and their sectors that differ*,
and, at the client, *late and duplicated answers*. Every such place is listed
with its line under `hazards` in `PROJECT.json`.

What makes each component correct:

- configuration store: after any power failure the board reads the last saved
  configuration or one whose save was in progress; it never loses its last valid
  page; a save that answers true survives the loss of either page;
- boot control: only an application that passed its CRC check runs; the user is
  waited for after power up; a client is never cut off by the timeout; an
  argument serves one restart; a board left alone settles;
- timer: the timeout comes, not early and late by the time of the calls only;
- platforms: whatever interrupts a set-up, the next one leads to a board that
  hears the bus; the hardware ignores none of its steps;
- transport: nothing is executed, or read by the client, that was not sent,
  nothing more often than it was sent; what arrives whole is executed or read
  whatever came before;
- flash: bootloader and configuration are never changed by a flash command; an
  erase that answers true has erased, a write has written; what the client
  writes was erased before, on every board;
- client: a session that reports success leaves every board flashed, and ends;
  no two boards get the same ID; a tool that returns has saved what it wrote.

## 2. Modules

| Module | Models | Used by |
|---|---|---|
| `ConfigRegister` | abstract: a register whose writes are all or nothing across power failures | instantiated by `ConfigStore` |
| `ConfigStore` | the two pages, one action per flash operation | `MCConfigStore`, `ConfigStoreProofs` |
| `BootControl` | resets, argument, timeout, jump | `MCBootControl`, `BootControlProofs` |
| `Timer` | `timeout_reached` access by access, with the counter running | `PlatformProofs` |
| `Boards` | data: what `platform.c` of each of the nine boards sets up, and its memory map | `MCPlatform`, `MCFlashLayout` |
| `Platform` | the way from a reset to the loop, with faults and resets at every step | `MCPlatform`, `PlatformProofs` |
| `Datagram` | the format, both writers and the byte-wise reader, as operators | `HostReader` |
| `HostReader` | the decoder of the client, as operators | `Transport` |
| `Transport` | senders, a bus that loses and mixes frames, the loop of a board or the reader of the client | `MCTransport`, `TransportProofs` |
| `FlashCommands` | commands on flash, with the three flash writers | `MCFlashCommands`, `FlashCommandsProofs` |
| `SectorMap` | the address arithmetic of the F4 writer and the memory map of the part, as operators | `FlashLayout` |
| `FlashLayout` | a flashing session and the save after it, on the memory of a board | `MCFlashLayout`, `FlashLayoutProofs` |
| `DirectSession` | abstract: a session that calls the boards directly, without datagrams, answers or retries | instantiated by `FlashSession` |
| `FlashSession` | the flashing client, its retries and its check, with the boards it talks to | `MCFlashSession`, `FlashSessionProofs` |
| `ConfigTools` | the configuration tools, one after the other on the boards of a bus | `MCConfigTools`, `ConfigToolsProofs` |

An `MC` module gives the constants their values for TLC, a `Proofs` module holds
the theorems about the module it is named after (`PlatformProofs` about `Timer` as
well). How the models meet: the save
that fails or not in `FlashSession` and `ConfigTools` is `ConfigStore`; the class
and the CRC a board boots with come from there too. `BootControl` counts ticks
where `Timer` shows what a tick is worth. `Transport` justifies the datagrams of
`FlashSession` and `ConfigTools`, which arrive whole, not at all, or broken.
`FlashCommands` assumes that writes stay within a sector (`InPage`) and that the
application starts on a page of its own: `FlashLayout` shows both for the layouts
of the boards (`WritesOnErased`, `OwnRegionOnly`).

### ConfigStore and ConfigRegister

A page is the configuration it holds or `NoConfig` when its CRC is wrong; the CRC
is ideal. `Boot` is the head of `bootloader_main`, `Update` is
`config_update_from_serialized` with any subset of the keys, `BeginSave` the head
of `command_config_write_to_flash` up to the choice of the page that is destroyed
first; `Erase`, `Write`, `VerifyFirst` and `VerifySecond` are the two calls of
`flash_write_and_verify`, step by step, with the three branches of the code told
apart by `target` and `strict`. The environment adds `PowerLoss` at any step,
`WriteFails` (a worn page has a wrong CRC after its write) and `Corrupt` (a page
rots, one at a time and not during a save: that is what the second page is for).
`committed` and `pending` are history: the configuration of the last save that
was answered true, and those tried since. `ConfigRegister` is the promise: reading
at boot gives a committed or pending configuration. `ConfigStore`
implements it: `RegisterSpec` is the register's specification with the
configuration that would be read at boot, `committed` and `pending` for its
variables.

### BootControl

`mode` is the program that runs. `bootArg` is the argument byte behind the magic
value, or `NoMagic`. `ResetHandler` is `reset_handler` together with
`bootloader_startup` and the head of `bootloader_main`, since nothing can be
observed between them. An image is the content of the application region and an
application CRC stands for the image it matches. `ReceiveOther` is a valid
datagram for another board; the commands share `Addressed`. The application may
leave any argument when it resets (`AppReboot`): `boot.s` documents this as a use.
An application that asks to be started again skips the check, so that the
"verified" of `OnlyVerifiedRuns` is relative to the last check passed; the images
only change through the bootloader's and the ST bootloader's writes.
`expected` is the configuration in RAM, `stored` the saved one. A client that updates
and does not save may start an image by a jump command which no timeout starts after
the next reset: that is what the code does, and `TimeoutRunsSaved` keeps the two apart.
A datagram is one event, the one of its last byte; until then the timeout runs on.

### Timer

Every access of `timeout_reached` to the counter is an action, with `Tick` free to
happen between them: `ReadValue`, `ReadFlag` (which clears COUNTFLAG) and `Write`.
The loop takes between `LOOP` and `GAP` ticks up to the next call, a call at most
`CALL` from its read to its write. `WindowAssumption` is that the loop is never
away for two periods of the counter, 16 million ticks each: erasing a sector of a
F4 takes longer, but a client that makes a board erase has ended its timeout.
`WidthAssumption` is that the timeout and the last call fit in `sys_ticks`.
`elapsed`, `calls` and `torn` are history. A wrap is torn when it is counted as a
flag and in the value as well, because the value was read before the counter was
reloaded; that, and the first call, which takes the counter as it finds it, is how
far the time can be wrong.

### Platform and Boards

`Boards` gives each board the effects of its `platform_main` in the order of the
code: wait states, clock tree, peripheral clocks, pins, timer, CAN, bit timing,
filter. Calls that only fill in registers of one effect are one step. `Platform`
executes them one by one; a step whose peripheral has no clock yet is dropped, as
the hardware does. `Fault` may strike at any step, `Reset` too. `Receives` says
when a frame gets through: the pins belong to the controller, the bit timing gives
the rate of the bus, a filter lets it pass. `BusRate`, `FlashMHz` and `ResetMHz`
are properties of the hardware and the bus, not of the code.

### Datagram, HostReader and Transport

`can_datagram_input_byte` is one operator per state of the reader, with the
wrapping index of the destinations and the comparison order of the code. A byte is
a number together with what it is a checksum of: the CRC matches if and only if it
is the CRC of the content that was read, and is any number when it is misread as a
length. There are two writers in the repository: the client cuts an encoded datagram
(`datagram_to_frames`), the boards write bytes from a state machine
(`can_datagram_output_bytes`). `SameFrames` says that they produce the same frames.
`decode_datagram` is the reader of the client, with the slices of Python that are
as long as there are bytes, and what it raises.

`Transport` sends datagrams frame by frame from several sources, mixes and loses
frames, and restarts the board in the middle. `receiver` chooses once who listens:
the board, which has one reader for all sources (`Receive`), or the client, which
has a buffer per source and ignores the start bit (`HostReceive`, and `NewReader`
for its next command). Neither has an influence on the other. Only loss is modelled
for the bus: CAN frames of one sender are neither reordered nor duplicated.
`sent`, `said`, `executed`, `clean` and `fresh` are history: how often a content was
sent, what each source sent, how often the receiver executed or read a content, and
whether it got all of the current datagram so far. `HostReadsWhatWasSent` looks at all
that a source ever said: the first frames of an answer and the last of a later one that
ends alike are, for the client, the earlier answer, of whatever was lost in between.

### FlashCommands

A cell of flash is erased or holds a datum; `PageOf` maps cells to pages.
`skips_erased` tells a F4 (which erases a sector once until it is written, and
programs bytes) from a F1 or F3 (which program half-words) and never changes. An odd
write of the latter fills its last half-word with the byte it replaces. A half-word
that was not erased may be refused by the hardware or leave anything that only
clears bits. `stack_class` is what the uninitialised `device_class` array of a
command may contain: it is remembered or overwritten, nondeterministically.
`Answer` has the `uint8_t len` of `bootloader_main`, so that negative errors become
lengths. Reading past the output buffer, CRC and ping commands change nothing and
are covered by `ReadCommand`'s answer only.

### FlashLayout and SectorMap

Flash is counted in blocks of 1 KB. The client's loops of `flash_binary` step by
`page_size` over the binary, to erase and then to write; the board erases its page
or sector, skips a sector that is marked, and saves its configuration at the end;
it may restart in between, which loses the marks. `FittingOption` is that
`--page-size` divides the page size of the board: nothing in the client checks that,
its default of 2048 is too large for the stm32f103rb, and smaller is not enough: with
steps of 3 KB a binary of 17 KB ends in a second sector of 16 KB that no step erases.
`AlignedAssumption` is that the linker scripts cut the flash at the borders of what the
board erases; they do on the nine boards, on which it is evaluated.
`flash_addr_to_sector` is compared with the memory map of the part.

### FlashSession and DirectSession

The session is the sequence `Script` of commands: ping, an erase and a write per
page, update, save, CRC. `step` is the command being answered. The first and the
last are special in the code: `check_online_boards` collects sources until the
first time-out, `check_binary` counts datagrams and ignores time-outs. All the
others are calls of `write_command_retry`: `Start`, `ReadAnswer`, `Retry`, `GiveUp`
and `Return` are its pieces, and `Return` also holds what `flash_binary` does with
the result before its next command.

The level of abstraction is the datagram. A command reaches any subset of its
destinations. An answer arrives whole, is lost, or is broken: a datagram that lacks
its first frame makes `decode_datagram` raise, which nothing catches (`ReadBroken`).
One that lacks its last frame stays in the buffer of its source and spoils those
that follow (`utils.py:151`), which here is the same as losing them. A board keeps
the commands it has not executed yet in `inbox`, at most `InboxCap`; it executes
them in order and one at a time. What a board does with a command is the summary
of `FlashCommands` and `ConfigStore`: an erase empties the page, a write leaves the
binary when the page was erased or already held it, a worn page does not take the
data, and a save may fail. A reset loses `inbox` and what was not saved, and may leave
a page half written.

`rx` holds the answers on their way as well as those received, at most `RxCap` (less at
a timeout): unless `punctual`, the read may time out while an answer is on its way, and
the retry is sent although the board has answered. The retry follows the timeout in the same step; what happens in
between may as well happen before.

`punctual` says that the read timeout is longer than any answer takes, which is
what the option `--large-pages` is for (`open_connection`: 5 s instead of 0.5 s). When it
is false an answer may come at any later time and is then counted for whatever
command is current. The boards to flash are idle when the session starts; other
boards (`Stranger`) may still owe the answer to a command of an earlier session.
`served`, `disturbed` and `check_lost` are history.

`SavedWhenPunctual` is about boards that did not fail and were not reset.

`DirectSession` is the session its user has in mind: the client is at a step of the
script, each board has a command that is due, and performs it by a call. A board may
perform a command again, miss commands, be late or restart, but it never goes back in
the script nor ahead of the client; in `lockstep` the client advances only when all
boards have performed the step; the session ends anywhere but says OK only at the end
and of boards that hold the binary, after which nothing is performed. `FlashSession`
implements it (`DirectSpec`) with the number of the first command in `inbox` for `due`,
`served` for `done` and `punctual` for `lockstep`. Bus, answers, retries, the pongs and
CRC answers of the client and the limits of `inbox` and `rx` have no counterpart: sending,
losing, answering and repeating are stutters, or boards that miss something.

Left out: the jump sent after the verdict with `--run`, which waits for no answer;
`ping_board`, which nothing calls; the same ID given twice on the command line,
for which `write_command_retry` waits for an answer that never comes and gives up.

### ConfigTools

`Program` lists the commands of each tool, `To` whom each is for: the save of
`change_id` goes to the new ID. `Command`, `ReadAnswer`, `Retry`, `GiveUp` and
`Return` are the pieces of `write_command_retry`; `ScanAnswer` and `ScanTimeout`
those of the scan of `read_config --all`, which lists a source as often as it
answers. Boards compare the ID of a datagram when they execute it, so that a
changed ID takes effect between a command and its retry. They are reset, leave the
bootloader, answer late (unless `punctual`) or cannot save; a read may time out while an answer is on its way, as in `FlashSession`; what was not saved is
lost. A tool may give up half way and the next one finds what it left. Two
assumptions are the user's: no board is given an ID another board has, in RAM or
saved, and a tool is started when the boards have executed what the last one sent.
Boards that have the same ID from the beginning are among the initial states
(`unique` is then false); `UniqueIDs` and `ReturnMeansSaved` are about the others.
The scan of `read_config --all` is the tool `read_config_all`. A list may name a board
twice: `write_command_retry` then waits for an answer that never comes, and
`RetriesSuffice` leaves such lists out. Arguments and JSON are left out.

## 3. Runs

| Run | Shows | Bounds |
|---|---|---|
| `ConfigStore` | `Recoverable`, `NeverBricked`, `TrueMeansBothPages`, `RegisterSpec`, `Healing` | two keys, values modulo 2: two configurations that differ in one key, in the other, in both, and a counter that wraps |
| `BootControl` | `OnlyVerifiedRuns`, `ArgumentServesOnce`, `WaitsForUser`, `NotTakenAway`, `TimeoutRunsSaved`, `Settles`, `QuietBoot` | two images, two ticks of timeout |
| `Timer` | `OnTime`, `NeverWraps`, `Comes` | a counter of six values, a loop of two to seven ticks (more than a period), calls of up to two ticks, a timeout of 21 ticks in a word of 64, 150 ticks in all |
| `Platform` | `SetUpSound`, `OnlyBootloaderFrames`, `Listens` | the nine boards as they are; frames by the three fields the filter can tell apart |
| `FlashLayout` | `SectorIsRight`, `WritesOnErased`, `OwnRegionOnly` | the nine memories as they are, options of 1, 2, 3 and 16 KB, binaries of 5 KB, of the size of the region and of 1 KB more |
| `Transport` | `AtMostOnce`, `SameFrames`, `CleanDelivery`, `HostReadsWhatWasSent`, `HostDelivery` | a client and two boards as sources, three datagrams sent, seven contents of one to four frames (for this board, both, the other, nobody, and longer than the buffer; two that end alike, and one whose third frame looks like its first); fields of two bytes of eight values, frames of four bytes |
| `FlashCommands` | `BootloaderIntact`, `EraseMeansErased`, `WriteMeansWritten` | three pages of two cells, one protected; writes of up to three cells, which cross a page on the F1 and F3 and are odd or even; one address past the end |
| `FlashSession` | `OkMeansFlashed`, `SavedWhenPunctual`, `ServedWhenPunctual`, `DirectSpec`, `SessionEnds` | two boards and a stranger, one page, one retry, two commands waiting at a board, two answers on their way, one at a timeout |
| `ConfigTools` | `UniqueIDs`, `ReturnMeansSaved`, `RetriesSuffice`, `PrintsTheBus`, `ToolEnds` | two boards, three IDs, lists of one or two, one of which names a board twice, one tool, one retry, one reset; the boards begin with two IDs, with the same one, or with one that is changed and not saved |
| `AddressBuffer` | the reader writes past `addr_buf` after a lost first frame | one source, one datagram with seven bytes of data, a buffer of three destinations |
| `ClassResidue` | an erase without a readable class may be accepted | as `FlashCommands` |
| `WrongVersion` | a wrong version is answered | as `FlashCommands` |

`Transport` checks `TypeOK` as well, since it bounds the writes of the reader; the
other type invariants are proved and need no run. The interesting cases fit these bounds.
A save has two pages and three steps per page, so that power failures and bad writes
reach every combination of pages with two configurations. The boot decisions compare
two images. The timer has to wrap in the loop, in a call and in neither, several times
before the timeout. A reader is confused by one datagram following the rest of
another, so that three sends and two sources it hears give every order. A session
needs two boards, so that one is retried while the other has answered, one retry for
a command to be executed twice and answered late, and two waiting commands, a
repeated one and the next; two answers on their way are a late one and the next, of one
board or of two. A tool needs two boards, so that a command or a retry
may reach the wrong one, and a third ID to change to; what an earlier tool has left is in the
initial states, so that one tool is enough. The flash commands need a page to be
erased and another to be hit by mistake. Small field widths keep every branch of
the reader (the index of destinations wraps at 8 instead of 256).

`Timer`, `FlashLayout` and `ConfigTools` end (the timeout is reached, the save is
done, no further tool is run) and do not check deadlock; every other run does.

### Divergences

`AddressBuffer`, `ClassResidue` and `WrongVersion` are counterexamples, each against
a sentence of the docs quoted in `PROJECT.json`. Others were met while modelling and
have no run, since a line or two shows them.

On the boards:

- `README.markdown:17` says that a bad configuration page is repaired at boot;
  `bootloader.c:76` reads the other one and leaves the repair to the next save.
- `README.markdown:27` says that a matching application starts after a timeout;
  `bootloader.c:119` ends the timeout at any valid datagram, for other boards too.
- `command.c:67` compares only the first address of a write with the end of the
  region. The client's writes do not cross it (`OwnRegionOnly`).
- `stm32f4/flash_writer.c:62` unmarks the sector of the first byte only: an erase of
  the next sector would be skipped after a write across both. The client's writes do
  not cross sectors (`WritesOnErased`).
- `stm32f4/flash_writer.c:18` keeps the bit of the second bank in the offset; no linker
  script puts an application there.
- `stm32f1/flash_writer.c:66` says that the last half-word of an odd write preserves
  the adjacent byte; it takes the byte that is replaced. That is the same when both are
  erased (`WriteMeansWritten`).
- `bootloader.c:98` cuts the length of an answer modulo 256, so of a read of 256 bytes
  or more.
- `config.c:84` does not skip the value of a key it does not know and reads it as the
  next key: a value that is spelled like a key may change one the map does not name,
  which `utils.py:233` says is left unchanged.
- `can_interface_send_message` waits for the end of a transmission that does not end
  when nobody acknowledges it.
- `rc-board-v1`: its filter lets every standard identifier pass (`platform.c:52`), its
  fault handler stops in a loop (`platform.c:62`), and its class is written
  `rc-baord-v1` (`platform.h:11`).

At the client:

- `--page-size` is compared with nothing. A size that does not divide the page of the
  board skips pages, or its last write crosses into a sector that was not erased (a binary
  of 17 KB in steps of 3 KB on a F4): `FittingOption`.
- `read_can_datagrams` ignores the start bit, so that a datagram it yields may be put
  together from two that its source sent. It is then the earlier one, which ends like the
  later; if they do not end alike nothing is yielded, or it raises (`HostReadsWhatWasSent`).
- `write_command_retry` promises "a map of each board ID and its answer"
  (`utils.py:195`) and takes any datagram for the answer of its source.
  In `FlashSession` that is why `ServedWhenPunctual` needs `punctual`: with a timeout
  that is too short, a late answer, that of a board to a repeated command or that of a
  board which is not flashed at all, makes the client go on before a board has got the
  command. `OkMeansFlashed` holds nevertheless, since the check at the end compares a
  CRC that only the whole binary has; without `punctual` a session may print OK for a
  board that has not saved the new CRC and will not start the application.
- `change_id` may return and have changed nothing, when a read times out while the answer
  to the update is on its way and the board is reset before the retry reaches it: the
  update is then answered twice with the new ID, and the second answer is taken for that
  to the save, which may be lost. `ReturnMeansSaved` exempts a reset unless `punctual`.
- `change_id` does not recover from a lost answer to its update: the board has its new
  ID and does not hear the retry. `RetriesSuffice` leaves it out.
- `read_config --all` asks a source once for each pong: two boards with one ID make
  `write_command_retry` wait for an answer too many, and it raises `IOError`.
- The SocketCAN adapter never sets `extended` (`adapters.py:38`), so that `utils.py:147`
  drops nothing; the serial one does, but names a `can.Frame` that nothing defines
  (`adapters.py:113`).

## 4. Fairness

- `ConfigStore`: weak fairness of the steps of a save. A save is straight-line
  code in the only thread of the program: it goes on unless the power fails.
  `Healing` assumes that disturbances stop and that saves keep being asked for; it
  needs no fairness of the client beyond that.
- `BootControl`: weak fairness of the reset handler, of time and of the jump at the
  timeout: the processor runs and SysTick counts. Nothing is assumed of the
  client, the application or the bus.
- `Timer`: weak fairness of `Tick` and of the steps of a call: time goes on, and so does
  the loop, which nothing blocks while no datagram comes.
- `Platform`: weak fairness of the steps of a set-up and of the call of the loop.
  `Listens` assumes that faults and resets stop.
- `FlashSession` and `ConfigTools`: weak fairness of the client and the boards together
  (`System`): one of them goes on while one can. The client is a sequential program
  whose read always returns (with a datagram or after its timeout), the boards are loops;
  that none of them is left behind need not be assumed. Nothing is assumed of the bus, of
  resets, of other boards or of the user: every datagram may be lost. `SessionEnds` therefore has its exception, a datagram lost
  during the check, which has no retry (`bootloader_flash.py:146`); `ToolEnds` has none.

## 5. Proofs

`ConfigStoreProofs`: `ConfigInv` adds to the types what each step of a save may
rely on: which page is still good while the other is erased, that a good page
holds the committed or a pending configuration, that `success` is about the first
page, and that both pages agree when nothing was tried since. `Recoverable` alone
is not inductive: it does not say why the second page may be destroyed. From it
follow `Recoverable`, `NeverBricked`, `TrueMeansBothPages` and, by step simulation,
the refinement of `ConfigRegister`, for every set of keys that contains the counter
and every modulus.

`BootControlProofs`: `BootInv` says what may lead to the application: an argument
that asks for it is in RAM only in `reset` and only when the image is the verified
one and the wait is over, and a timeout that is active excludes an address by a
client. `SavedInv` adds that with an active timeout the configuration in RAM is the
saved one: every way to change either ends the timeout, and only the reset handler,
which reads the pages, starts it again. `TimeoutRunsSaved` follows.

`PlatformProofs`, about `Timer`: for every reload value, frequency, timeout and pace within the two
assumptions. `TimerInv` says what counter and flag tell of the time since the last
write (`CounterInv`: the counter alone cannot tell none from one period, the flag
can), and that `sys_ticks` is the time up to the last write, plus the periods
counted twice, less the ticks the calls took (`UpperInv`, `LowerInv`). From it
follow the two bounds of `OnTime`; `NeverWraps` because the call before the
last left `sys_ticks` below the limit.

About `Platform`: for any boards, whatever their code. `Checklist` is what a reader of a
`platform.c` would check without running it: the clock is raised after the wait states
and to what they allow, each peripheral is used after its clock is on, the timer is told
the frequency, and so on. That this is enough is not obvious, because a fault or a reset
may cut a set-up at any step and a fault handler works on the registers it finds.
`BoardInv` says which steps are behind (`At`), that each of them still has its effect
(`Kept`), and that the clock is that of a reset or the wait states are set. From it follow
`SoundSetUp`, `OthersKeptOut`, `HearsTheBus`, which is `Listens` but for the fairness that
leads to the loop, and `TimerFits`: the timeout a board starts with satisfies
`WidthAssumption` of `Timer`. `BoardsSound` shows that the nine boards pass, with the
constants of the run, and `NineBoardsListen` puts the two together. The checklist is a
hypothesis of the general theorems and no assumption of the module, so that a board that
does not pass it can still be model-checked.

`FlashCommandsProofs`: types and `MarkInv` (a marked sector is erased), with lemmas
on what an erase and a write touch. `NeverErasesItself` needs the assumption that
the application starts on a page of its own, `EraseIsTrue` needs `InPage`; the run
`FlashLayout` checks both for the nine boards. `WriteIsTrue` needs neither: the
half-words of an odd write and their last byte are followed for every length.

`FlashLayoutProofs`: `SectorOfAddress` is the arithmetic of the F4 writer for every
address of the first bank. `LayoutInv` adds to the types that memory and option never
change; `SectorIsRight` follows for every memory in that bank. `SessionInv` is what the
two loops of the client hand over to each other: while it erases, the blocks behind it
are clean and so is the sector of every mark; while it writes, the blocks ahead of it
are clean, a restart or not. It needs that both loops stop at multiples of an option
that divides the page, and `AlignedAssumption`, so that no erase reaches back into what
is written. `WritesOnErased` and `OwnRegionOnly` follow for every layout, binary and
fitting option.

`FlashSessionProofs`: for every set of boards, number of pages and retry limit.
`FlashedIfOk` rests on `CheckInv`: the commands in an `inbox` are in the order of the
script and none is ahead of the client, so that the CRC command is behind every
erase and write; a board whose CRC was the right one at the check is settled, with
nothing left before it that could change its flash; and `valid_nodes` and the
CRC answers on the bus come from such boards. `OkMeansFlashed` alone says nothing of the
answers that are still on their way. `ServedIfPunctual` rests on `PunctualInv`: of a
command repeated to a board, at most one copy or one answer is on its way
(`OneOnItsWay`), because the client repeats it only when the bus and the boards are
idle; hence an answer that is counted is one of this command. `SavedIfPunctual` adds
`SavedInv`: a board that was not disturbed and has executed a command of the script
holds, or has saved, what the update and the save before it were to leave.
`Refinement` is the step simulation of `DirectSession`, from the invariants above and
`OrderInv`: whatever waits in an `inbox` has its place in the script, none ahead of the
client and none before the one it follows, and in lockstep all are the current command.
A command that is sent changes what is due for no board, unless the client goes on
(`WriteDue`); a board that takes one goes on to the next that waits (`TakeDue`), and what
it does is the abstract call (`ExecuteDirect`, `ResetDirect`). The client advances and
ends when `DirectSession` may (`StartDirect`, `ClientDirect`, `ExitDirect`), in lockstep
by `PunctualInv` and with OK by `CheckInv`; all other steps leave the abstract session
alone (`QuietDirect`).

`ConfigToolsProofs`: `ToolsInv` holds the types of everything on its way.
`IDsStayUnique` rests on `OneHolder`: while `change_id` runs, at most one board has
the old or the new ID, in RAM or saved, so that its update can reach no second board
however often it is repeated, and a reset brings nothing back that another board has.
The other three properties rest on `CallInv`, of which `SentInv` is common: what is in
the inboxes belongs to commands this tool has sent. `ReturnsWhenSaved`: `ChangeInv` says
that, once the update is answered, no copy of it is left where a board would hear it, so
that what is counted for the save is an answer to the save (`OldGone`: with an answer
still on its way a retry finds no board with the old ID, if none was reset); `OneInv` and `WriteInv` that with a timeout that is long
enough a board has at most one copy or one answer of a command, and that whoever
answered has done it. `RetriesMakeUpForLosses`: by `LossInv`, a board that has not
answered has its command or its answer on the way, or a datagram was lost for each
repetition. `ReadsTheBus`: by `ReadInv` what is read is the configuration of a board,
and by `ScanInv`, when nothing is lost, each board is in exactly one place: asked, on its
way, or counted.

`TransportProofs`: for any finite set of sources, any datagrams within the widths of their
fields, any widths, size of a frame and of the buffers. The writer, the reader, the cutting
into frames and both number conversions are recursions. The library's induction theorems
take an operator and cannot be used here, so the first lemmas do without: a least number
that fails (`LeastNumber`), and sets of values in the place of propositions
(`InductionTo`, `Recursion`, `FeedReaches`).

- `FramesAlike`: the writer of the boards is `At(c, n)` after `n` bytes, each of its calls
  returns the slice the client cuts (`OutputIsSlice`, `AnswerFrames`), and a queue is what
  is left of the frames (`StreamInv`).
- `InsideBuffers`: `ReaderOK` ties each counter to the state of the reader; the index of
  the destinations stays below its width because it wraps, the data below the buffer
  because the state changes when it is full.
- `ExecutedAtMostOnce`: `AtMostOnce` alone says nothing of datagrams half read. `OnceInv`
  follows the first byte of the CRC of a content, which comes once in a datagram
  (`OneMark`): the times it was executed, and the queues, the buffers of the client and the
  reader that hold the byte, together are no more than it was sent. A receiver takes
  the byte over from a queue, gives it up when it executes, and has it when the CRC is right.
- `ReadWasSent`: what is in a buffer or a queue comes from contents its source has said
  (`OriginInv`), and a content that is decoded has the first byte of its CRC there.
- `HostDelivers`: the buffer of a source that was heard from the first frame on is a prefix
  of its datagram (`FreshInv`), of which no proper one decodes to anything (`DecodePrefix`).
- `CleanDelivers`: `ReadAt(dt, c, p)` says what the reader is after the first `p` bytes of `c`,
  whatever it was before. What earlier datagrams left is not cleared but pushed out: the CRC
  is shifted through its buffer, and the length is counted in a number in which the old
  digits are multiples of a power, gone after the last one (`HasDigits`, `DigitCut`).
  `ByteReads` takes it from byte to byte, `CleanInv` from frame to frame.

Only model-checked:

- liveness (`Healing`, `Settles`, `QuietBoot`, `Comes`, `Listens`, `SessionEnds`,
  `ToolEnds`), for which TLAPS has no proof rules here;
- that in `DirectSession` every board performs something in the end: it is a safety
  specification, its liveness is `SessionEnds`;
- the three counterexamples.

## 6. Not modelled, and the plan

Left out for good: registers beyond their effect (speed and type of pins, LEDs,
lock and unlock of the flash), polling of the CAN peripheral, formats (MessagePack,
slcan, pcap, SocketCAN), arguments and progress output of the client, vendored
libraries.

Planned, in this order:

1. Composition of `BootControl` with `ConfigStore`: the saved configuration decides
   what boots after a power failure in a save.
2. The jump of `--run` in `FlashSession` and `DirectSession`, which is sent after the
   verdict and waits for no answer.
3. `ConfigTools` over an abstract bus of the kind of `DirectSession`.
