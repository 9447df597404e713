# Verification of the X230 experiments

This directory holds TLA+ modules for the programs and drivers of the
repository, the TLC configurations that check them on small instances, and
TLAPS proofs for every value of their parameters.  Paths are relative to the
root of the repository.

## 1. The system

Three experiments on one board, each a few C programs over one or two drivers.

| Component | Where | State it keeps | Operations |
|---|---|---|---|
| Pair game | `touchscreen/pop.c` | `Block_map`: blocks, selection, counter; mode and touch locals of `main` | one loop iteration per touch sample; press, match, restart, remap, quit |
| Touch buttons, `getxy` | `touchscreen/newtest.c` | `BUTTON_ACTIVE` of each button | `button_handle`, `getxy`, `ts_flush` |
| Touch test | `touchscreen/ts_main.c` | mode, crosshair position | loop iteration: drag, draw, bmp, quit |
| Frame buffer console | `touchscreen/fbconfig.c` | file descriptors, mapping, line table, VT | open, close, drawing, exclusive-or pixels |
| Frame buffer library | `frambuffer/frambuffer.c` and its demonstrations | mapping, two screens in each, the one in use | init, draw, switch screen |
| Samsung driver | `frambuffer/samsung/` | windows, their memory and users, registers, clocks, power | probe, remove, open, release, set_par, ioctl, pan, blank, suspend, resume |
| LED driver | `driver/xled.c` | port registers, module count | open, release, read, write, ioctl |
| Key pad driver | `driver/xkeypad.c` | port registers | open, release, read |
| Key and LED demo | `driver/mixtest.c` | statics of `keyscan`, menu state | scan, react, light |
| tslib core | `touchscreen/tslib-master/src` | chain of modules | open, config, attach, read |
| tslib filters | `touchscreen/tslib-master/plugins` | per-filter history | read through the next module |
| tslib input driver | `plugins/input-raw.c` | flags of the device, partial event, sample set | read events into samples, or into one sample per slot |
| tslib drivers of other devices | `plugins/*-raw.c`, `cy8mrln-palmpre.c` | bytes read so far, last place, settings of a chip | read records, packets or frames into samples |
| tslib tests and tools | `tests/ts_calibrate.c`, `tools/ts_uinput.c`, `tests/ts_test.c` | five touches and the fitted map; a virtual device | calibrate; replay samples |
| Fonts, pictures, build files | `touchscreen/font_*.c` and others | none | none |

How they interact: the game and the touch test read samples from tslib, whose
filters each call the next module of a chain that ends in a raw driver; both
draw through the frame buffer console.  The demo calls the two character
drivers through file descriptors; any number of other clients (`ledwrite`,
`ledioctl`) may call the LED driver at the same time.

What is hard in each:

* Pair game: long sequences of legal touches over shuffles, restarts and
  matches; dragging between buttons and blocks; memory freed by Quit in the
  middle of an iteration; an index kept across a shuffle; a loop without a bound.
* Drivers: no lock, read-modify-write of a shared port, two references per file.
* Demo: debouncing, chords, two registers read at different times, failed opens.
* Console: failures half way, a signal at any point, descriptors never opened.
* Frame buffer library: what is seen between two points, two screens that take
  turns, a local never set.
* Samsung driver: locks that cover one window each, shared registers, suspend
  between any two calls, calls while the power is off, a lock made anew while it
  is held, a probe that unwinds by labels.
* tslib: samples held back or dropped in place, chains built in the wrong order,
  events of several contacts in one frame, bytes out of step.
* Calibration: samples left over from before a cross was shown, stray samples,
  sums of products rounded to floats.

`PROJECT.json` lists each of these as a hazard at its line.

## 2. Modules

| Module | Models | Extended by |
|---|---|---|
| `PairGame` | what the game promises: cards on the table, the selected card, rounds | instanced by `PopGame` |
| `PopGame` | `pop.c` with `button_handle`; one action per iteration of `main` | `MCPopGame`, `PopGameProofs` |
| `ChangeMap` | the dealing loop of `change_map`, one action per loop step | `ChangeMapProofs`; checked with `ChangeMap.cfg` |
| `XLed` | `xled.c`, one action per register access, with the module count | `MCXLed`, `BoardProofs` |
| `KeyPanel` | `mixtest.c` and `xkeypad_read` | `MCKeyPanel`, `BoardProofs` |
| `ModuleChain` | tslib's core: open, config, attach, load, read, reconfig, close; one action per step that can fail or free | `ModuleChainProofs`; checked with `ModuleChain.cfg` and `ChainOrder.cfg` |
| `Batch` | the loop with which filters drop samples from the array they walk over | the filters |
| `Pthres`, `Debounce`, `Dejitter`, `Median`, `Variance`, `Linear`, `Skip` | what each filter does with one sample (operators, no variables) | `FilterChain` |
| `FilterChain` | device, any chain of filters, program | `MCFilterChain`, `FilterChainProofs` |
| `InputRaw` | `input-raw.c`: events of a frame into a sample, or into one per slot (operators) | `Uinput` |
| `Uinput` | the kernel's device, both read functions of tslib, and `ts_uinput`'s virtual device | `MCRawDrivers` |
| `RecordDrivers`, `SerialDrivers` (touchkit, dmc), `Galax`, `Palmpre` | the read functions of the other raw modules (operators) | `RawDrivers` |
| `RawDrivers` | a device, its serial line, its file, a program that reads it | `MCRawDrivers`, `RawDriversProofs` |
| `Fimd` | the registers of the display controller, a function as the sequence of its accesses | `S3cfb` |
| `S3cfb` | the driver's calls, any of which may be overtaken before a shared step | `S3cfbProbe` |
| `S3cfbProbe` | probe, its unwinding and remove, in front of `S3cfb` | `MCS3cfb`, `S3cfbProofs` |
| `TouchTest` | `ts_main.c` over the pixels of `fbconfig.c` | `MCTouchTest`, `ScreenProofs` |
| `Console` | `open_framebuffer`, `close_framebuffer`, the signal handler | `MCTouchTest`, `ScreenProofs` |
| `Frambuffer`, `FbDemos` | `frambuffer.c` point by point; the demonstrations as lists of calls | `MCTouchTest`, `ScreenProofs` |
| `Float` | C's type `float` (operators) | instanced by `Calibrate` |
| `Calibrate` | `ts_calibrate.c` with `getxy`, and `linear` on what it saves | `MCTouchTest` |

### PopGame

`game` is the `Block_map` together with what the screen shows in each block's
rectangle.  A block is the card it was registered with (its two picture paths
and image follow from it) and its exist flag; coordinates are recomputed from
the index by the code, so they are a function of the index.  `mode` and
`touching` are the low and the top bits of `mode`.  An iteration of the loop
is `Touch` (pressure) or one of the `Release...` actions (no pressure), named
for the button that was active, because `button_handle` fires on release only.
After the button's handler the rest of the iteration runs as in the code, so
a press of a block may follow a Restart, a Remap or a Quit in the same action.
`Die` is a read error or a signal.  `rand` is a nondeterministic choice:
`ChangeMap` is the loop, and `EndsInShuffle` there is the set `Shuffles` here.
Left out: `ret != 1` iterations, which change nothing; texts; the memory in
front of the block table that `press_block` reads and does not use.

`PairGame` is the game as its player sees it.  `ImplementsPairGame` maps
`remaining` to the cards whose block exists, `selected` to the card at
`pressed_block`, and shows that positions, shuffles, buttons and averaged
samples are details.

### ChangeMap

Draw a number, walk to a block that is not taken, put it at index `i`.  `start`
and `steps` are history variables that record where the walk began and how
long it is.

### XLed

Between two register accesses of a call every other process may run.  `dat` is
the set of LED pins that are high (dark LEDs), `con` the pins configured as
outputs, `refs` the module's count: one reference per file from the kernel
(`fop.owner`), one from `xled_open`.  `asked` is a history variable: the
patterns of the calls that have overlapped since the port was last at rest.
`Set` stores what `ledioctl.c` passes.  Left out: other pins of the port,
`xled_read` and `GPIOGET`, which change no state; `register_chrdev` failing.

### KeyPanel

A scan is two actions because `xkeypad_read` loads two registers and buttons
move in between.  `down` is what the user holds, `hold` a history variable of
the samples since the last zero one.  When `/xkeypad` cannot be opened
`key_press` is uninitialised and the sample is any member of `Garbage`; when
`/xled` cannot be opened the LEDs do not change.  The LED driver is called by
this one process, so a call is one step; `RestPattern` of `XLed` with a single
request says that this is sound.

### ModuleChain

A module's structure is a number that is never given out twice, so `live`
tells a pointer to freed memory from a good one; following a pointer that is
not in `live` leads to `pc = "crashed"`.  `next`, `plugin` and `shared` are the
fields of `struct tslib_module_info` (successor, what `ops` belongs to, whether
`handle` is set), `list` and `listRaw` those of `struct tsdev`, `libs` the
counts that `dlopen` keeps.  Every load may fail at each of its steps, and a
file may end, or be given up, after any line.  `Read` (`ts_read`) asks the module
at `list`, `ReadRaw` the one at `list_raw`; `Descend` is a filter's call of
`info->next->ops->read`, the one thing every filter does first.  The walk of
`ts_close` and the one of `ts_reconfig` are the same loop; what follows it
differs (`job`).  `RawFirst` says that raw modules are named before filters, as
in every file the repository holds; without it `chain_order` shows what
`__ts_attach_raw` does.  Left out: `ts_option`, parameters of modules, a module
whose `mod_init` fails after changing the device (none does).

### FilterChain and the filters

A filter that walks over an array is a judge of one sample (`PthresJudge` and
others give the new state, the sample passed on, and whether it is kept); each
read function is a loop around its judge: `InPlace` closes the gaps of dropped
samples in the array, as `pthres_read` and `debounce_read` do, `OneByOne` marks them
with `valid = 0` or, for a filter that drops nothing, overwrites each sample.
`skip` and `variance`, which pull samples singly,
give a sequence for each (`SkipTake`, `VarianceTake`).  A configuration names
the chain, from the device on, so any `ts.conf` can be built, and says whether
the program calls `ts_read` or `ts_read_mt`; `Ask` passes
down whether the filter above asks for one sample or for all.  Samples carry
the time after the last sample of the read before; debounce's `quiet` is
`last_release` on that clock and counts no further than the threshold, which
is all the code compares it with, so no bound on time is needed.  `Arrive`
fills the device, `Read` is one `ts_read` or `ts_read_mt` through the chain.  Positions are one
coordinate; the squares of differences, the weights, the division of unsigned
numbers (`UnsignedMod`) and what malloc leaves (`Junk`) are those of the code.
Left out: growing the per-slot arrays, `skip_read_mt` and `variance_read_mt`
(see Observations), read errors, which change nothing.

### InputRaw and Uinput

An event is a pair of code and value; a frame is what the kernel's input core
(external) makes of the contacts that changed, in the order of slots, with the
emulated pointer behind.  `single` is the module as `ts_read` keeps it, `multi`
as `ts_read_mt` does, both fed with the same frames; `ts_uinput` replays the
sample set of the second, and `virt` is the device a client of it sees.  The
eight kinds of devices are what `check_fd` tells apart.  `MCRawDrivers` runs this
device or one of `RawDrivers`, one at a time.

### RawDrivers

Bytes reach the device file in pieces of any size (`Arrive`), a report may be
cut short (`ReportCut`), and each read asks for as much as the code does.  The
Palm Pre's chip may refuse a setting, and then keeps its own while the field of
the driver's structure keeps what malloc left (`refused`, `own`, `junk` of
`PalmpreStart`).  A record driver is one operator; what
differs is the order of fields and the pressure.  `past` is history.

### Fimd, S3cfb and S3cfbProbe

A C function is the sequence of its steps: a read-modify-write of a register, a
store, a change of the window's record, an allocation.  A call runs whole, or
stops before one of its shared steps while other calls run (`Continue`), at
most `MaxOver` times.  The kernel's frame buffer core serialises the calls for
one window (external).  A late resume makes `fbdev->lock` anew
(`mutex_init` in `s3cfb_init_global`), so `lock` is free although a call that was
overtaken may still be in front of its unlock.  Packed 24 bits have no setting of
WINCON (`BppMode`), as the code sets none.  A store to a controller without power
is dropped.  The probe fails at each of its steps in turn.

Three history variables say for which windows the code does not keep the
registers right; the properties name the ones they except.

* `touched`: two calls worked on the window at the same time, or `win_power` did
  while it was not open.
* `missed`: a call worked on it while the controller was powered down.  A late
  resume sets up the windows that are enabled and no others, so a window that was
  blanked or released by then keeps its channel, and the address of memory that
  the release has freed, unless the registers were lost with the power.
* `lost`: the registers went with the power, and no resume has set the window up
  since; one that is turned on later shows what a reset leaves.

### Console

`conpc` is the next step of whichever function runs.  A descriptor that was
never opened is 0, so `close` closes stdin.  A signal starts `close_framebuffer`
from its first step wherever it arrives, with only its own kind blocked; a fault
is a signal of its own.  `refused` is history.  Left out: a second `munmap` of
the same range, which does nothing; `malloc` inside `perror` and `printf`.

### Frambuffer and FbDemos

`todo` is the rest of the program: the calls still to make, the first one
replaced by what it draws, point by point, so the panel is looked at between
any two.  Memory beyond both screens is not mapped; a write there ends the
program.  A local that is never set is any member of `Left`.  Left out: ioctls
and opens that fail unnoticed, the time `usleep` takes.

### Calibrate

A panel maps the screen to its own coordinates in any linear way (`OnPanel`,
external).  The pen presses at the cross or at stray places, and may bounce
when lifted and before the program starts.  The fit is computed operation by
operation in single precision (`Float`, external: IEEE 754 with rounding to the
nearest; `(+)`, `(-)`, `(.)` and `(/)` are its operations), so the determinant has the error that it has in the code, and the check
against 0.1 is made of that.  Squares of coordinates fit in an `int`
(`Coordinate`), as they do for panels of up to 15 bits.  The division of the
linear filter is that of integers.

### TouchTest

The screen is four by three pixels with one invisible row; a button, and the
gap in each arm of the crosshair, is one pixel.  Colours are sets of bits, so
exclusive-or is what it is in the code.  `back` is a history variable, the screen on
which no crosshair is ever drawn.  `line` and `fillrect` are computed as in the
code, slopes in 16.16 fixed point and clipping included.  `MCTouchTest` runs it, the
console, a demonstration or the calibration, one at a time.

## 3. What the runs check

| Run | Instance and bounds | What it shows |
|---|---|---|
| `pop_game` | 2x2 table (two pairs), three buttons, 13 points: both sides of every button edge, corners of every block, two outside | the table, the counter and the screen stay consistent; quitting presses nothing unless the touch was dragged; the player sees `PairGame` |
| `change_map` | six blocks, all random numbers; `steps` counted to `N + 1` | the deal is a permutation, the loop ends |
| `xled_races` | two processes, three LEDs, three patterns, module loaded and removed at will | reference counting; what overlapping calls leave on the LEDs |
| `key_panel` | two sets of buttons, at most two down, three garbage samples | what is reported and what the LEDs show; the scanner returns to idle |
| `module_chain` | three plugins (one raw, one linked in), four loads | no bad pointer, file order, nothing leaks, libraries counted, a configured device can be read |
| `chain_order` | the same, raw modules anywhere | **violated**: a filter keeps reading from an old raw module |
| `filter_chain` | four chains (`pthres` with `debounce`, the default one, `median`, `variance`) and `skip` with `nhead` to 2 and `ntail` to 3; `debounce`, and `dejitter` with `linear`, for two fingers; two or three positions; reads of up to three for `pthres` and `debounce` | releases have presses, the quiet time is quiet, the pen is not stuck, positions belong to the touch, a touch loses its ends only, and fingers do not mix |
| `pthres_mt` | `pthres` with `read_mt` and two slots | **violated**: a release without a press passes |
| `touch_test` | 4x3 pixels, six pen positions, a 2x2 square; 6x3 pixels, six demonstrations and a block at the left edge, nine pictures; every failure of the console and two signals beside the fault; six panels of twelve bits on 480x272 pixels, five samples a touch | no trace of a crosshair, one square; what the panel shows while screens take turns; the console comes back; a saved calibration is true to a pixel |
| `touches_on_line` | the same | **violated**: touches on one line make a calibration that is saved |
| `s3cfb` | every failure of the probe; two processes, two windows, `win_power`, suspend and resume, six calls, or five of which one is overtaken | registers follow the windows and no freed memory is scanned, but for the windows named above; users are counted, a failed probe gives back all it took |
| `raw_drivers` | every raw module; two places, room for two reports; for event devices eight kinds, two slots, two places, two forces, all frames | drivers stay in step, follow the pen, end a touch where it was, and restore the chip's rate; what `ts_read` and the virtual device make of the contacts |

Two pairs are enough for every case of `press_block` (no selection, same
block, mismatch, match, last match), and for a Remap after blocks are gone.
The board's table is 6x3; nothing in the code depends on the size beyond the
index arithmetic, and the proofs cover every size up to the 43 images.  Six
blocks give walks that wrap around the end.  Two processes give every pair
of overlapping calls, and the invariant is proved for any number.  Two keys
down at once give every chord the scanner can tell from a single key.

Four loads let a second file be loaded after a reconfiguration.  A read of three
samples has every pattern of kept and dropped neighbours that the gap closing
can tell apart.  A touch behind `skip` has up to eight samples, more than
`nhead + ntail + 2`, so the ring turns around more than once; `median` keeps
three, `dejitter` four, of which a touch of four or more has all.  The six pen
positions give every button, strokes in both directions of steepness and
squares that overlap buttons and text.  Seven bytes wait for `touchkit`, so a packet of
five may be torn anywhere.  Six calls of two processes open,
set, turn on, suspend, release and resume a window; one call overtaken gives
every pair of overlapping calls, with three others around them.  A frame of two
contacts has every combination of a contact that comes, goes, moves or stays.
Nine pictures have widths
that need padding and one that needs none, both directions, both depths, a
depth that is not drawn, and files that are missing or short.  Six panels are
upright, turned, with axes exchanged, oblique, and two that report a line, which
cannot be calibrated: touches on the one have a determinant of exactly 0 in floats
and are refused, on the other rounding leaves more.  The stray place is
one where five touches alone leave a determinant of 89702400.  Coordinates of
twelve bits make sums of squares of more than 24 bits, so every sum and product
of the fit is rounded.

Deadlock checking is off in `touch_test`, `touches_on_line` and `pop_game` (the program ends),
`change_map` (the function returns), `key_panel` (MENU ends the program) and
`s3cfb` (calls are counted).

Fairness: `ChangeMap` is a sequential function, so weak fairness of its next
step says only that the processor runs it.  `KeyPanel` asks weak fairness of
`ReadH0` and `Scan`, the body of the loop of `main`, and none of the user.

Every property has a mutant: a definition changed the way a plausible bug
would change the code (the operators named in `PROJECT.json`, each defined
before the definition it replaces), for which TLC finds the property violated.

## 4. What is proved

For every value of the constants that meets the named assumptions:

* `PopGameProofs`: `TypeCorrect`, `TableSound`, `CounterSound`,
  `SelectionSound`, `TouchSound`, `NoDoubleFree`, `QuitSound`, `ScreenSound`.  The inductive
  invariant `Inductive` adds to the properties that the game record has the
  right form and that a button that is active contains no other rectangle's
  point; `GameOK` collects what every operation on the map preserves, so each
  operation has a lemma and the actions only combine them.
  `PopAssumption`: a table with an even number of blocks, at most 43 images,
  disjoint buttons above the table.  `ScreenSound` rests on
  `DrawnInRound`: while a round is on, every operation leaves each block that
  exists drawn, and an iteration that ends the round need not.
* `PopGameProofs` also shows the refinement, `PlayerPlaysPairGame`: every behaviour of `PopGame` is
  one of `PairGame`.  Whatever a step does to the table it does by pressing a
  block, bringing all blocks back or exchanging places.  Each of the three has
  a lemma on the cards that are left and the one selected: a deal
  is a `Deal` whatever the shuffle (`DealIsDeal`), a press is a `TouchCard`
  (`TouchIsTouchCard`); the actions put these together.
* `ChangeMapProofs`: `TypeCorrect`, `DealIsShuffle`, `WalksAreShort`.  The
  bound comes from `PassedBound`: the blocks a walk has passed are different
  taken blocks, and there are only `i` of those.  An injection of a finite set
  into itself is onto, so a full deal of different blocks loses none.
* `BoardProofs`, the programs of `driver/`:
  * The LED driver: `TypeCorrect`, `RefsSound`, `RestSound`.  `CallOK` says what
    each call relies on: that its argument is among the requests, and that
    between its clearing store and its last one the port holds a mixture of
    requests (`Mix`), which every other call's store preserves.
  * The key and LED demo: `PanelTyped`, `LatchSound`, `ReportsSound`,
    `HoldsSound`, `LampsSound`.  `HoldsTracked` ties the scanner's state to the
    samples of the present hold.
* `ModuleChainProofs`: `TypeCorrect`, `LibsSound`, `CrashFree`, `OrderSound`,
  `AllFreed`, `ReadsSound`.  Two layers: `Base` (the heap and the counts of
  the libraries) holds for every file; `ChainSound` (each module points to the
  one loaded before it, filters above raw modules, a walk has freed exactly
  what is behind it) needs `RawFirst`.
* `ScreenProofs`, the programs that draw:
  * `CrosshairLeavesNothing`.  `CrossInv`: the screen has the colours of `back`,
    with the bits of the crosshair turned over while one is drawn; whatever is
    drawn keeps this, as turning over twice is nothing.  Pixels on the screen are
    opaque, which the invisible rows need not be.
    `SquareIsOne` needs that at most one button is active (`SquareInv`).
  * `ConsoleIsGivenBack`.  While the console is in graphics mode or another
    terminal is shown, the program knows the name, the descriptor and the first
    terminal, and is in front of the step of `close_framebuffer` that uses them
    (`ModeKnown`, `TerminalKnown`); a signal only goes back to the first step, so
    no order of signals gets past it.
  * `FbInvariant`, and from it `FlashingIsWhole` and `PicturesAreWhole`.  `FbInv`
    says where in a demonstration the program is: on its way to
    `draw_flash_block` or `draw_flash_BMP` (`Starting`, `Clearing`), in one of
    their phases (`BlockPhase`, `PicturePhase`: the first picture, between
    pictures, the screen behind being emptied, drawn in, switched to), or with
    nothing left of which anything is claimed (`Harmless`).  Each phase names the
    picture on the panel and the one that the points still to draw will complete
    behind it (`Shows`, `Coming`).  `RowsInFile` is the arithmetic of padding: what
    `draw_BMP` adds up is the format's stride, except where no padding is needed:
    a picture of 24 bits with such rows comes out aslant, and `PictureIsWhole`
    excepts it and nothing else.
    `DemosAssumption`: the block and the pictures stay on the screen and the
    block takes two steps or more, as in every call that `fbblock`, `fbflash` and
    `fbbmp` make.
* `S3cfbProofs`, the display driver, for any number of windows, processes, calls
  and overtaken calls:
  `DriverInvariant`, and from it `ScreenFollows`, `FreedIsDark` and `FilesCounted`.
  * A call is a sequence of steps and has a `Trace`, the state after each step;
    what holds along a trace is shown by induction over the step's number (from
    the least counterexample, `CountUp`).
  * A call for one window spares the others (`Beside`) and does to its own
    window what it would do alone (`RunAlike`), so the rest of an overtaken call
    ends as the whole would have, whatever ran in between.
  * Each function of the driver is `Sound`: from a window that is as it should
    be, to such a window.  Suspend and resume are `Managed`: they darken all
    windows, or bring back each that is enabled.
  * `DriverInv` joins these: types, users and open files agree (`CountsOK`), what
    is left of each call is a rest of one of the functions for that window
    (`CallsOK`), each undisturbed window is right, or will be when the one
    overtaken call that is for it has ended (`WindowsOK`, with `Rest` and `Owned`),
    and with no overtaken call `WINSHMAP` is right too (`AloneOK`).
  * Excepted are the windows with which the code may go wrong: `touched`,
    `missed` and, for the geometry, `lost` of `S3cfb`.  A window leaves `missed`
    and `lost` when a resume sets it up, and `missed` too when the registers go
    with the power.
  `ProbeGivesBack`: `ProbeInv` lists what is held at each step of the probe and at
  each label of its unwinding.
* `RawDriversProofs`, all four properties of the drivers of other devices:
  `ProgramFollowsPen`, `TouchKitKeepsInStep`, `ReleasesArePlaced`,
  `ScanRateRestored`.  Only one driver is configured, so each has an invariant
  of its own that the actions of the others leave alone.
  * `PalmInv`: the rate the driver remembers agrees with the chip's, but while
    it is asleep, could not be restored, or was never known: then the field holds
    what malloc left, which waking sets in the chip, and `RateComesBack` excepts
    it (`unknown`).
  * The others speak of everything on its way, from the driver's buffer through
    the device file to the line, as one sequence, and say that it brings a
    listener from what the program has got to where the pen is.  For touchkit it
    is bytes of which no five in a row are without a start byte (`TouchKitInv`,
    `Dense`): so a read drops nothing of a packet that may become whole
    (`TouchKitReads`), and a packet's last byte finds its first still there
    (`CurOf`).  For dmc it is commands (`Commands`), and for galax events
    (`Hears`), with the state of the pen between each two of them as a witness,
    so that the loop of a read is followed step by step.  For the drivers of
    records the last record is the last report (`RecordsInv`).
  * Recursive functions (the bytes of a read, the loops of `dmc_read` and
    `ts_galax_read`) are shown to exist by `StepsExist`, from which their
    equations follow; what holds along them goes by `CountUp`.
  * `ConfAssumption`, `SpotsAssumption`, `FramesAssumption`: coordinates fit in
    the fields of the devices' reports, frames are 16-bit capacities.
* `FilterChainProofs`, tslib's filters in any chain, with any settings, for reads
  of any number of samples:
  * `FilterChainTyped`.  `TypeOK` says which states each filter's code can work
    with (`ModsOK`), and `Held` that the press `pthres` knows of is the last
    sample it passed on.  A filter takes a sample into a
    state and samples (`Take`, `TakeIs`), whatever loop it does that in: the loop
    that closes gaps, the one that marks samples, and the one that pulls them
    singly all make the walk of `Take` over the read (the section "The loops of
    the filters take them that way").  So what a turn keeps, the walk keeps, and
    what every filter keeps, the chain keeps (`Chained`).
  * `ReleasesAlwaysEndPresses` and `BatchesNeverMatter`: a turn of `pthres_read`
    passes a release on only if the press before it was, and the loop leaves in
    front of its place in the array what the turns have given.  Both are for
    `ts_read`; what `ts_read_mt` does instead is the finding of `pthres_mt`.
  * `DebounceNeverTooEarly`: along a read, `quiet` is the time since the last
    release, and `drop` is set only by a sample of the quiet time.
  * `PenIsNeverStuck`.  `Linked` says for each filter what its state knows of a
    slot, given whether the last sample it got and the last it gave are presses:
    `pthres` has none pending that the device does not, `skip` has not passed
    on a press without being in one, `median` holds only releases, or what malloc
    left, while no press is under way (`Settled`, `Junky`), the others give what
    they get.  `Unstuck` joins these from the device to the program.  `Releasing` is
    the hypothesis, and what the code needs: a median, an average or a
    calibrated pressure in front of `pthres` makes a press of what is too light to
    be one, a calibration by itself may give no pressure as some, and `median_read_mt` does not clear its line
    (see Observations).
  * `SkipGivesTheMiddle`.  `Going` says what skip's counters and ring hold of a
    touch that the device has reported so far, and that the program has its
    middle; `Left`, what the program has when the touch is over.  `Middles` says
    which of the two the last read has left, or what the read to come will find.
  * Assumptions: `ConfAssumption`, a chain names each filter once (`mods` has one
    state for each), `ts_read` has one finger, and the history of a touch behind
    `skip` has room for a press and a release; `JunkAssumption`, what malloc left
    and where a touch starts are numbers; the parameters of the filters are in
    the range of their types, and no divisor is 0 (`LinearAssumption` and others).

Only model-checked: the liveness properties `Terminates` and `ReturnsToIdle`
(fairness and ENABLED are out of the prover's reach); `KeepsUp` of
`FilterChain`, for which one would have to know of every filter between which
of its samples a place it gives lies, and that sums of products with weights stay
there; `ReadFollows` and `ContactsReplayed` of
`Uinput`, whose frames are folds over sets of contacts, where a proof
would need an induction over the events of each kind of device; and
`CalibrationIsTrue`, which multiplies coordinates with each other.  Type invariants, and the properties `OneActiveButton`,
`AverageStaysInside`, `FreedOnce`, `WalkIsShort` and `LatchedFromThisHold`, are
steps of the proofs and no longer part of a run.

## 5. Findings and observations

Three runs show a disagreement between the code and what a comment or the
documentation says of it:

* `chain_order`: the loop in `ts_attach.c:44-46` moves `prev` along with `next`.
  Behind it `prev` is the old raw module, or `NULL` when there is none, and not
  "the last item in the normal list" (`ts_attach.c:35`).  A second raw module
  behind a filter is never read by it, and the two raw modules point at each
  other; a first one behind a filter dereferences `NULL`.
* `pthres_mt`: `pthres.c:150` tests the pointer `p->press`, not `p->press[j]`,
  so the case commented "release with no press, outside bounds, dropping"
  (`pthres.c:157`) cannot happen.
* `touches_on_line`: `ts_calibrate.c:50-66` adds and multiplies floats, so of
  touches on one line a determinant of millions may be left, which passes the
  "check if determinant is too small" (`ts_calibrate.c:65`).  Five touches at
  (3001, 1777) give 89702400, and a calibration without meaning is saved.

Reading the code for the models showed the following.  Where a model reaches
the behaviour it contains it, and no property denies it.

Game and drivers:

* `pop.c:338-374`: a touch dragged from a block onto Quit presses that block
  after its picture paths were freed.
* `pop.c:336-337`: Remap can leave one picture with no block behind it.
* `pop.c:330-372`: a touch that is dragged onto Restart or Remap presses a
  block of the new map.
* `pop.c:145`: with nothing selected `press_block` forms a pointer in front of
  the table and reads through it before it checks.
* `xled.c:72`: every write lights all three LEDs for an instant.  `xled.c:7`:
  a negative answer of `register_chrdev` is taken for a major number; `kmalloc`
  and `ioremap` are not checked.

Console and frame buffer library:

* `fbconfig.c:159`: after a failure, or a signal, between FBIOGET_FSCREENINFO and
  `mmap`, `close_framebuffer` calls `munmap(NULL, smem_len)`, which removes the
  program, linked at 0x10000, from its own address space and leaves the console
  in graphics mode.  `ConsoleComesBack` excepts this case.
* A signal before `open_framebuffer` has set `consoledevice` faults in `strcmp`,
  and in the handler again.  A signal after `free (line_addr)` frees it twice.
  A failed open closes stdin, as `fb_fd` and `con_fd` start as 0.
* `fbconfig.c:105,112`: a refused VT_WAITACTIVE or KDSETMODE closes the console
  before it is switched back.
* `fbconfig.c:281`: exclusive-or pixels keep `transp_mask`, so a crosshair near
  the lower edge leaves transparency bits in the invisible rows
  (`fbconfig.h:13` says that it "will remove the element leaving the background intact").
* `frambuffer.c:224-269`: `draw_block` is one row lower than `draw_sblock`, so a
  block that ends with the screen spills into the other one.  `draw_line` orders
  the two pairs of ends separately, so falling lines rise.
* `frambuffer.c:387`: 24-bit pictures whose rows need no padding come out aslant.
  The early returns of `draw_BMP` leave the file open.
* `frambuffer.c:286`: the block at the left edge takes its second place from an
  index never set.
* `frambuffer.c:150`: `SCREEN_USING` changes even if panning fails.
* `newtest.c:97`: `getxy` keeps the first 127 samples of a touch.  A bounce right
  behind `clearbuf` spoils the next cross.  A failed write leaves an empty
  calibration file, as it was truncated before.

Display controller:

* `s3cfb.c:1246`: late resume sets up the windows that are enabled; one that is
  switched on later shows what its registers held before.  A blank or a release
  during suspend is lost for good: the window is off for the driver and its
  channel stays on, after a release on memory that was freed (`s3cfb.c:537-539`).
  `HardwareFollows` and `NeverScansFreed` except such windows.
* `s3cfb.c:139-140`: late resume initialises the lock of open and release anew,
  whoever holds it.  `UsersCounted` holds all the same, as the core serialises the
  calls for one window.
* `s3cfb.c:529`: releasing the default window resets `win->x` without its register.
* The read-modify-writes of the shared registers (WINSHMAP) by calls for two
  windows may lose one of them.  `win_power` can turn on a window without memory.
* `s3cfb.c:574`: the completion counts interrupts nobody waits for and is made
  anew by a late resume only, so `wait_for_vsync` does not wait while the display
  runs.
* The probe: a failed `kzalloc` is followed by a use of NULL, a failed
  `regulator_enable` leaks its reference, a failed registration returns in front
  of its unwinding; remove unmaps the registers and then writes to them.

tslib:

* `ts_config.c:86,110`: a file given up at a line that is too long or has an
  unknown option counts as loaded if it has a raw module; `doc/ts_config.3:23`
  says "A negative value is returned in case of an error."
* `ts_config.c:152`: `ts_reconfig` forgets the resolution and rotation that
  `ts_option` has set; an unknown option returns a variable that was never set.
* `pthres.c:97-134`: only the first of the three per-slot arrays grows when a
  caller brings more slots.
* `debounce.c:52`: `drop` is not reset within a read, so events long after the
  quiet time are dropped, which `doc/ts.conf.5:231` does not say; in
  `debounce_read_mt` one finger's bounce drops the other's samples.
* `median.c:277`: `median_read_mt` clears as many bytes as samples of the single
  touch kind have, so part of an old touch is mixed into the next.  The delay of
  `median_read` is what malloc left.
* `skip.c:238`: `skip_read_mt` queues a sample only when a pen went up, the
  reverse of `skip_read`; `skip.c:187` continues the inner loop only, so the
  release it means to ignore is not; `skip.c:245` frees buffers that the next call
  uses.  `variance_read_mt` starts a call with a sample it has not read.
* `linear.c`: the division is unsigned, so a coordinate slightly below 0 becomes
  large; an offset of the pressure makes presses of releases.
* Behind `debounce` a program can get a release whose press was dropped.
* `input-raw.c:97`: `set_pressure` fills in a pressure for `ts_read_mt` only on
  multitouch devices, while `README.markdown:71` says "`ts_read_mt()` aims to be a
  drop-in replacement for `ts_read()`, so you can use it for any single touch
  device too".  A first contact in slot 0 has what malloc left as its slot, as
  ABS_MT_SLOT is not sent for it.  The slot that `Clear` marks is the current one.
* `tatung-raw.c`, `waveshare-raw.c`: they return `nr` however much was read;
  `waveshare-raw.c:53` cuts the name it searches for to the size of a pointer.
* `dmc-raw.c`: a failed read takes back the sample before it; a short one loses
  step.  `galax-raw.c` forgets where the pen was lifted.
* `cy8mrln-palmpre.c:349`: the parameter `timestamp_mode` sets the sleep mode.
  `cy8mrln-palmpre.c:667`: a default that the chip refuses leaves the driver's
  field as malloc left it; if no parameter sets the rate, the first waking
  (`cy8mrln-palmpre.c:527`) sets the chip to that.

## 6. Not modelled

* `font_8x8.c`, `font_8x16.c`, pictures, build files: data.
* The options and the set-up of `ts_uinput`, `ts_test.c`, the serial set-up of
  `touchkit` and `dmc`: straight-line code that only ends the program on failure.
* `skip_read_mt` and `variance_read_mt`, whose second call already uses freed or
  unset memory; the growing of per-slot arrays; `linear-h2200.c`.
* `ts_option` and the parsing of module parameters, as no program here uses them
  beyond what is written in `ts.conf`.
* The vsync completion, the palette and the boot logo of the display driver: no
  state the other calls use depends on them.
* `touchscreen/frambuffer.c`, a near copy of the library that nothing builds.

## 7. Plan

What would add most, in this order: `ReadFollows` for any number of slots, by
induction over the events of a frame as `ProgramFollowsPen` has it for galax;
`KeepsUp`, with an invariant that bounds what each filter's state holds by the
touch; `SkipGivesTheMiddle` for reads of several samples.
