# Verification of the Tinker Board Debian software

The repository builds the Debian image of the ASUS Tinker Board: scripts that
make a root file system, an overlay of device scripts and tools, and a debug
overlay with the GPIO libraries users program the board with. This directory
holds TLA+ models of the parts whose behaviour is hard to test, the TLC
configurations that check them, and proofs that TLAPS checks.

In this text *event_gpio.c*, *soft_pwm.c*, *py_pwm.c*, *py_gpio.c*, *common.c*,
*wiringTB.c*, *c_gpio.c* stand for the files of
`overlay-debug/usr/local/share/gpio_lib_python_rk3399/source/`, *wiringPi.c*,
*softPwm.c*, *softTone.c* and the chips' files for those of
`overlay-debug/usr/local/share/gpio_lib_c_rk3399/wiringPi/`, and mraa's *gpio.c* and
*gpio_chardev.c* for those of `overlay-debug/usr/local/share/mraa/src/gpio/`.

## 1. Inventory

| Component | State | Operations | Concurrency and failure |
|---|---|---|---|
| Edge detection, event_gpio.c | `gpio_list`, `callbacks`, `event_occurred[]`, `thread_running`, `epfd_thread`, `epfd_blocking` | add_edge_detect, add_edge_callback, remove_edge_detect, event_cleanup, event_detected, blocking_wait_for_edge, poll_thread | one or more detached poll threads without any lock; callers under the Python lock (GIL); the kernel's epoll and descriptors; export, open, epoll_create, epoll_ctl and pthread_create may fail |
| Software PWM, soft_pwm.c under py_pwm.c | `pwm_list`, one record per channel, the pin | PWM_init, start, ChangeDutyCycle, ChangeFrequency, stop, dealloc, pwm_thread | a thread per running channel that frees its own record while the methods walk the list |
| Python bindings, py_gpio.c and common.c | `gpio_direction[]`, `gpio_mode`, `py_callbacks` | setup, output, input, setmode, cleanup, event methods, hardware PWM, drive strength | C callbacks re-enter Python from the poll thread, which walks `py_callbacks` without the GIL; lists of channels fail half-way |
| Register layer, wiringTB.c and c_gpio.c | the mapped GPIO, mux, pull, drive, PWM and clock registers | pin mode, write, pull, PWM period, duty and clock, tones | read-modify-write of registers that several threads share; clock gate switched around each access |
| wiringPi (C) | `wiringPiNodes`, `pinPass`, `newPin`, the tables of soft PWM and tones, `sysFds` | pinMode, digitalWrite, wiringPiISR, softPwm*, softTone*, pwm* | a thread per PWM, tone and interrupt; a pin number is handed to each in a global; threads are cancelled |
| wiringPi device drivers | the chips' registers; the output latch cached in the node | setup, pinMode, pullUpDnControl, digitalWrite | I2C and SPI transfers that fail; a program restarted over chips that kept their state; threads without a lock |
| mraa: GPIO contexts | exports, edges and line requests; descriptors, events array and thread of a context | init, dir, read, write, isr, isr_exit, close | a handler thread that is cancelled where it sleeps; contexts of one pin; no descriptor left |
| Power management console, tinker-power-management.c | governor and frequency menus, sysfs limits, /boot/config.txt | keys | each key is a sequence of shell commands; a reset may fall between them; rockchip.sh restores the configuration at boot |
| Device scripts (usbdevice, adbd.sh, power-key.sh, drm-hotplug.sh, resize-helper, rockchip.sh) | flag files, configfs, lock and pid files | boot, hot-plug, key events | concurrent udev and key events; first boot interrupted |
| tinker-config, image build scripts, mraa's other buses and boards, devLib, examples, test tools | | | menus, straight-line scripts, tables, samples |

How they interact: py_gpio.c calls event_gpio.c for edges and soft_pwm.c for
PWM; both write pins through c_gpio.c and wiringTB.c. The poll thread calls C
callbacks, of which py_gpio.c registers one (`run_py_callbacks`) that takes the
GIL and calls Python functions; these may call the library again. A PWM thread
calls output_gpio. wiringPi carries its own copy of wiringTB.c, and its soft PWM and
tone threads write pins with digitalWrite, which goes to the registers, to a sysfs
file or, for a pin number from 512, to the node of a chip. mraa drives the same pins through the
kernel. The console writes sysfs and /boot/config.txt, and the boot
script reads the latter.

What is hard, and therefore what the properties are about:

- *interleaving without a lock*: a poll thread holds a pointer into a list that
  a caller changes; two poll threads read and reset the same flag; a PWM thread
  frees the record a method is about to write;
- *state kept in two places*: registry, callback list, open descriptors and
  epoll sets have to agree after every partial failure;
- *reset against a thread that has not noticed*: `thread_running`, the flag of a
  removed channel, a PWM that is stopped and started at once;
- *state kept in a cache*: the node of a chip remembers what it wrote, a mraa
  context the descriptor it opened, a Python program the callbacks it added;
- *cancelling a thread*: it ends only at certain points, and holds what it opened;
- *something has to happen eventually*: an edge sets the flag or is served,
  wait_for_edge, softPwmStop and isr_exit return, a stopped PWM ends low.

`PROJECT.json` lists each of these at its line.

## 2. Modules

| Module | What it is |
|---|---|
| `EventGpio` | event_gpio.c with the kernel objects it uses |
| `EdgeService` | what edge detection promises a program; `EventGpio` implements it (`ServiceSpec`) |
| `EventRaces` | `EventGpio` with a history of its two races, from which alone a fault comes |
| `EventGpioProofs` | proofs about `EventGpio`: its registry, cleanup, races, programs that are quiet, and that it implements `EdgeService` |
| `MCEventGpio`, `MCEventRaces` | sets of channels, threads and operations for TLC |
| `SoftPwm` | soft_pwm.c under the methods of py_pwm.c |
| `PwmRaces` | `SoftPwm` with a history of its race, and what holds until it |
| `PwmProofs` | proofs about `SoftPwm` (running records have threads; until a race, the list, who walks it, and that a started channel is driven) and about `HwPwm` (the high times, the tones) |
| `MCSoftPwm` | sets of channels, threads and methods for TLC |
| `GpioRegisters` | the register layer, wiringTB.c under c_gpio.c |
| `PyGpio` | the channel functions of py_gpio.c and common.c, over `GpioRegisters` |
| `PyRaces` | `PyGpio` with a history of two threads that hold one word, and what holds until that |
| `PyGpioProofs` | proofs about `PyGpio` and the register layer under it |
| `MCPyGpio` | four pins, a software PWM and the calls of a program for TLC |
| `PyEvents` | the Python callbacks of py_gpio.c and the poll thread that walks them |
| `PyEventsProofs` | the inductive invariant of `PyEvents` and its proofs |
| `HwPwm` | the hardware PWM: wiringTB.c under py_gpio.c and under wiringPi.c |
| `WiringThreads` | the threads of wiringPi: softPwm.c, softTone.c, wiringPiISR |
| `WiringThreadsProofs` | proofs about `WiringThreads` |
| `WiringNodes` | the nodes of wiringPi and seven chips |
| `WiringNodesProofs` | proofs about `WiringNodes` |
| `MraaGpio` | GPIO contexts of mraa with their interrupt handlers |
| `MraaGpioProofs` | proofs about `MraaGpio` |
| `PowerConsole` | tinker-power-management.c, with the part of rockchip.sh that restores its settings |
| `PowerConsoleProofs` | the inductive invariant of `PowerConsole` and its proofs |
| `MCPyEvents`, `MCHwPwm`, `MCWiringThreads`, `MCWiringNodes`, `MCMraaGpio`, `MCPowerConsole` | small instances of these for TLC |

### EventGpio

`gpioList` is the linked list, head first; `rec[c]` is the content of the record
of channel *c*; `callbacks` is the callback list as an array of cells in list
order, with Null for a cell that was freed. `eventOccurred`, `threadRunning`,
`epfdThread` and `epfdBlocking` are the globals of the same names. `valueFile`
and `epoll` are the kernel's side: which channel's value file a descriptor is open on, and
for each epoll instance whether it is open, what it watches and what is ready.
`pc`, `ptr`, `arg` are a poll thread's place and locals; `op` is the library
operation in progress under the GIL; `wait` is a blocked wait_for_edge.

Each step of poll_thread is an action (`PollStart` .. `PollExit`): the steps are
cut where the thread reads or writes something another party may change.
A pointer to a record or cell that another party frees becomes `Dangling`; using
it, or the unchecked NULL of get_gpio_from_value_fd, sets `fault`, and the
behaviour ends there.

Choices a reader should know:

- The calls of a Python program exclude each other by the GIL. add_edge_detect
  is one step: it links the record before anything else can refer to it, and
  the poll threads see the channel only when it is watched, at the step's end. A failing
  new_gpio leaves no record and no descriptor. Exports are no state of the module: a failing
  open unexports the pin, a failing gpio_set_direction (event_gpio.c:194) leaves it exported. Failures of epoll_create, epoll_ctl and
  pthread_create are actions of their own (`AddNoEpoll`, `AddFails`,
  `WaitNoEpoll`), and a failed epoll_ctl or pthread_create goes on as a removal.
- A removal is two steps, `RemoveDisarm` up to the reset of the flag and
  `RemoveFree`; event_cleanup is a loop of them between `Cleanup` and
  `CleanupFinish`, and so another thread meets its intermediate states.
- The prefix of blocking_wait_for_edge (look-up, epoll_ctl ADD) is one step, then
  it waits without the GIL. Its epoll_ctl failing leaves what `WaitNoEpoll` leaves.
- A channel is set up as an input before its edges are used. EINTR is ignored.
  Whether a bounce time is over is left to the clock.
- `PollWait` takes the read of epfd_thread and the entry of epoll_wait as one.
- `initial_thread` is tested and reset in two steps, as the data race allows.
- `Quiet` = TRUE is an assumption on the environment: a channel is removed only
  when every poll thread sits in epoll_wait with nothing to report, and the line is still
  meanwhile. The code gives no such guarantee; the runs with `Quiet` = FALSE
  show what holds without it, and the violations what does not.
- `EventRaces` adds a variable no action reads, `raced`. It becomes TRUE when a removal is in
  progress while a poll thread is between its look-up and the end of its callbacks (`Overlap`),
  or cleanup(channel) comes to another channel's record (`Strayed`). `FaultsAreRaces` says of
  every program that nothing else leads to a freed record or NULL.

### SoftPwm

`cell` is the heap of records, `live` the allocated ones, `head` is pwm_list.
`call` is the method in progress: `FindHead` and `FindNext` walk the list as
find_pwm does, a cell per step, then `StoreValue`, `StartThread`, `StartFails`
or `AlreadyRunning` acts on what was found. pwm_thread's loop is `PwmLoop`,
`PwmOn`, `PwmOff`; after it `PwmLow` and remove_pwm's scan (`RemoveHead`,
`RemoveMatch`, `RemoveNext`). `object` is what the program asked of its PWM
object and is not state of the C code. Malloc does not fail; the content of a
freed cell is forgotten; a channel has at most one PWM object. `program` is what
the program takes care of: a quiet one calls no method while a thread is ending. `PwmRaces`
adds the history of whether a program did call one then (`raced`), and states what holds until it.

### GpioRegisters and PyGpio

`todo[t]` is what a thread has to do: calls of c_gpio.c and, last for each
channel, the assignment of `gpio_direction`. `GpioRegisters` carries out the
first of them, one access of a shared word per step: `SaveGate`, `PeekGate`, `OpenGate`
are gpio_clk_disable, `PeekAgain` and `CloseGate` gpio_clk_recovery, and between
them `Look`, `LoadMux`, `StoreMux`, `Load`, `StoreLevel`, `StoreOut` are the bodies of
asus_get_pin_mode and asus_digitalRead, asus_set_pin_mode, asus_digitalWrite.
asus_pullUpDnControl is one step (`SetPull`), its read being masked with zero. A
word is a function from the pins or banks in it to their fields; `word[t]` is the
copy a thread has read. `PyGpio` is the functions of the Python module. One that takes a
list begins with `Setup`, `Output`, `CleanupChannels` or `CleanupAll`, which put into `rest` what
is to be done, channel by channel. Whenever the calls of a channel are over, the checks of
the next one are made on the state they left: `SetupChannel` (setup_one), `OutputChannel`
(output), `CleanupChannel` (cleanup_one) fill `todo`, `Raise` ends the function at the
first channel that fails, and `CleanupNext` and `CleanupEnd` are the loop over the table.
`mode`, `direction`, `mapped` are gpio_mode, gpio_direction[] and module_setup; `asked`
is what the program asked and is no state of the code.

Choices a reader should know:

- The clock and pin controllers' words have write-enable bits, as the code's
  comments and shifts by 16 say; the data and direction words have none.
- `Apart` = TRUE is an assumption on programs: while the software PWM of a pin
  runs, the program uses no other pin of its bank. The code gives no such
  guarantee and asks for none; section 4 says what happens otherwise. `OnlyOwnPin` needs it not:
  `PyRaces` remembers in `raced` whether two threads have held the same data word, or the same
  direction word, at once, and the property excepts from then on these two bits only. (TLC
  finds it to hold with `Apart` = FALSE as well, and to fail there without the exception.)
- What is read has no effect on what is written, except the data direction and
  function that setup looks up for a warning: reads are steps (they
  start and stop clocks), their results are left out, and so are warnings.
- The registers of the hardware PWM and of the drive strength are in `HwPwm`; of the
  former only the accesses of pin registers are here. Mapping the registers succeeds. The edge detection that cleanup ends is in `EventGpio`,
  the PWM thread's life in `SoftPwm`: here it writes its pin while it is on and low last.
- A channel that is no GPIO of the numbering mode is a value outside `Gpio` (`bad` in the run).

### PyEvents

`cell` is the heap of records, `pyCallbacks` the list through them, `callbacks` how
many C callbacks event_gpio.c holds for each channel; every Python function has one. The methods are
one step each, as they keep the GIL; the poll thread's walk is a record per step
(`WalkOther`, `WalkCall`, `CallReturns`), because run_py_callbacks walks without the
GIL and takes it for each call, and the function it calls may call any method. What
event_gpio.c does is what `EventGpio` shows of it: an edge is reported once, or
ignored as the first or a bounce (`Ignore`), and cleanup(channel) may disarm any
further channels. `quiet` programs remove the detection of a channel only while the
poll thread waits or calls a function of another channel; others may do so at any moment, and
then a record is used after it was freed (`UseFreed`), where the behaviour ends.

### HwPwm

What `SoftPwm` has under the same name begins with Hw here, since `PwmProofs` extends both. A call is one function of wiringTB.c after another: `rest` are those it has yet to call, with a
pin and a value each. `MakeWrite`, `MakeTone`, `MakePeriod` and `MakeFrequency` begin one and lay out its accesses
of the PWM words in `writes`, and `DoAccess` makes one of these: a
PWM channel goes on counting between them. Each function looks the pin up only when its turn comes
(`Ignore`: it is no PWM pin now), and the Python library checks the directions of a list channel by channel, so that the
first one setup did not make a PWM output ends the call with the earlier ones written (`Raise`). The registers hold the period and the
*low* time; the functions of both libraries speak of the high time, which a change of the
period has to work out and write again. Words are unsigned and `Size` is where they
wrap. A pin's function, its direction in gpio_direction[] and the words of its
channel are separate state, so that a call on a pin that has meanwhile become an input
does nothing. `asked` and `tone` are histories. `Alone` = TRUE is an assumption on programs:
pinMode makes a PWM output only while there is no other.

### WiringThreads

`todo[c]` is the rest of the function a thread of the program is in, as steps;
`worker` are the threads that wiringPi created. `newPin` holds the three variables
through which a pin is handed to a new thread: the two newPin of softPwm.c and softTone.c,
and pinPass. A step of a worker is a half of its loop. A cancelled thread
ends where it sleeps at least 100 us (shorter delays are a busy loop) or, with sysfs,
before it writes the value file; `Join` waits for that. Values and ranges are any integers, as
softPwm.c takes them (section 4): delayMicroseconds is unsigned, so that a negative time is a sleep of over an hour
(`Long`). `rangeless` and `unfit` are histories, of the pins that softPwmCreate was given a range
of 0 for, or a value outside 0..range. `uses` is which kinds of thread the program makes, and for which pins. pthread_create fails when no worker
is free, and its creator then spins for ever (`Await`) while the other threads go on.

### WiringNodes

`word` are the registers of the chips as sets of the pins whose bit is 1, `nodes` the
list of nodes with the latch each remembers. digitalWrite, pinMode and
pullUpDnControl are a read (`Load`: of the bus, or of the memory for the latch), a write
(`Store`) and an update of the memory (`Keep`), in the order of the driver: sr595.c remembers
first. `Exit` ends the program, at any moment, while the chips keep their registers;
wiringPiNewNode ends it as well when pins overlap. `Fails` says which transfers may fail
without notice. `Apart` = TRUE is an assumption on programs: threads write different
registers, and a pcf8574 is set up while nobody pulls its lines down.

### MraaGpio

`exported`, `edging`, `file` and `queue` are the kernel's side of both interfaces;
`ctx` the contexts and `handler` their threads. A call is a sequence of steps
that other threads' steps interleave with: the export is a look and a write, isr_exit is
`terminate`, `silence`, `cancel`, `join`, `reset`. `events` is the life of the array
that the handler writes. The field event_handles of a failed request is what malloc left
there, any descriptor. A cancelled thread does not close what it opened. `fault` names the
memory fault met, where the behaviour ends: the events array used after it was freed, or freed twice,
or event_handles read by a handler thread that starts only after isr_exit freed it. pthread_create may fail, and its
result is not looked at: thread_id then is still 0, or is set and names no thread that runs. `Careful` = TRUE is an
assumption on programs: a context with an interrupt thread is closed after isr_exit. It may be closed at once
after an isr that failed. The C++ destructor of Gpio (gpio.hpp:145) makes no such promise.

### PowerConsole

`limit`, `governor` and `thermal` are the sysfs files, `config` is /boot/config.txt,
`ui` the globals of the console: `menu` is curr_cpu_menu and curr_gpu_menu, `shown`
curr_cpu_governor and curr_gpu_governor, `seen` the cached a53_min .. t86x_max,
`currTag` curr_tag. `mode` is cpu_mode and gpu_mode; modes 2 to 5 are one page
"limit" whose box is the menu's. A frequency is its index in its table, so that
408 MHz is 0 and the highest is `Last[cl]`; `Unlimited` are the values draw_square_B
compares with. The GPU's simple_ondemand is called ondemand like the CPU's.

A key is one step, except the space key of a page: `SaveGovernor` and `SaveLimit`
lay out the shell commands of the handler in `pending`, `Step` runs one, and `Leave`
is the end of the handler. Drawing has effects: a box of the table is drawn from
its sysfs file and sets the cached limit and the tag all boxes share (`Draw`), and
the governor line works out dirty, the shown governor and sometimes the menu and
the priority (`BoardLine`). The order of these draws is that of the code.

The kernel accepts a limit only between the opposite limit and the end of the table
(`Accepts`). `Boot` may happen at any moment: it forgets the console and pending
commands, and runs the boot script over the kernel's defaults. The script runs
under `bash -e`, hence ends at a refused write. The first boot is that of an image with
the default settings. `Interrupt` is Ctrl+C; with `TornSaves` it may fall within a
save, and `torn` remembers that it did. Only the console and the boot script write these files.

## 3. Runs

| Run | Instance | Shows |
|---|---|---|
| EventLive | 1 channel, 2 threads, 2 edge kinds, with and without bounce time, add/callback/wait, fair | `EdgeIsFlagged`, `WaitReturns` |
| EventQuiet | 2 channels, 2 threads, add/callback/remove/cleanup, Quiet | `ArmedHasPoller`, `ServiceSpec` |
| EventFree | 2 channels, 1 thread, every operation by the program at any moment, callbacks that remove channels | `RegistryMatchesKernel`, `NoOrphanCallback`, `FaultsAreRaces`, `CleanupAllIsClean` |
| EventCleanupOne | cleanup(channel), 2 channels | `CleanupSparesOthers` is violated |
| Callbacks | 2 channels, 2 functions, 3 records, every method at any moment and from callbacks, quiet and other programs | `NoFault` (quiet), `OnlyWanted`, `EachIsCalled` |
| Pwm | 2 channels, 2 threads, every method with quiet programs, start and stop with others, fair | `FaultsAreRaces`, `OneDriverUntilRace`, `RunningIsDriven`, `StartedIsDriven`, `StopEndsLow` |
| Power | tables of 1, 2 and 2 frequencies, Ctrl+C within a save, power loss at any moment | `ConfigAgrees`, `NeverRefused`, `OnlyOndemandIsLimited`, `TagOfMenu`, `DirtyIsExact`, `ShownIsTrue` |
| Pins | 4 GPIOs of 3 banks, a software PWM beside the program's calls, lists that fail half-way | `ClockRuns`, `ClocksRestored`, `OnlyOwnPin`, `PinsAsAsked`, `NoGlitch` |
| HwPwm | 2 PWM pins and another, lists of one and of two pins in either order, registers of 16 bits, either library, Alone | `HighTimeKept`, `ToneHeard` |
| Wiring | 2 pins, 2 threads of the program, 2 workers, registers or sysfs; PWM and tone of one pin, or one kind (PWM, tones, interrupts) on both; ranges 0 and 150; fair | `OwnPin`, `OneDriver`, `StopReturns`, `EdgeServed` |
| Nodes | an mcp23x, an mcp23016 of two banks, a pcf8574 beside an sr595; 2 threads, failing writes, Apart | `LatchIsAsked`, `OthersKept` |
| Mraa | 2 contexts of 1 pin, 2 descriptors, both interfaces, failing isr and pthread_create, Careful, fair | `NoFault`, `KeepsItsFile`, `ExportsAreOwned`, `ExitReturns`, `EventsAreServed` |

Why the bounds are enough. Two channels make a list with a head and a rest, so
that every branch of the list operations, the wrong target of the cleanup loop and the
reuse of a descriptor by another channel happen. A second poll thread is created
only while thread_running is not yet set; two show the races between them. Two
descriptors and two epoll instances suffice for two channels and the two kinds
of waiting, and running out of instances is how epoll_create fails; likewise
all thread slots busy is how pthread_create fails. Three PWM cells let a
channel's record be allocated at a new address before the old one is freed.
The console compares frequencies only with each other and with the ends of the
table: the A53's table has one frequency, which is both of its ends, the others have two
different ends, so that a tag of one table may be too large for another. (Tables of 3, 4
and 3 frequencies were checked too, without Ctrl+C within a save; a middle adds no behaviour
the properties tell apart.)
Of the four GPIOs two share every word, one shares only the clock gate word with
them (and has the PWM), and one is not known to gpio_is_valid. One setup per
direction, lists in another order than the numbers, and a list with a channel that is
invalid in its middle reach each branch; the registers start undriven, with a
pull-up and another function, so that every field has to be changed.
Two functions for two channels, and three records, make a list that has records of another
channel before, between and after those of the one walked. A period of 20 below a high time
of 30 wraps, 65535 is the -1 that the code takes for an error, a divisor of 300 is both above
the clamp and above a byte; the other pin behind a PWM pin in a list is where a call raises half-way, and
a list in the other order than the channels tells the two apart. A worker for each of two pins leaves none for a third
thread, hence pthread_create fails; a range of 150 with a mark of 150 or 0 has one half that
sleeps and one that is left out, a range of 0 with an initial value of 150 makes a thread that cannot be stopped
and whose second half is negative, and 6000 is above the highest tone. PWM and tone of one pin
compete for it, and two pins of one kind for the variable that hands the pin over; mixtures on both pins
are left out: the kinds share only the worker slots and the level of the pin. One chip of each way to
treat the latch: banks of two pins, the second of the mcp23016 half empty; two bases let
nodes overlap. Two contexts of one pin compete for it, two descriptors are fewer than two contexts
with handlers want.
Every run is finite without a state constraint. `CHECK_DEADLOCK FALSE` because a
program may stop calling the library, a line may stay still, and a fault ends the behaviour.

Fairness (`FairSpec`): the scheduler runs every thread that can run, an operation
that was begun proceeds, a waiter with something reported wakes up, and Python
callbacks return. Nothing forces the program to call or a line to change;
`WaitReturns` assumes the changing line as its premise. `WiringThreads` and `MraaGpio`
assume the same of the program's threads inside a call and of the libraries'
threads, and that a function called for an interrupt returns. No fairness is assumed of
programs, kernels and chips.

## 4. Findings

The violation run is a place where documentation and code part:

- *EventCleanupOne*: cleanup(channel) removes the edge detection of every record
  it passes before it compares the channel (py_gpio.c:1980 promises "individual channel").
  The same loop goes on from a stale `temp`, a freed record: this is `Strayed` in `EventRaces`.

What the models say when an assumption of a run is dropped, each found by TLC while
they were written; these have no run of their own.

- *Edges.* A fault does happen: a thread's look-up and use of a record are not protected against its
  removal; likewise in `PyEvents` and `SoftPwm`. `FaultsAreRaces` says from which interleavings it
  comes, not that they do not occur. With cleanup() and a second add_event_detect, `ArmedHasPoller` does not hold: cleanup
  resets thread_running under a poll thread that has not noticed, and the channel armed next
  may be served by nobody, although CHANGELOG.txt:51 says "Fixed adding events after a
  GPIO.cleanup()".
- *Python callbacks.* cleanup() leaves `py_callbacks` as it is, so a later detection of the
  pin calls the functions added before it; and as each of *n* functions registers a
  callback that calls all of them, each is called *n* times.
- *Software PWM.* The thread frees the record on stop, so the next start runs at 1 kHz
  (py_pwm.c:144); a start between the end of the old thread's loop and its removal of the record
  is lost with the record.
- *Pins.* With `Apart` = FALSE in `PyGpio` and the software PWM on 149, in the bank of 146, all
  properties but `OnlyOwnPin` fall within seconds: a PWM thread writes back the data word it read before
  output() set another pin, or finds the clock started by a call that stops it again too
  early. README.txt:13 of the library says "software PWM is available to use on all
  channels"; it holds only for a program that uses no other pin of the bank. `PinsAsAsked`
  also leaves out GPIO2_D1, which the numbering tables have and gpio_is_valid has not:
  setup and output of it succeed without effect.
- *Hardware PWM.* A high time of -1 is taken for an error when the period changes, and lost
  (wiringTB.c:1035). pwmSetClock keeps a byte of the divisor (wiringPi.c:1132). pinMode(PWM_OUTPUT) of one
  pin retunes the others.
- *wiringPi threads.* softPwm.c:38-42 speaks of a PULSE_TIME of 100, line 52 has 1: with a
  range below 100 both halves of a round are busy loops, the thread reaches no
  cancellation point, and softPwmStop's join (line 162) does not return: `StopReturns` leaves such ranges out. `softPwmCreate`
  compares the address of the array `range` with 0 (line 130) and so refuses no range. With 0 a thread runs
  while `range[pin]` says that there is none: softPwmStop does nothing, and the next softPwmCreate starts a second
  driver on the pin. It takes any initial value (line 136) too: one outside the range leaves a half with a negative
  time, for which delayMicroseconds, whose argument is unsigned, sleeps for over an hour. When pthread_create fails the creator spins for ever (line 142).
- *Nodes.* PI_GPIO_MASK sends pin numbers below 512 to the board's own pins, whereas
  wiringPi.c:1336 has "Minimum pin base is 64" and examples use 100 and 200: such a node
  is never reached. Where reads may fail, or two threads share a register, `OthersKept` does not
  hold: nothing looks at the result of a read, and nothing locks.
- *mraa.* Closing a context whose interrupt is active frees the events array twice, as the destructor ~Gpio does;
  on the character device so does closing one whose isr failed after it had made the array (gpio.c:887), for isr_exit returns
  early (line 1010), mraa_gpio_close frees the array and keeps the pointer (line 1684), and
  _mraa_free_gpio_groups frees it again (gpio_chardev.c:82). There isr_exit also frees event_handles (line 1018) before
  the handler has ended: one that has not begun yet reads a NULL or freed array (line 719), and
  the process ends there, which is why `ExitReturns` and `EventsAreServed` except it. A cancelled
  handler leaks the descriptor it opened.

What the console runs say beside the properties. Drawing again after each write is what keeps
`seen`, dirty and the tag right: `cpu_dirty` is cleared by a save that looks at one
value only, and is saved by draw_square_B working it out again whenever a governor
page opens. After a Ctrl+C within a save, kernel and settings differ until
the same value is saved again, and a setting may stay narrowed under a governor other
than ondemand; this is why `ConfigAgrees` and `OnlyOndemandIsLimited` except it. The boot script does not write the thermal zones: the performance
governor runs with them enabled after a boot and disabled after it was chosen.

## 5. Proofs

Every theorem holds for all values of the constants that `Parameters`, the assumption
on the constants of the module (`LastAssumption` and `TornAssumption` in `PowerConsole`, `RegisterParameters` and
`PyParameters` in `PyGpio`, `HwParameters` in `HwPwm`), admits: any number of channels, pins, threads, nodes,
contexts and descriptors. What a theorem assumes besides is in the last column.

| Module | Theorem | States | Assumes |
|---|---|---|---|
| `EventGpioProofs` | `RegistryInvariant`, `TypeCorrect` | []RegistryInv, []TypeOK | |
| | `RegistryAgrees` | []RegistryMatchesKernel | |
| | `CallbacksAreOfRegistered` | []NoOrphanCallback | |
| | `CleanupLeavesNothing` | CleanupAllIsClean | |
| | `OnlyRacesFault` | []FaultsAreRaces | |
| | `QuietIsServed` | []ArmedHasPoller | `QuietProgram` |
| | `ServiceImplemented` | ServiceSpec | `QuietProgram`, finitely many poll threads |
| `PyGpioProofs` | `TypeCorrect` | []TypeOK | |
| | `ClockRunsAtAccess`, `ClocksAreRestored` | []ClockRuns, []ClocksRestored | `Apart` |
| | `PinsKeepWhatWasAsked` | []PinsAsAsked | `Apart` |
| | `OnlyTheirOwnPin` | OnlyOwnPin | |
| | `NeverGlitches` | NoGlitch | `Apart` |
| `PwmProofs` | `TypeCorrect` | []TypeOK | |
| | `RunningHasThread` | []RunningIsDriven | |
| | `OnlyRacesFault` | []FaultsAreRaces | |
| | `OneDriverUntilThen` | []OneDriverUntilRace | |
| | `StartedHasThread` | []StartedIsDriven | finitely many channels, and a thread slot for each |
| | `HwTypesInvariant` | []HwTypeOK | |
| | `HighTimeInvariant` | []HighTimeKept | |
| | `ToneInvariant` | []ToneHeard | `Alone` |
| `PyEventsProofs` | `EventsStay` | []EventsInv | |
| | `WalkIsSafe` | []NoFault, which is about quiet programs | |
| | `CalledAreWanted` | []OnlyWanted | |
| | `WalkCallsEach` | []EachIsCalled | |
| `WiringThreadsProofs` | `HandOverInvariant`, `DriversInvariant`, `TypeCorrect` | the invariants, []TypeOK | |
| | `ThreadsServeTheirPin` | []OwnPin | |
| | `PinsHaveOneDriver` | []OneDriver, of pins without a range of 0 | |
| | `NoSleepIsNegative` | []NoHourSleep | |
| `WiringNodesProofs` | `TypeCorrect` | []TypeOK | |
| | `PinsHaveOneNode` | []NodesApart | |
| | `LatchFollowsProgram` | []LatchIsAsked | `Apart`, reads do not fail |
| | `CallsChangeTheirPin` | OthersKept | `Apart`, reads do not fail |
| `MraaGpioProofs` | `TypeCorrect` | []TypeOK | |
| | `ContextsKeepTheirFiles` | []KeepsItsFile | |
| | `ExportsHaveOwners` | []ExportsAreOwned | |
| | `ArrayIsNotFreedEarly` | []NoFault | `Careful` |
| `PowerConsoleProofs` | `Invariant`, `TypeCorrect` | []ConsoleInv, []TypeOK | |
| | `ConfigAgreesThm`, `NeverRefusedThm`, `OnlyOndemandIsLimitedThm` | the properties of those names | |
| | `TagOfMenuThm`, `DirtyIsExactThm`, `ShownIsTrueThm` | the properties of those names | |

### EventGpio

RegistryMatchesKernel and NoOrphanCallback are not inductive: a removal closes the
descriptor and frees the callbacks one step before it unlinks the record, so in
between the record owns no descriptor and must gain no callback. `HalfRemovedIsDisarmed` says
what that state looks like, `OperationOnRegistered` that the operation in progress
works on a listed channel (so that the second step unlinks something), and
`RecordsFilled` that a listed channel has an edge until its removal (so that
add_edge_detect never adds a second record for it). The proof has a lemma for
each action and, for the list operations, lemmas on `RemoveAt`, `ToSet` and
`IsInjective`; `LowestFd` and `LastCell` are minimum and maximum of sets of numbers,
whose existence follows from the well-foundedness of the natural numbers.

That cleanup() leaves nothing needs `CleanupInOrder`: the record the loop is at is the
head of the list, and `temp` the one after it. (In a cleanup of one channel it is not, which
is the finding of section 4.)

`QuietProgram` is a program with `Quiet` that calls no cleanup(channel) and whose arming
does not fail after epoll_create: those are the two operations whose loop or removal
begins while threads run. `ArmedHasPoller` alone is far from inductive. `QuietInv` has
*WatchedIsOpen*, that an instance watches only open descriptors and a closed one none,
so that what a thread is told of is registered; *ServesOrSleeps*, that a thread which is not on a
closed instance is on the one `epfdThread` names and that none is about to end;
*SomeServes*, that thread_running is true only while some thread serves, and
that an armed channel has a thread serving or starting; and *Unhurried*, that the
threads are settled while a removal is in progress.

`OnlyRacesFault` is about every program. It is a diagnosis: it does not say that no fault
occurs, but that none does before `Race`, a removal that overlaps the handling of an event, or a
cleanup of one channel that has strayed from it. `raced` remembers that, as no guard reads it. The invariant
`Unraced` says of a behaviour that has not raced: there is no fault, a thread that looks a descriptor up
finds it open, and the record a thread handles is not freed (`PointersGood`); and a cleanup of
one channel stands on that channel or at the end of the list, its `temp` not freed (`OnTarget`).

That such a program has an `EdgeService` needs `ServiceInv` besides. The edges of
the service are counted: the threads that hold a report of the channel, and one more if the kernel
has one ready, less the first report if it has not been ignored yet. Two parts keep the count from
going below zero or standing still where the service moves: *FirstInFlight*, an armed
channel whose first report was not ignored yet still has a report in flight, and *UnarmedIsUnseen*, a
record made for wait_for_edge alone is unknown to the poll threads, so that arming it
later starts from nothing. *HeldIsArmed* says that a thread holds and a flag names armed channels only,
and *InstancesApart* that wait_for_edge takes no report away from the poll threads. Each
action is then one step of the service or none: add_edge_detect arms, the first half of a removal
disarms, an edge counts if none was ready, and a thread that lets a report go either ignores the first
one, which changes nothing, or drops a bounce, or delivers.

### PyGpio

A call is up to nine accesses, and between two of them a software PWM may make any of its own. What
keeps them apart is not a lock but where they are: `AloneInv` says that while a PWM is
busy no call of the functions, in progress or still to come for the channels of the list, is on
its bank, that no other busy PWM is, and that the PWM thread makes one write at a time, of its
own pin, of which no level is asked. The assumption on programs is made when a function begins;
the invariant carries it through the rest of the list.

Banks that have nothing else in common share the word of their clocks. `CallsInv` follows a call
through its accesses: what it remembers of the clock is what it was before the
program (`ClockOf`), the clock is on from the write that starts it to the one that stops it, and the
latter puts back what was remembered. It relies on the write-enable bits alone: the word written
may be stale in every other bit. The data words have no such bits, and there `DoneOf` says
that the word a call has read is still the register (for no other thread is in the bank), and what
the call has done to its pin when its last access is over.

`PinsAsAsked` speaks of the moments between two channels. `AskedInv` is what holds in the middle of
one: a field of a pin is what was asked, or a call that makes it so is still ahead (`PullKept`,
`LevelKept`, `ModeKept`), and gpio_direction[] is assigned when the pin conforms to it.
`Shape` is the order of the calls that setup_one and cleanup_one make: at most one write of the
level, none once the mode is set, and the direction last. It is proved of `SetupOne` for
every request, by what concatenation does to the places in a sequence. `NoGlitch` follows from it: a pin
begins to be driven in the mode call, behind which no write is left.

`OnlyTheirOwnPin` holds of every program, with or without `Apart`. Clocks, modes and pulls have write-enable bits, so a
write changes its own pin whatever was read before. A data word has none: a write puts back
what was read of the other pins. `FreshInv` says that until two threads have held the same data word at
once (`raced`), what each thread holds is what the register has: a thread makes the word of
another stale only by writing it while the other holds it, and then both held it before. That
a lost update happens once they have is what the exception of `OnlyOwnPin` is for (section 4).

### SoftPwm

`RunningIsDriven` holds of every program because the mark and the thread come in one step
under the interpreter lock and only the thread itself leaves its loop; the proof needs no more than
that it also holds during calls (`Driven`).

`FaultsAreRaces` and `OneDriverUntilRace` are about a linked list that a method and an ending thread walk.
They say of every program what goes wrong only after a method and the end of a thread have overlapped (`raced`), and
the invariant, `Unraced`, is that until then `QuietInv` holds.
`QuietInv` says that the list is a sequence of all the allocated cells, no two of one
channel (`Chain`); that find_pwm stands on one of them and saw no match before it (`Walked`),
which is why the record it appends is the only one of its channel; and that remove_pwm stands
between two neighbours and has passed no record of its channel (`Scanned`), so that what it unlinks
and what it reads next are both there.
`CallInv` says that no thread is ending during a call, `OneEnding` that at most one is at any
time, and `UserInv` that each thread has an allocated record of its own, of
another channel than the one being removed. An append is proved with the sequence
one longer, a removal with the one that leaves that place out.

`StartedIsDriven` relates the object of a channel to its record, and its invariant
`ObjectInv` says what is true of a channel that no method is about (`Kept`) and what the method
in progress still owes its own (`Pending`). The hard case is a stop: the object goes back to
the default frequency at once, and its record, which may have another, lives on until its thread
frees it. Such a record is `Doomed`; until it is gone the channel is `Waiting`, with every record
doomed or at the default, and afterwards `Ready`, for a program that has not raced calls nothing before. That a
doomed record really goes needs the scan to pass none of its channel, and that a start gets a
thread needs `ThreadPerChannel`: the other threads drive other channels, so with a slot for each
channel one is left (the pigeonhole theorem). Without it `StartFails` leaves an object started that
nothing drives, as pwm_start reports nothing.

### HwPwm

Both properties speak of a channel when no access is left to make, and each access in between breaks
them: while the period is already written and the low time is not, the high time is neither the old nor the new one.
The invariants say what a word *will* hold once the accesses in `writes` are made.
`EndsAs(cur, ws, w, q, v)`: the last of the accesses `ws` to the word *w* of pin *q* writes *v*, or there is none and
the word holds it already. `HighInv` says that the high time of what the words will hold is the one asked for,
`ToneInv` that what they will hold sounds at the frequency of the tone. Neither changes with an
access, and with none left each is the property. The rest is what each function of wiringTB.c makes
of them: it lays out its accesses when none is left, one lemma for each says in what words they
end, and for a tone that division leaves less than the frequency (`ToneSounds`). A change
of the period keeps the high time because what it writes again is what the words say at its beginning, save -1.

A pwmSetRange or pinMode that has begun still has channels ahead while `tone` is already 0 for those it reaches.
`RestInv` says so: of a call that sets range or clock, no function writes a tone and each remaining channel is
no PWM or has none. `Alone` is needed there, and only there: without it pinMode(PWM_OUTPUT) of one pin
retunes another whose tone nothing has replaced. `HighTimeInvariant` holds of every program.

### PyEvents

The walk of run_py_callbacks takes many steps, and between them, and from the functions it calls, the
list may grow at its end and lose records of other channels. `EventsInv` says where the thread is in
terms of what such changes leave alone. The list is a sequence of distinct records, each of them for a
function that is wanted (`ListOK`, `RecordsInv`); the thread stands on one of them, and a record
under it goes only in a program that is not quiet (`StandInv`, `FreedInv`). `HeardInv` is what
`EachIsCalled` needs: there is a sequence `ks` of all the records of the thread's channel, in the order of the list
(`Order`), the functions due are those of the first of them, the functions called those of the ones the
thread has passed, and the one it calls is the last of those (`Passed`). An addition makes `ks` longer by one,
which the thread has not passed; a removal of another channel changes the positions
in the list but not their order; and at the end of the list all of `ks` is passed.

`InOrder` chooses the sequence of some records in the order of the list. That there is one, and
that it has each record once, would be an induction over the list; it is proved with the rank of a record
instead, the number of those that are not behind it: distinct records have distinct
ranks, which are numbers up to the size of the set, so that by the pigeonhole theorem each
such number is the rank of a record.

### WiringThreads

A pin goes to a new thread through a global, and what protects that is only an order of
steps: the creator waits until the thread has reset the variable. `HandOver` says that while
the variable is set its creator is at that wait, that at most one thread of a kind
is still to reset it, and that a thread that has not copied it finds its own pin there; for
interrupts, where two threads may create, it adds that a creator holds the mutex from its
lock to its unlock. `OneDriver` needs `Drivers` besides: a table names every thread that there
is for its pin, a range of 0 that there is none, and of the function in progress
the creation comes last, after a stop of whatever could still drive the pin. A pin whose PWM was created with a range of 0
(`rangeless`) is excepted: there the table names one thread of perhaps several.
`NoSleepIsNegative` bounds the sleeps: where no creation had a value outside the range (the pin is not in
`unfit`), the mark of a PWM that runs is never below 0 nor above its range (`Sleeps`), which is
why its thread is not asked to sleep for a negative time.

### WiringNodes

A latch is in three places: what the call works out, what the chip has, what the node
remembers. `LatchInv` says of each bank that, while no call writes it, memory and chip are what the
program asked (`Settled`; the chip only after a write to the bank succeeded), and that
else one call does and how far it has come (`Midway`); `CallsInv` that a chip has
one node, and that a call in progress is on a pin of a node. `NodesApart` is proved and is not
part of a run: it is what makes `Node(pin)` a function of the pin.

`OthersKept` is about one step, the write, but what is written was read by an earlier step of the
same call. `KeptInv` bridges them: a call that has read a register still finds there, in the bits
of the other pins, what it read (`RestKept`), because no second call is on that register
meanwhile (`OneCaller`: threads write different registers, and the latch of a bank belongs to
one node). For a bank of latches the memory stands for the chip, by `LatchInv`.

### MraaGpio

`KeepsItsFile` is about descriptors as numbers, which the kernel hands out again: `FilesInv`
says that a context's descriptor is open on its pin's value and a handler's on another kind of
file, so that closing one never closes the other. `ExportsAreOwned` needs that an owner's pin is
exported, so that nobody becomes its owner a second time, and that a closed context owns
nothing. `NoFault` needs `Where` and `ArrayOf`: at each place of isr, isr_exit and close of a
careful program, whether the events array is there, and that it is while a handler runs. That covers the
closes after an isr that failed and the threads that pthread_create did not make. It does not say
that nothing else goes wrong on the character device: there only the use of the freed
array is excluded, and the two other faults happen (section 4).
All but the last hold of any program.

### PowerConsole

The space key runs a list of shell commands, one step each, and Ctrl+C or a loss of power may come between
any two. So the properties are about the commands still to run as much as about the state.
`ConsoleInv` has a part for each thing a save keeps in step. `PageInv` says that the pending
commands are those of the one open page: a limit page writes its own limit only, a governor page
only ends of the table before it writes the governor. `LimitsInv` and `GovernorsInv` give, for each
pending command, what it relies on: a write of the settings has found the kernel at its value or comes
after the command that brings it there, and where kernel and settings differ such a write is
pending. `NeverRefused` follows from the other side: a limit that is no end of the table is the first
command of its save and was chosen to fit, and an end of the table is always accepted while limits are
within the table. `NarrowInv` says that another governor than ondemand is pending only behind
the resets of all the limits that are narrow, in the kernel and in the settings. `SeenInv` says that
a cached limit differs from the kernel's only while the save that wrote it has yet to draw
it again. `ShownInv` says what the screen says of each side, and what it will say when the save of a
governor ends: the menu kept for a manual side fits the governor being written. `TablesInv`
keeps limits within their table and in order; it is what makes the boot script's writes
succeed unless a save was torn. The parts that a torn save breaks are stated for
behaviours without one, the others for all.

### Only model-checked

Liveness (`EdgeIsFlagged`, `WaitReturns`, `StopEndsLow`, `StopReturns`, `EdgeServed`,
`ExitReturns`, `EventsAreServed`) is out of this prover's reach, as is ENABLED, on which
fairness rests. Every invariant, every action property and the refinement that a passing run checks are
stated by a theorem, under the hypotheses in the table above; no definition is recursive or folds over a
list, so that no proof needs induction over data.

## 6. Plan

1. Done: EventGpio, EdgeService, SoftPwm, PowerConsole, GpioRegisters, PyGpio, PyEvents,
   HwPwm, WiringThreads, WiringNodes, MraaGpio, and the proofs of section 5.
2. Later: the device scripts (first boot interrupted, the power key's timer).

## 7. Not modelled

Of wiringPi: softServo.c, whose thread nothing ends, piThread.c, serial ports, timing, the tables
of pin numbers and the functions for the Raspberry Pi that the build leaves out; the
converters among its chips (max31855, mcp3004 and so on), whose reads and writes keep no
state. Of mraa: contexts of several pins, boards (tables, and functions they replace),
I2C, SPI, UART, PWM and analogue contexts, each a descriptor with calls in straight lines, and the
language bindings. devLib draws on displays; the gpio tool is a call of wiringPi for each
command. py_gpio_RPi.c is an older variant of py_gpio.c for the RPi package.
tinker-config and the build scripts are menus and straight-line shell. Pin numbering
tables (wiringTB.c, common.c) are data. Of wiringTB.c the clock output (asus_set_clk)
is left out. Three hazards have no property: that cleanup() keeps the Python callbacks, which nothing promises it does not; `lastcall`, shared by poll thread and wait_for_edge,
because bounce is a choice of the clock in the model; and the index past the end of
`event_occurred`, because what lies behind it is the build's choice.
