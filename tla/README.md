# A TLA+ development of SWM34S-LVGL

The repository is the firmware of a touch display: RT-Thread and LVGL 8.3 on a
Synwit SWM341, with a small page manager and an application of two pages. This
directory models the parts that are the program's own logic, checks them with
TLC and proves the central results with TLAPS.

## The system

One thread, "LVGL" (`lv_rt_thread_port.c`), initialises LVGL and the ports,
starts the application and then calls `lv_task_handler` for ever. Timers,
animations, input and requests all run there. The shell thread (`tshell`)
executes typed commands. Both have priority 20, so the tick may switch between
them at any point. Interrupts serve the UART and the pins.

| Part | State | Operations | Correct means |
|---|---|---|---|
| page manager `middleware/lvgl_pm/pm.c` | router, history and its length, options of each page | create, open (NEW, SELF, RESET, NULL), back, completion callbacks | indices in range, created pages only, the history is a stack, a page that was left is unloaded |
| transitions `anima.c` | the running animations of each page, its place | slide, popup, none; ready callback | no completion hides the current page or is lost for good |
| application `lvgl_app.c`, `page1.c`, `page2.c` | pending requests | `pm_open`, `pm_back`, the request callback, two buttons | exactly the current page is shown, the page asked for is opened, every request is handled |
| `lv_async_call` and the timer loop | timers, their list, their infos | create, link, execute, unlink, free | only what a request was given is called |
| touch panel `gt9147.c`, `lv_port_indev.c` | track ids, event slots, pressed, last event | read a frame, clear the status, release by timeout | the pointer is at a finger, and is released in the end |
| display `lv_port_disp.c`, `drv_rgb_lcd.c` | two draw buffers, the frame buffer, its address and reload bit | draw, flush (copy or swap), scan | a scan shows one picture |
| software I2C `drv_soft_i2c.c`, `dev_i2c_bit_ops.c` | the two lines, the place in the transfer | start, address with retries, bytes, acknowledges, stop | success means delivery, an error has a cause, the bus is given back, the call returns |
| console `drv_uart.c`, `dev_serial.c`, `shell.c` | receive ring, semaphore | interrupt, open, read, wait | there is a ring when the interrupt comes, bytes in order, overflow drops the oldest, no byte waits for a sleeping shell |
| pin interrupts `drv_gpio.c` | handler table, table of the routine | attach, detach, enable, disable, dispatch | a request of a pin with a handler has it called |

They interact by calls (a touch makes LVGL send a click, whose handler opens a
page), by the timer list (a typed command becomes a request), by callbacks (a
finished animation unloads a page, a received byte wakes the shell) and, in the
touch driver, by a buffer that the caller keeps and the driver only partly
writes. The hard behaviour is the overlap of transitions with new requests and
clicks, the shell thread against the timer loop and against the UART interrupt,
lost frames of the touch panel, slaves that refuse and stretch, and hardware
that reads a buffer while it is written. `PROJECT.json` lists the
hazards at their lines.

## The modules

| Module | Models | Built on |
|---|---|---|
| `NavStack` | what the page manager promises about navigation: a bounded stack, never emptied | |
| `PageManager` | `pm.c` and `anima.c` under any client | `NavStack` by refinement |
| `PmGuard` | a client that opens pages after the checks of `_pm_async_cb` | `PageManager` |
| `PmApp` | the application: typed requests, their timers, the buttons | `PmGuard` |
| `AsyncCall` | `lv_async_call` and `lv_timer_handler` on the timer list, pointer by pointer, two threads | |
| `Touch` | chip, `gt9147_read_point`, `touchpad_read` | |
| `DropQueue` | what the console promises its reader: a queue that drops its oldest byte | |
| `SerialRx` | UART interrupt, receive ring, semaphore and shell thread | `DropQueue` by refinement |
| `SoftI2C` | `i2c_bit_xfer` on two open-drain lines against any slave | |
| `PinIrq` | edge interrupts of the pins and `swm_pin_isr` | |
| `Display` | refresh, `disp_flush` in both builds, scan of the controller | |
| `PageManagerProofs` | the theorems on any client of the page manager | `PageManager` |
| `PmAppProofs` | the theorems on the guarded client and on the application | `PmApp`, `PageManagerProofs` |
| `AsyncCallProofs`, `TouchProofs`, `SerialRxProofs`, `SoftI2CProofs`, `PinIrqProofs`, `DisplayProofs` | the theorems | the module of the name |

**PageManager.** `router`, `history` and `history_len` are the variables of
`pm.c`; `options` keeps the animation of each page's `_options`. `view` is what
LVGL and the callbacks know of a page: the HIDDEN flag, whether its widgets
exist (`onLoad`, `unLoad`), the animation running on each axis and whether the
page was last put beside the screen. A call of `lv_pm_open_page` or `lv_pm_back`
is one action: both run to the end in the LVGL thread. What a call does to a
page is a function on its view: `Animate` for `_pm_anima_appear` and
`_pm_anima_disAppear` (with the path without an animation, the one without
memory and the unimplemented style), `StartAnim` for `lv_anim_start` (which
deletes the animation on the same page and axis and never calls its callback),
`Complete` for the four completion callbacks. `anima_ready_cb` ends one
animation, any one: animations finish in any order, which covers every timing
of the 500 ms. A call with a NULL behavior is the call with the stored
animation and a push, and target RESET is a push too: `pm.h:32` says of it "close
all page and open in new page", but no branch of `lv_pm_open_page` does that, and
nothing in the application uses it. Calls that return 4 or 5 change nothing and are not steps.
Each page is created once.
`Idle` counts the animations of pages, `lv_anim_count_running` those of every
object; another animation would only make `_pm_async_cb` refuse a request, which
changes nothing, and the application has none. `Mutant of` marks definitions that stand for a wrong
version of the code; a run that uses one in place of the definition after it
must find its property violated.

**PmApp.** A request is one element of `pending`, newest first, because
`lv_timer_create` inserts at the head and `lv_timer_handler` starts again there
after a timer was deleted: the theorem `LockedNewestFirst` of `AsyncCallProofs`
shows this of the list itself. `PmApp` takes each call of `lv_async_call` as a whole,
as it would be under the mutex that theorem assumes; what can happen without it is
the subject of `AsyncCall`. `lv_app_start` opens page 0 with the options of every
other open. The typed number is kept beside the byte it is cut
to, and `previous` remembers the page shown before; neither influences a step.

**AsyncCall.** Each action is one access to what the threads share. The timer list
is doubly linked, as in `lv_ll.c`: `_lv_ll_ins_head` points the new node at the old
head, the old head back at it, and then moves the head; `_lv_ll_remove` writes the
head and a `prev`, or a `next` and a `prev`. A switch between these can lose a node or
leave a freed timer linked. The fields of a timer are written one by one.
Memory is "blank" until written; what blank or freed memory makes the processor
call is recorded, not followed, and a blank timer may or may not be due. Node 0
stands for LVGL's own timers at the end of the list. Every call has memory of its
own: the allocator giving a freed timer to a later call, and what it makes of a
damaged heap, are left out. `Locked` says that one of the threads is outside its
calls, which is what the mutex of `docs/porting/os.md:12` would give; `LockedSpec` is
the specification with it.

**Touch.** The chip changes its frame at any time. A poll has two steps: reading
the frame (or failing), and clearing the status byte, which may fail too and
which loses what the chip offered in between. Two status checks and two
transfers that fail have the same effect and are one action, `ReadNothing`.
Status and points are read together. The LVGL thread
is the only reader. It is in the shipped image until someone types the sample
command `gt9147_sample` (`main.c:980`), which opens the device for interrupts and
reads it from a second thread; the two then share the static ids of the driver
without a lock, which is listed as a hazard and not modelled. Track ids are below `MaxTouch`; the driver
does not check that. Coordinates are reduced to the slot they came from. `age`
counts polls; a poll is 10 ms, so `Timeout` stands for 8 polls. `orderly` is a
history variable: it stays true as long as every change of the panel happened
after the driver had seen the one before, and new fingers got the lowest id.

**SerialRx.** The model begins where `rt_hw_board_init` has opened the console for
output (`board.c:58`): `serial_rx` is NULL, and `UART_Init` has already enabled the
receive interrupt. The shell thread makes the ring when it opens the console, and
until then an interrupt ends in `RT_ASSERT` of `rt_hw_serial_isr`, whose handler
never returns (`isr = "assert"`). A step of the interrupt moves one byte from the FIFO to the ring
(`StoreByte` is the locked part of `rt_hw_serial_isr`) or, with the FIFO empty,
tells the shell (`IsrIndicate`: one release of the semaphore for any number of
bytes, lost when the semaphore is at its largest value). The thread takes one
step between two points where the interrupt may run over it: the read of one
byte, the wait for the semaphore, and the two halves of `finsh_set_device`, of
which the first makes the ring and only the second sets the callback.
The number of a byte is its value, so that order, loss and duplication show.

**SoftI2C.** `at` is the routine the master is in (`start` to `stop`, and `retry`, the
stop before an address is sent again), `clock` the clock of a byte it is at, and
`todo` the operations on the lines left of that clock. `Op` carries out one of
them; `i2c_start`, `i2c_writeb`, ... say which ones a clock has, and the actions
`SendAddress` to `Replied` are what `i2c_bit_xfer` and the functions it calls do
with the result of a routine. The slave is any device
that follows the protocol: it acts on the edges it sees, refuses bytes, holds
the clock low after any falling edge for any time. The history variable `heard`
is false when the slave missed a START. The code makes this possible: `SCL_H` may
time out inside `i2c_restart` and `i2c_stop`, where its result is ignored
(`dev_i2c_bit_ops.c:93`, `:104`), and the master then moves SDA under a clock that
is still low. Such a transfer can be reported as done although the slave took
the address byte for data; `SuccessIsDelivery` is stated for the others.
Nothing in the firmware sets `retries`, so it is 0 there; the run uses 1, which
contains the case of a first try that succeeds and adds the repetition.

**PinIrq.** `tab` is `pin_irq_hdr_tab` without the arguments, `table` the port whose
pins the static array of `swm_pin_isr` holds. The routine takes one step per
turn of its loop, in which more edges may come. Enabling has two steps,
`EXTI_Init` and, with interrupts off, `EXTI_Open`. That the loop which fills the
array finds its end by reading one entry past `pin_obj` (`drv_gpio.c:544`) is
undefined; the model takes it to end there. Nothing in the repository has pins of
two ports: the two sample commands that use pin interrupts, `pin_sample` (D15) and
`gt9147_sample` (D0), are both on port D, and `OnePortServed` is about them.

**Display.** `mem` is the number of the picture each row of each buffer belongs to.
LVGL draws and copies row by row; the controller scans row by row. `SwapBuilt`
selects the branch of `disp_flush`. No file of the repository defines `SWM341`,
and the link map of the image (`build/keil/List/rt-thread.map:9265`) lists
`memcpy` for `disp_flush` and no `rgb_lcd_set_framebuffer`, so `FALSE` is shipped.

## The runs

| Run | Shows | Bounds |
|---|---|---|
| `pm_any_client` | types, created entries, the release policy, the navigation stack, and that a page left is unloaded in the end | 3 places, 2 pages, both animations |
| `pm_guarded` | after the checks, the current page is visible, loaded and not leaving, also when memory runs out half way; "busy" ends | 3 pages, three styles, failing malloc, no back |
| `app_shipped` | with the shipped options exactly the current page is visible and loaded; the history has length 1; requests are handled; the typed page opens | 3 requests, ids 0-3 and 257 |
| `app_sliding` | unchecked clicks in the middle of slides: the current page is visible, ends on the screen, and others are seen only while they leave | 4 requests, targets NEW and RESET |
| `touch` | pointer and fingers agree while the driver keeps up; the pointer is released whatever is lost | 3 track ids, timeout of 2 polls |
| `back_command` | violated: `lvgl_app.c:105` says back shows the previous page; with target NEW there never is one | 2 requests |
| `async_call_race` | violated: a timer or info is used before it is written or after it is freed | 2 calls |
| `serial_rx` | the ring is the queue; its flag is right; no wake-up is lost; bytes do not stay in it | ring of 4, FIFO of 2, semaphore up to 2, 9 bytes |
| `console_startup` | violated: a byte before the shell has opened the console fails the assertion at `dev_serial.c:1427`, and the system stops | the same |
| `soft_i2c` | success means delivery, errors have a cause, the bus is given back, every call returns | bytes of 2 bits, 1 retry, messages of 2 bytes |
| `pin_irq` | violated: a port other than the one that interrupted first has no handler called | 2 ports, 1 pin |
| `display` | violated: with the copy that is built a scan shows rows of two pictures | 2 rows, 2 pictures |

Why the bounds are enough. Three places make room for a replaced top, a page
below it and a full history; a third page adds only symmetric choices to the
navigation, and `pm_guarded`, whose property is about pages shown in turn, has
it. All animations live on two axes, so two styles meet every case of
replacement. Three requests put two behind one that is being handled. In `Touch`
three ids give a slot before and one after the slot in question; a timeout of two
polls can both be beaten and be missed by a frame. `MaxRequests` and `MaxCalls`
bound only how often the shell is used. Nine bytes run twice round a ring of
four, and a semaphore that stops at 2 is full while there are still bytes to
tell of. Two bits are the shortest byte that has a first and a last bit, and the
bytes that differ only in one of them are among the payloads. The two violated
runs of hardware parts need only one pin a port and two rows; their theorems
hold for all sizes. Deadlock is checked in `pm_any_client`, `app_shipped`,
`touch` and `soft_i2c`. `pm_guarded`, `app_sliding` and `serial_rx` may stop:
without back a full history refuses every open, the requests are used up, and
the shell waits for a byte that is not sent, or the assertion has failed.

`CurrentShown` holds only without back: `lv_pm_back` shows the page below
without calling its `onLoad`, after leaving it had called `unLoad`, so the page
comes back without widgets. `CurrentOnScreen` needs a client that always
slides or never does. `OpensTypedPage` is stated for ids up to 255; 257 opens
page 1. `RequestsHandled` is about a bounded number of requests: newest first, a
shell that never pauses could keep the oldest one waiting.
`ShownIsTouched` is about orderly changes of the panel: a finger exchanged for
another between two polls, and one behind an unused slot, mislead the driver.
`SuccessIsDelivery` leaves out transfers whose START the slave missed, and
`BusGivenBack` those with a timeout. `LeftPagesHidden` excludes popups, under which the page below stays
visible, unloaded.

**Fairness.** `lv_task_handler` is called for ever (`lv_rt_thread_port.c:60`),
its `anim_timer` advances every animation in its list by the time elapsed, so
an animation that is not replaced becomes ready: weak fairness of
`anima_ready_cb` for each page and axis. The timers of requests have period 0:
weak fairness of `_pm_async_cb`. In `Touch` polls happen for ever (weak
fairness), and the write that clears the status does not fail every time
(strong fairness); reads may fail for ever. In `SerialRx` a pending interrupt is
served and the shell is scheduled when it can run: weak fairness of each; the
sender owes nothing. In `SoftI2C` only the master is fair, because it is a thread
that polls with a timeout; the slave may hold the clock for ever.

## The proofs

For every `PageNum`, every set of pages and styles, with or without memory:

- `TypeCorrect`: `Spec => []TypeOK`. `TypeOK` is inductive. The step is split
  into lemmas on what `Complete`, `StartAnim`, `Animate`, `LeaveTop`, `Enter`
  and `OpenHistory` return.
- `HistoryValid`: `Spec => []HistoryCreated`; the router only grows and an open
  writes a created page. (This step and the next two are the lemmas
  `HistoryStep`, `ReleaseStep` and `HiddenStep`, which the application uses too.)
- `ReleaseCorrect`: `Spec => []ReleasePolicy`. The heart is `LeaveReleases`: a
  page asked to leave is unloaded at once or has an animation that will do it,
  also if that replaces one that was running.
- `LeftHidden`: `Spec => []LeftPagesHidden`, by the same argument on the flag.
  It is not inductive alone: a popup that had been stored as a page's option, or
  was still running, could leave the page visible. `NoPopup` is the strengthening:
  a client without popups stores none, and nothing moves on the y axis.
- `Navigation`: `Spec => NavSpec`. Every open is a push or a replacement of the
  stack, a back is a pop, anything else a stutter; it needs `TypeOK` so that
  the array is indexed where it is defined.
- `GuardedCurrent`: `GuardSpec => []CurrentShown` for the client that opens with
  the checks. Every guarded step is a step of `Spec`, so `TypeOK` comes for free,
  and with it `CurrentShown` is inductive: the guard `Idle` means that the page
  entered has no animation left that could hide it, the guard `~IsCurrent` that
  the page that leaves is another one, and a ready callback of a page that is
  not leaving only stops it.

- `AppIsClient`: `AppSpec => [][Next]_vars`, the application is a client of the page
  manager, for every option and target. A request or a click must be a
  call `Open` or `Back` allows: the page is one of the two created (`TwoPages`:
  `router` stays `{0, 1}`), the style and the target are of the options. As
  `lv_app_start` leaves a state other than `Init`, the theorems about `Spec` do not
  apply as they stand; their induction steps do, and give `AppHistoryValid`,
  `AppReleases` and `AppHidden` (`[]HistoryCreated`, `[]ReleasePolicy`, `[]LeftPagesHidden`).
- `OpensTyped`: `AppSpec => OpensTypedPage`. The invariant is `Faithful`: every open
  that waits, at any place of the queue, carries the low byte of the number that
  was typed for it. `OnlyHandled` says that only `_pm_async_cb` makes the queue
  shorter; a refused request changes no page and a back is not an open, so what
  changes the current page is `lv_pm_open_page` of the id at the head,
  after which that page alone is current.
- `AppTypeCorrect`, `HistoryShort`, `CurrentOnly`: the application. Each step of it is
  an open, a back or a callback of the page manager (`AppCases`), so its types
  follow from the lemmas above; with target NEW only the length stays 1, and
  without animations `Plain` (nothing moves, exactly one page is shown) is
  inductive because every transition is over when the call returns. Both are
  proved for the options the application ships, `Targets = {"new"}`.
- `SlidingVisible`, `SlidingOnScreen`: the application with slides, for every
  target, with memory for every animation. The invariant `Sliding` says that
  nothing moves on the y axis and that the current page is on the screen or
  arriving. It needs one fact more to be inductive: every page above the first
  of the history has the slide stored as its option, so a back, which takes
  the option of the page on top, also slides. The first entry need not:
  no back leaves it.

About the other parts:

- `AsyncCall`: `LockedCalls` (`LockedSpec => []CallsWhatItWasGiven`) states that the
  missing mutex is all that is wrong: with it the property of the finding
  holds, for any number of calls. `LockedNewestFirst` adds that no call is
  carried out twice and that the newest of those waiting comes first, which is
  the queue `PmApp` has. Both follow from `LockedInvariant`. Its parts are `Places`
  and `Types`, where the threads are and what the variables hold; `Life`, how far each
  call has come; `Walk`, that the walk of the LVGL thread never gets past the
  first call of the list; and `ListIsStack`, that the pointers from the head
  run through exactly the calls linked and not unlinked, newest first, down to
  LVGL's own timers. The lemmas `Push` and `Pop` are the two ends of it. Without the
  lock nothing is claimed: a call whose own window is over can still be lost or
  run twice when the next one damages the list.
- `Touch`: `TypeCorrect`, `PointerFollows` (`[]ShownIsTouched`) and
  `EveryFrameDecides` (the action property `FrameDecides`), for every number of
  track ids. The strengthening is on what a driver that keeps up knows:
  at most one finger changed since the last frame, every finger of that frame
  has its slot at DOWN or MOVE and no other id has, and the pointer is at one of them.
- `SerialRx`: `TypeCorrect`, `FullCorrect`, `WakeUpCorrect`, `RingIsQueue`, for every
  size of the ring, the FIFO and the semaphore. The four properties are proved
  together: with `Started` (until there is a ring no byte is stored, because the
  interrupt that takes one stops at its assertion and the thread with it, and
  a thread past `finsh_set_device` has its callback set) their conjunction is
  inductive, from power-up and with the interrupt live: a sleeping shell has its wake-up because it found the ring empty
  before, and the empty ring is recognised because the flag is down there.
  `RingIsQueue` maps the ring to the
  sequence of its `rx_length` bytes from `get_index`; the lemmas `FromTail` and
  `FromAppend` are the wrap-around.
- `SoftI2C`: `TypeCorrect`, `Delivery` (`[]SuccessIsDelivery`), `GivenBack`
  (`[]BusGivenBack`) and `Cause` (`[]ErrorHasCause`), for every number of bits, of
  retries and of bytes. All four follow from `InductiveInvariant`, which has three
  parts. `SlaveShape`: how many bits and bytes a slave can have in each of its
  states. `MasterOK`: in each routine, what the master's variables and its own
  lines are and which operations of the clock are left. `InStep`: as long as the
  slave has seen every START (`heard`), it is at the same bit of the same byte as the
  master, before or after the edge according to `todo`, and has exactly the
  bits the master has sent of that byte. The last is why success means
  delivery: when the last acknowledge is taken the two counts are equal, and
  so are the bits. It needs the other two, because what an edge of the clock
  does depends on who holds which line. The step is proved clock by clock:
  lemmas for the rising and the falling edge of SCL and for the two edges of SDA
  under a high clock, which are all a slave can see, and one for each operation.
  TLC checked the three parts as invariants before, on one retry and two bytes
  of two bits.
- `PinIrq`: `FirstPortServed` and `OnePortServed` state what the finding leaves: the
  port whose pins are in the table is served in every run of the routine, and
  so is a firmware that uses one port, as `pin_sample` does. The invariant
  follows the loop: a pin that is due has been served or is still ahead.
- `Display`: `SwapTearFree`: with the branch the comments describe there is no
  tearing, for any height. Invariant: the buffer drawn into is neither on the panel
  nor asked for, and the rows scanned so far are those of the source.

The assumptions are those named in the modules (the pages are
indices, the history has at least one place, styles are those of `pm.h`, a ring has
at least two places), and those each theorem states.
Liveness (`LeftPageReleased`, `BusyClears`, `RequestsHandled`,
`ReleasedWhenLifted`, `EveryByteLeaves`, `TransferEnds`) is checked by TLC only: the
prover does not handle it. Every invariant and every action property that a passing
run checks is stated by a theorem. The findings stay with TLC, which shows the
counterexample; the positive half of three of them (`LockedCalls`, `OnePortServed`,
`SwapTearFree`) is proved. `CurrentVisible` is not claimed for a mixture of
animations under unchecked clicks, where it is false: a page that sinks as a
popup and is opened again with a slide keeps the animation that will hide it.

## Not modelled

- Pages: positions other than on or off the screen, and the LVGL quirk that an
  animation whose thread stalled for its whole length may not apply its end
  value; the memory that deleted animations leak; layout, styles and drawing.
- Requests: exhaustion of the LVGL heap, which widgets and styles share, and its
  reuse of freed timers; the order in which the kernel starts the shell and the
  LVGL thread.
- Touch: configuration, probing and interrupt mode of the chip, and with it the
  second reader that `gt9147_sample` starts.
- Console: transmission (polled, no state), the line editor, DMA and reopening.
- I2C: ten-bit addresses, the message flags nobody sets, bus recovery, more than
  two messages.
- Pins: level-triggered interrupts, and plain input and output.
- Display: initialisation; `disp_disable_update`, which nobody calls.
- `drv_sdio.c`, and the other SWM341 drivers this configuration does not build; the
  boot-time register set-up.
- `main.c`: the thread that blinks the LED and the sample commands, which try the
  memories, timers and drivers from the shell.
- The RT-Thread kernel, the LVGL core and the vendor's peripheral library are
  vendored; the modules state what they rely on of them, and model the statements
  of `lv_async.c`, `lv_timer.c`, `dev_serial.c` and `dev_i2c_bit_ops.c` that
  decide whether the application's parts work.

## Plan

`PageManager` came first because everything the user sees depends on it, then
its two clients, then the way requests and touches reach them, and then the
drivers below. What would come next:

1. A refinement of "a transfer happens or fails" by `SoftI2C`, which `Touch`
   uses.
2. Start-up order and heap exhaustion of the requests, with a module of the
   initialisation levels.
3. Two readers of the touch panel, as `gt9147_sample` makes them.
4. Level-triggered pins, and reopening the console while bytes arrive.
