# TLA+ models of riscv-isa-sim-lib-demo

The repository shows three ways of embedding the Spike RISC-V simulator in a
larger program: as a library with a mailbox and custom CSRs (`src/top`), as the
core of a SystemC model (`src/systemc`), and as a plain C++ demo (`src/cpp`).
This directory holds TLA+ models of the parts where several threads, processes
or simulated components meet, of the launcher, of the custom instructions and
their arithmetic, and of the programs that exercise them; the TLC configurations
that check the models; and proofs, checked by TLAPS, of what matters most.

Paths below are relative to the repository's root; `PROJECT.json` maps every
definition to the lines it models.

## 1. Inventory

### Components, their state and their operations

| Component | Where | State | Operations |
|---|---|---|---|
| Mailbox device | `src/top/extensions/mailbox.cc` | STATUS, COMMAND, DATA0..3, RESPONSE, plain integers | `load`, `store`, `send_command`, `send_command_complete`, `wait_for_ready` |
| SpikeWrapper | `src/top/extensions/spike_wrapper.cc` | `running_`, `sim_`, `spike_thread_`, `mutex_`, `cv_`, `command_mutex_` | `start`, `stop`, `wait`, `send_command`, destructor, the thread function `run_spike` |
| Mailbox firmware | `src/top/firmware/mailbox/main.c` | none besides locals | polls STATUS, reads the command, answers |
| Custom CSRs | `src/top/extensions/custom_csr.cc` | nine registers of 1, 11 or 64 bits | read, masked write |
| CSR server, client | `src/top/spike_csr_server.cc`, `spike_csr_client.cc` | a REP socket, the simulation thread | READ, WRITE, MAIL, BO_DONE, SE_UP, SE_QUERY, QUIT |
| CSR firmware | `src/top/firmware/csr/main.c` | none besides locals | tests the CSRs, then polls for mail |
| SystemC model | `src/systemc` (core, uncore, bus, memory) | transaction queues, events, devices | `mmio_load/store`, `nb_transport`, `do_read/write`, `ack_read/write` |
| Sparse array, ELF loader | `src/systemc/util`, identical under `src/cpp/util` | pages allocated on demand | `write`, `read`, `get_ptr`, `load_elf` |
| C++ demo | `src/cpp` | the sparse array, `start_pc` | construction with or without the bridge, `load`, `store` |
| Launcher | `src/top/spike_insn.cc` | the options so far, memories, hart ids | one step per option, merging of memory regions, kernel, initrd, harts |
| Custom arithmetic | `src/top/custom/riscv` | none | BF16 operations, exponential, softmax, MXFP8 quantisation |
| MxFP8 matrix unit | `src/top/custom/gemm` | two partial sums per column | `compute` |
| Instruction extensions | `src/top/extensions/xperi*.cc` | the vector registers, `vtype`, `vl`, `vstart` | vector ADD, MUL, EXP, SOFTMAX and QUANT, scalar ADD |
| Instruction firmware | `src/top/firmware/insn/main.c` | the test case it is at | 17 self-checking cases |
| Fuse firmware | `src/top/firmware/fuse` | none besides locals | the mailbox loop after the instruction tests |
| Mailbox test program | `src/top/spike_mailbox.cc` | counters of passed and run cases | selects cases, starts Spike, makes the calls, stops, exits |

### How they interact

* A host thread calls `SpikeWrapper::send_command`. Under `command_mutex_` it
  writes the device's registers and polls STATUS. The firmware, executed by the
  `run_spike` thread through `proc->step`, reaches the same registers through
  the bus (`mailbox_t::load/store`). No lock is common to the two sides; the
  registers are shared plain integers and the READY and BUSY bits are the only
  protocol.
* `start()` creates the simulator and launches `run_spike`; `stop()` clears
  `running_`, joins the thread and deletes the simulator; `wait()` sleeps on
  `cv_` until `running_` is false. `run_spike` clears `running_` itself when the
  program ends or cannot be loaded.
* ZMQ clients send one request each to a server that handles one at a time. The
  server writes the CSRs of a processor that another thread is stepping.
  MAIL_VALID tells the firmware that DATA0..3 hold a mail, and the server takes
  its return to 0 as the acknowledgement.
* In the SystemC model a core's access becomes a TLM transaction; the memory
  answers through two delayed events and the core waits for `done_event`.
* The launcher hands the instruction firmware to Spike; its vector instructions
  reach the arithmetic through `xperiv.cc`, and it compares the results with
  tables. What a `vsetvli` finds in `t0` is left over from the code before it.
* The mailbox test program is a caller of the wrapper: its verdicts depend on
  calls that time out, on a Spike thread that ends and on the loaded firmware.

### What is hard

Interleavings of unlocked loads and stores (mailbox, CSRs); a timeout whose
late answer meets the next call (mailbox, mail); deleting an object another
thread uses, and thread objects that nobody joined (wrapper); wakeups and
joins (wrapper, QUIT); a simulation that dies under its callers; pointers to
local transactions in the buffers of a memory with delays (SystemC); sums that
wrap at 2^64 (launcher); groups of vector registers that overlap; rounding,
saturation and shifts at the ends of their ranges (arithmetic). The list,
each with its line and the properties aimed at it, is under "hazards" in
`PROJECT.json`.

### What makes each component correct

* Mailbox: a caller gets the answer to its own command or a failure, never a
  stale or foreign one; the firmware never sees half of a command; every call
  returns; the mailbox is usable again after a timeout.
* Wrapper: no thread uses a simulator that has been deleted or replaced; no
  wakeup is lost; `stop()` returns; threads do not outlive the wrapper;
  `std::terminate` is not called.
* CSR server: a mail reported as sent was read; MAIL_VALID does not stay set;
  every request is answered; QUIT ends the server.
* SystemC model: every access of a core completes, in order, with the data of
  the last write; a buffer of pointers holds the waiting access and no other.
* Sparse array and loader: the loaded program is in memory as the file says, and
  the hart boots at its entry.
* Launcher: the memories cover what was asked for and are disjoint and aligned;
  kernel, initrd, hart ids and settings are the ones of the command line.
* Instructions: results come from the operands as they were before, other
  registers keep their values, a test that fails has a reason.
* Arithmetic: a function is monotone where its definition is, within the error
  of its format, and a partial sum stands for its dot product.
* Test program: it passes a case only when the command was executed, fails one
  only when a call was not answered, and ends.

## 2. The modules

| Module | Models | Kind |
|---|---|---|
| `MailboxFirmware` | command codes, what each handler answers | operators |
| `CommandService` | what the mailbox promises a caller | abstract specification |
| `Mailbox` | device, host threads, firmware loop, Spike thread | specification; implements `CommandService` |
| `MailboxProofs` | proofs about `Mailbox` and `MailboxTest` | theorems |
| `SpikeWrapper` | owner thread, `run_spike` threads, waiters | specification |
| `SpikeWrapperProofs` | proofs about `SpikeWrapper` | theorems |
| `CsrServer` | clients, server, CSRs, CSR firmware | specification |
| `CsrServerProofs` | proofs about `CsrServer` | theorems |
| `FuseFirmware` | the handlers of the fuse firmware | operators |
| `MailboxTest` | the mailbox test program with either firmware | specification; extends `Mailbox` |
| `BF16`, `SoftmaxCore`, `MxFp8ActQuant` | the arithmetic of the instructions, on 16-bit words | operators |
| `Gemm` | the matrix unit with its partial sums | specification |
| `GemmBench` | a loop of calls of it, as in `main_gemm.cpp`, next to the exact dot products | specification; extends `Gemm` |
| `Xperiv` | the custom instructions on a vector register file | actions |
| `VectorBench` | these instructions in any order and configuration | specification; extends `Xperiv` |
| `VectorProofs` | proofs about `VectorBench` and the arithmetic of its instructions | theorems |
| `InsnFirmware` | the instruction firmware | specification; extends `Xperiv` |
| `SpikeInsn` | the launcher | specification |
| `WordSweep` | the arithmetic on all 65536 words, as the repository's tests walk through them | specification; extends `BF16` |
| `ArithmeticProofs` | proofs about `WordSweep` and `GemmBench` | theorems |
| `NatRecursion` | induction over the naturals, functions defined by recursion, powers of two, quotients | lemmas |
| `SpikeInsnProofs` | proofs about `SpikeInsn` | theorems |
| `SparseArray`, `ElfLoader` | paged memory and the loading of a file into it | operators |
| `Platform` | what the two platforms share: reset vector, Spike's own bus, the test status register, the accesses of a program | constants |
| `HartMemory` | what a hart relies on when it goes to memory | abstract specification |
| `TurboSoc` | the SystemC platform | specification; extends `Platform`, implements `HartMemory` |
| `DemoSim` | the C++ demo | specification; extends `Platform` |
| `PlatformProofs` | proofs about `SparseArray`, `ElfLoader` and the two platforms | theorems |
| `MCMailbox`, `MCMailboxTest`, `MCSpikeWrapper`, `MCCsrServer`, `MCCustom`, `MCInsn`, `MCPlatforms` | instances for TLC | model values, inputs, benches, properties across modules |

Operators named `Mutant...` stand before the definition they vary. Each is a
plausible mistake in the code the definition models and is used by no
specification; with it in the definition's place a property fails, which shows
that the property depends on that code.

### Mailbox

Every load and store of a register is a step of its own, in program order. That
is what the build does (`src/top/Makefile`: `-O2 -fPIC`, x86-64): compiled,
`update_status` is one store of READY or BUSY, the test of READY and BUSY is one
load, and `status_reg &= ~MAILBOX_ERROR` is a load and a store with room between
them. `process_command` and `update_status` stay calls of their own, so BUSY is
really stored again each time the source says so. Stores become visible in
program order on x86, and a load of STATUS sees the thread's own earlier store to
it, so delaying stores adds no behaviour to these interleavings.

A host thread walks through `send_command` by its `pc`: `lock`, `check` (is there
a simulator), `ready` (`wait_for_ready`), `send` (the second test of READY),
the stores (`command`, `data`, `clear`, `busy`, `process`), the trigger of the
wrapper's store to STATUS (`load`, `store`, `trigger`), `poll`, `read`, `finish`.
Both waits may time out at any poll: the code's clock is not modelled, so the
model has every outcome of every timeout value. The firmware's `fpc` goes through
`poll`, `command`, `data`, `handle`, `response`, `status`. `SimHalt` and
`SimReset` are the end of the Spike thread and of the simulator, between two
steps of the firmware. The history variables `accepted` and `execs` record the
last call that wrote the registers and how often it was executed.

Data is abstracted to what the answers tell apart: a command code, four
parameters, and the width `U32` of the truncation in `num_elements`. The offset
and length decoding of `load` and `store` is left out, as are the command
callbacks: `set_command_callback` hands the device a callback it has already
moved away, and none is ever installed.

### SpikeWrapper

`start()`, `stop()` and the destructor run in one owner thread (the header
promises nothing for two), `wait()` in any number of others, and each successful
launch adds a `run_spike` thread. Instances and threads are named by the number
of their `start()`; `sim = 0` is a null pointer and `thread = 0` an object that
is not joinable. What the simulation does is its choice: it may fail to be
created, fail to load, end by itself or run on. `wait()` is modelled down to the
predicate of the condition variable: test under the mutex, unlock and sleep in
one step, wake by notification, by chance or by timeout, lock and test again.

### CsrServer

The clients' requests, the server's steps and the firmware's accesses to the
CSRs, one step per access. The firmware starts with its own tests of the CSRs,
which are given as the sequence of their writes and comparisons (one value in
place of the five or seven the code loops over). The sleep of 500 ms before the
server takes requests is not a synchronisation and does not appear. Not
modelled: the text of the messages, addresses other than the nine CSRs, and a
`bar_index` of more than six bits.

### MailboxTest

The program's `main` is one of the host threads of `Mailbox`; every call of a
case is a whole `send_command` of that module, so the interleavings with the
firmware, the timeouts and the end of the Spike thread are the ones checked
there. `image` chooses the firmware: the mailbox firmware, or the fuse firmware,
which first runs the instruction tests and need not return from them. `--test`
chooses any set of cases, an unknown name the empty one. The performance case
makes `PerfIterations` calls (10 in the code) and does not look at the answers.
The reference results the program computes are only printed and are left out.
`start()` may succeed without a simulator, when its creation failed (`sim` is
then "gone" and every call is refused). `stop()` is modelled with its early
return: when `run_spike` has ended by itself its thread stays joinable, and the
wrapper's destructor ends the program through `std::terminate` (`Terminated`)
instead of an exit code.

### BF16, SoftmaxCore, MxFp8ActQuant, Gemm

Bit for bit on 16-bit words: a number is its word, and `sign`, `exponent` and
`mantissa` take it apart as the C++ does. Tables of the code (the reciprocal) are
given by the formula that filled them. A shift by 32 or more is undefined; the
constant `ShiftOutcomes` lists what a build may make of it, the count modulo 32
or a fixed value, and every operator takes the outcome as a parameter. `Gemm`
keeps `psum0` and `psum1` between calls, at the widths of the code; the columns
do not depend on each other.

`MCCustom` has four benches, of which a behaviour runs one: `WordSweep`, the sweep
over all 65536 words, in chunks of 256 per step, as the repository's own tests
make it; `GemmBench`, up to three calls of the matrix unit with mixed inputs in
both weight formats; up to six calls with the largest products, enough for a
partial sum to carry; and `VectorBench` with one instruction, see below.
`GemmBench` keeps beside each partial sum what it stands for: `dot0` and `dot1`
have the exact sum since the last normalisation, the number of calls in it
(`terms`), for each column the exponent at which the last product was added
(`place`), and whether it is `clean`, that is, of one mode and without a misread
low nibble. Exact sums are integers, counted from the least sum of the scales:
`Base` for FP8 and `Base - 3` for FP4.
The references the properties compare with are exact integers. `WordSweep` has the
properties of the first bench, each for one word: `AddTruncates` for two operands
whose exponents lie in 8 .. 253 (the sum is a normal number) and at most 14 apart
(no bit is shifted out), `QuantNoWorse` for a block of two elements, the second
of which has an exponent in 9 .. 254 where the scale is compared (below, the scale
of the reference is negative; the reference does not know infinities).

### Xperiv, VectorBench, InsnFirmware, SpikeInsn

`Xperiv` has the register file as a function from byte to value, so that groups,
overlaps and overruns are what they are in memory. ADD and MUL carry the checks
of the macros they use (mask, alignment, `mstatus.VS`, `vill`, `vstart`); EXP,
SOFTMAX and QUANT carry the few checks they have. `VectorBench` runs any of them
after any `vsetvli`, write of `vstart` or of `mstatus`, and states what each may
be relied on for; in `MCCustom` it has four registers of four bytes, small
enough for every overlap, misalignment, mask and overrun. `InsnFirmware` walks through
the 17 cases with their tables and tolerances; where the code sets `vl` from a
`t0` it has not loaded, the length comes from `LeftoverAvls`.

`SpikeInsn` handles the options one by one, in the order of the command line,
with numbers modulo `Space`, which stands for 2^64. `-m` merges overlapping
regions and rounds to pages; then memories are made, kernel and initrd placed,
hart ids settled and the harts given their settings. The end is `run` or one of
the ways out before it. `std::sort` is `Sort`, which is defined by what the
standard promises of it, a rearrangement that the order does not contradict,
and not by an algorithm.

`MCInsn` joins them: with the default memory and one hart the launcher goes on to
the firmware, on 32 registers of 64 bytes.

### SparseArray, ElfLoader, TurboSoc, DemoSim

A sparse array is a function from page to bytes; `write`, `read` and the element
access keep the code's page arithmetic, a write across a page and a read that
stops at its end included. A file is its entry, its segments and whether each
group of the loader's assertions holds.

`TurboSoc` is scheduled as SystemC does it: the runnable processes of a moment
run one at a time, and time passes when none is left. The core's
thread makes an access, which goes to Spike's own bus, to `sc_soc_scr` or, as a
transaction, to the memory; four event queues with their delays and four ring
buffers carry it through `do_read/do_write` and `ack_read/ack_write`. A
transaction is a local variable of the call, so a pointer is the number of the
access and is valid only while that access waits. Time is kept modulo the clock
period. `DemoSim` makes the same accesses in one thread, with both ways of
building it.

`HartMemory` is what a hart may rely on: one access at a time, performed once
between call and return, a store changing exactly its bytes and a load returning
the bytes stored last. Its memory is the flat view of the pages.

## 3. The runs

`mailbox_safety`, `mailbox_service`, `mailbox_trigger` and `mailbox_error` check
for deadlock. The others do not, because what they model may stop: a wrapper that has been
destroyed or has terminated, the CSR server after QUIT, a test program or a
launcher that has ended, a platform after `sc_stop` or an assertion, and the
benches at the end of their inputs.

| Run | Instance | Shows |
|---|---|---|
| `mailbox_safety` | two host threads, HELLO and SOFTMAX, two sets of parameters | answers match their calls (`ResponseMatchesCommand`), one user of the registers at a time (`RegisterExclusion`), no torn command (`NoTornCommand`), at most four executions per call (`AtMostFourExecutions`) |
| `mailbox_service` | two host threads, SOFTMAX and an unknown command, one set of parameters, with fairness | `Mailbox` implements `CommandService` (`ServiceSpec`); every call returns, an accepted command is executed, the mailbox recovers after a timeout |
| `mailbox_trigger` | one host thread | finding: a call can be executed more than once |
| `mailbox_error` | one host thread, SOFTMAX and an unknown command | finding: a call answered with an error code finds STATUS without ERROR |
| `mailbox_tests` | one host thread, both firmwares, every selection of cases | a case fails only when a call was not answered (`FailureNeedsTimeout`), passes only when its command was executed (`PassNeedsExecution`); the program ends (`ProgramEnds`) |
| `wrapper` | two starts, two waiters, with fairness | `ExclusiveUse`, `NoLostWakeup`, `TerminatesOnlyAfterSelfEnd`, `NoThreadOutlives`; `stop()` returns, waiters leave `wait()` |
| `csr` | one client with every kind of request, or two that compete with a mail and QUIT, with fairness | a mail begun on a quiet channel and reported as sent was read whole (`CleanMailIsRead`); MAIL_VALID is cleared while the simulation lives (`ValidIsCleared`); requests are answered (`RequestAnswered`) |
| `arithmetic` | the four benches of `MCCustom` | EXP never reverses an order (`ExpMonotone`); x times its reciprocal is 1 within two units in the last place; a sum is the exact one cut towards zero (`AddTruncates`); the quantiser is as close as the reference of the repository's test or closer (`QuantNoWorse`); a partial sum is the exact dot product up to its truncations (`PsumTracksDotProduct`), and the output rounds it, up to two units per product, and four, of the place the sum has reached (`OutputRoundsDotProduct`, for normal results); ADD, MUL and aligned EXP compute from the old values (`VvFromOldValues`, `AlignedExpFromOldValues`); SOFTMAX keeps the order of its inputs |
| `insn` | launcher and firmware of `MCInsn` | the memories cover what was asked (`LayoutCovers`); kernel, initrd, harts and settings are as asked (`LaunchedAsAsked`); a firmware test fails only with a vector shorter than it compares (`FailureNeedsShortVl`) |
| `softmax_sum` | the vector bench of `MCCustom` | finding: the shares of a softmax need not sum to about 1 |
| `platforms` | `TurboSoc` and `DemoSim`, ten files, up to three accesses, with fairness | buffers and event queues hold exactly the waiting access (`BuffersMatchCalls`), the image is loaded, the hart boots at its entry, memory accesses return, `TurboSoc` implements `HartMemory`, an access of the demo changes and returns what it names (`StepsAreAccesses`) |
| `platforms_device` | the same | finding: an access to `sc_soc_scr` never returns |

### Bounds

* Two host threads: `command_mutex_` admits one to the device, so a second is
  enough to follow on the first's timeout and meet its late answer; the theorems
  hold for any number. The two sets of parameters differ in all four words.
  `U32 = 4` lets a parameter exceed the width.
* `MaxStarts = 2`: a run that ends by itself and a restart after it; two waiters
  so that one can sleep while the other holds `mutex_`. The theorems hold for any
  number of starts and waiters. `MaxStarts` bounds the instances, not the calls
  of `stop()` and `wait()`.
* CSR server: it serves one request at a time and a REQ socket has one request
  outstanding, so one client is enough for the order of the requests, and it
  sends every kind. Two clients compete with a mail and QUIT, because there
  waiting matters. A behaviour of the run is one of the two (`scene`). Mails have
  four different words and differ from each other and from the values of the
  firmware's tests.
* Test program: one thread, as in the code. `U32 = 65536` exceeds every byte
  count it sends; two performance calls, so that one can follow on another.
* Arithmetic: all words for one argument, with two partners for a sum that differ
  in sign and size. Three mixed calls reach every order of the two formats and of
  a normalising call between two others; six heavy ones reach the carry.
* Launcher: an address space of 24 bytes with pages of 4 has regions at its top
  and bottom, ones that touch, overlap, wrap or cover everything; all single
  regions, pairs from eight bases and nine sizes, and triples from five and four.
* Instructions: the firmware runs at the real size. On the vector bench LMUL goes
  from 1/2 to 2 and the element from 8 to 32 bits, so that groups of one and two
  registers overlap in every way, on two files of ordinary and of widely spread
  numbers; one instruction is enough because the properties are about one step. The theorems
  hold for any number of instructions and any size of the file.
* Platforms: four pages of four bytes with the same map as the code's (Spike's
  page, the reset vector, a device, memory, the end); ring buffers of four slots
  where the code has 32 (the core waits for every access, so a buffer never holds
  more than one pointer); three accesses, so that one can meet what the two before
  it left behind.

### Fairness

* Mailbox: weak fairness for each host thread inside a call (its thread is
  scheduled, its sleeps end and its clock advances, so a timeout comes) and for
  the firmware while the Spike thread is live. A call that waits for
  `command_mutex_` is not claimed to get it; `CallReturns` starts at `check`.
* Wrapper: strong fairness for the owner, `run_spike` and waiters, because a
  thread that waits for a mutex which others take and release is enabled only
  again and again. Nobody is assumed to call `stop()`, the simulation need not
  end, and a sleeping waiter need not wake by itself. `proc->step` and the
  loading of the program are assumed to end.
* CSR server: weak fairness of the server and of the firmware (the poll is
  bounded by a counter), strong fairness of receiving each client's request (a
  REP socket takes from its peers in turn). Clients need not send anything.
* Test program: weak fairness of its own steps, of its thread inside a call and
  of the firmware while the Spike thread is live. The instruction tests of the
  fuse firmware need not return.
* Platforms: weak fairness of the scheduler (a runnable process runs, and time
  passes when none is). The program is not assumed to make another access.

## 4. Findings

Each is a run whose property states what the documentation, a comment or a test
says; TLC shows the code doing otherwise. The quotes and lines are under
"findings" in `PROJECT.json`.

1. `mailbox_trigger`: one `send_command` stores BUSY four times; the firmware may
   execute the command after each of them. Four is exact: the bound is proved,
   and TLC reaches it.
2. `mailbox_error`: the document says that the firmware sets STATUS.ERROR on an
   error and that the host clears it. The store to RESPONSE sets READY alone
   whatever the answer is, and nothing else ever sets the bit, so a caller that is
   given an error code does not find it.
3. `softmax_sum`: `bf16_add` (`BF16.cpp:108`) shifts by the difference of the
   exponents without a bound. Where the hardware takes the count modulo 32, an
   element 32 exponents below the maximum comes back at full weight and the
   shares sum to clearly less than 1.
4. `platforms_device`: the core waits for `done_event` after every access, but an
   access the uncore serves at once is never followed by BEGIN_RESP, the only
   phase that notifies it.

What the models also show, without a run of its own because nothing in the
repository says otherwise or the line speaks for itself:

* Wrapper: `start()` returns true when the simulator could not be created
  (`spike_wrapper.cc:65`), and false with `running_` true when the thread could
  not be launched (`:72`); `stop()` after a run that ended by itself joins
  nothing, and the next `start()` or the destructor calls `std::terminate`
  (`:90`); `wait()` may return true while `run_spike` is still stepping.
* CSR server: a mail is reported as sent although the firmware's loop never read
  it, when the firmware's own tests cleared MAIL_VALID; QUIT hangs in a join,
  since nothing ends the simulation's thread; a write to SE_QUERY_LOCK does not
  reset the query count (`docs/rvv-custom-csr.md:74`).
* Test program: `--test` with an unknown name runs no case and exits with 0; the
  performance case ignores the answers; and `std::terminate` ends the program in
  place of an exit code when Spike has ended before `stop()`.
* Arithmetic: the low FP4 nibble takes its exponent and implicit one partly from
  the high nibble (`MxFp8Product.cpp:108-117`; `PsumTracksDotProduct` leaves out
  sums with a weight this misreads); a denormal result whose rounding carries
  becomes 1.5 times the smallest normal number (`Fp32PsumAcc.cpp:105`); a
  normalising call in the FP8 mode leaves `psum1` as it was (`GemmTop.cpp:81-87`).
* Instructions: EXP's check for overlapping groups never refuses anything
  (`xperiv.cc:84`); EXP, SOFTMAX and QUANT look at none of `mstatus.VS`, `vill`,
  `vstart`, the mask and the alignment of a group, and with 8-bit elements they
  take twice the bytes of the group.
* Launcher: a region that wraps around 2^64 is cut off without a message, and
  kernel and initrd may be placed over each other in a small memory.
* Platforms: a sparse write across a page repeats the beginning of its data
  instead of going on, and .bss is zero only because its pages are fresh; the
  status register's branch in `do_write` cannot be reached, because
  `sc_soc_scr` takes its addresses first.

## 5. Proofs

TLAPS checks all of the theorems below from the modules' assumptions on their
constants, which TLC evaluates for the constants of every run:

| Assumption | Says |
|---|---|
| `InputAssumption`, `MailboxTestAssumption` | the mailbox's inputs are numbers and `Free` is no thread; the test program's thread is a host, and its buffer address and invalid command fit into a register |
| `WrapperAssumption` | `MaxStarts` is a natural number; owner, waiters and `Free` differ |
| `RequestAssumption` | the clients' requests are well formed and `Nobody` is no client |
| `LauncherAssumption` | a page is smaller than the address space and divides it, and a command line is a sequence of options |
| `AccessAssumption` | both platforms: the reset vector is a sequence of numbers, and an access stays in a page, as it does where misaligned ones trap |
| `TurboAssumption`, `SocAssumption` | clock and delays are numbers, a buffer has two slots or more, the file is well formed and the test status register is one of `sc_soc_scr` |
| `SparseArrayAssumption`, `U32Assumption` | sizes are positive numbers |
| `ShiftAssumption` | what a build may make of an over-wide shift: whether the count wraps, and which word a result beyond the width is |
| `XperivAssumption`, `VectorAssumption` | the vector unit is one of the extension's: element widths of 8 to 64 bits, groups of 1/8 to 8 registers that divide the file, registers of an even number of bytes; memory holds bytes |
| `LeftoverAvlsAssumption` | a length left in a register is a number |
| `SweepAssumption` | the partners of a sum and the second elements of a block are words, and the chunk of a step divides 65536 |
| `GemmAssumption` | rows, columns and scales are bytes, there are at most 2^`Growth` calls (`Growth` up to 20), and the scales of a call exceed the origin `Base` by no more than 34 - `Growth`. Further apart, `fp_add` may shift by 64 or more, which C++ does not define, or the exponent of a partial sum may leave its nine bits. The 256 calls of `main_gemm.cpp`, all with the same scales, are the case `Growth` = 8 |
| `TensorAssumption` | the tensor scale is 1, as in `main_gemm.cpp:99`; the FP8 mode does not read it |
| `DemoAssumption` | the file is well formed or missing, and the reset vector is in memory and fits into its page |

### MailboxProofs

`ResponseMatchesCommand` is not inductive: that RESPONSE holds the right answer
when a caller sees READY depends on who may have stored to the registers before.
The invariant `IInv` says so in parts:

* `OneBit`: STATUS is READY or BUSY alone, and so is the value a host thread has
  loaded from it. It says what the code leaves of STATUS, not what the document
  wants (`mailbox_error`), and is no part of the type;
* `MutexInv`: the thread inside the call is the holder of `command_mutex_`;
* `StatusInv`: READY belongs to the host and BUSY to the firmware. The firmware
  leaves its poll only on BUSY and stores READY last; a host thread writes only
  after it has seen READY; and the stale value of `status_reg &= ~ERROR` is
  harmless, because a READY it loaded is still there when it is stored back and
  a BUSY it writes back over a READY only starts the command again;
* `RegsInv`: the registers hold the accepted call whenever anyone may act on
  them, word by word while they are being written;
* `FwInv`: what the firmware has read so far is the accepted call, and what it
  answers is the answer to it;
* `AnswerInv`: after BUSY was stored, READY means that the answer is there.

From it follow `TypeCorrect`, `ResponsesMatch`, `RegistersExclusive`,
`CommandsNotTorn`. `ExecutionsBounded` needs a count on top (`ExecsInv`): the
executions so far, the one that BUSY has started and the stores of BUSY still to
come never exceed four. `Refinement` shows that `Mailbox` implements
`CommandService`: a call is served from the moment it passes the second test of
READY until its result is known (`Owner`), it is pending before and done after
(`Client`), and it ran when `execs > 0` (`Ran`). `Accept` is the step of
`SendCommand`, `Run` the first execution, `Answer` the read of RESPONSE, `Fail`
a refusal or a timeout; all other steps stutter.

### SpikeWrapperProofs

Again `ExclusiveUse` needs more than itself. The parts of `IInv`:

* `LaunchedInv`: a run exists only after its `start()` launched it;
* `ThreadInv`: a thread that has not exited is the one in `spike_thread_`, so
  there is at most one; past the join there is none;
* `FreshInv`: while a run has not left its loop, its instance is in place, and
  `running_` is true or `stop()` is about to join it. So a `start()` that finds
  `running_` false finds no such run and may replace `sim_`;
* `RunningInv`: `running_` does not change under a thread that holds `mutex_`,
  in particular between a waiter's test and its sleep;
* `JoinInv`: a joinable thread that nobody is about to join belongs to a run
  still in its loop, unless some run has ended by itself.

From it follow `TypeCorrect`, `SimulatorExclusive`, `WakeupsKept`,
`TerminationCause` and `ThreadsGone`, for any number of starts and waiters.

### MailboxProofs: the test program

`FailuresAreTimeouts` and `PassesAreExecuted` are about `MailboxTest`, whose
firmware may be the fuse firmware and boots at its own time. `TestInv` has, for
the one host thread there is, what `IInv` says of the mailbox (`Dialogue`), and
on top

* `Answered`: between the end of a call and the verdict on it, the result is the
  answer to that call, and the firmware executed it;
* `Verdicts`: until a call was not answered every case has passed. It needs that
  the value each case waits for is the answer of both firmwares, which
  `CasesAreAccepted` shows case by case.

### CsrServerProofs

`TypeCorrect` is types and control: who is served while the server works, and
which indices the loops have. `CleanMailRead` needs one more part, `CleanMail`:
while the server writes a mail that was begun at rest the firmware stays in its
poll and MAIL_VALID is 0; once it is set, the words stay in the CSRs, the
firmware has read exactly the first of them, and it clears MAIL_VALID after the
last. Any other write to these CSRs makes the server leave the mail, since it
serves one request at a time.

### SpikeInsnProofs

`LayoutIsCovered` and `LaunchIsAsAsked` hold for every command line, every number
of regions, and every width of an address. Three things are proved on the way.

* Arithmetic modulo `Space`: with sizes and addresses that are multiples of the
  page size (`Multiple`), the rounding of `create_mem_region` and the sum of
  `merge_mem_regions` either wrap to what `check_if_supported` refuses or do not
  wrap (`CreatedRegion`, `MergedRegion`).
* The loop of `merge_overlapping_memory_regions` (`MergeEffect`). Its invariant
  `Merged` says that the regions so far are supported, apart and in order, have
  the addresses of those handled, and that the last of them begins no later than
  the region handled last; after the break, that they are the whole space.
* The stages of `main` (`LauncherInv`): the layout is the one asked for until the
  memories are made; the kernel is whole in the first memory that has the bytes,
  unless the initrd comes down on it; the hart ids ascend.

The loop is a recursive function over `0 .. n`. `NatRecursion` proves that such a
function exists and carries induction over naturals, both with a set in the place
of a predicate, which the provers can instantiate. The same lemmas serve the
loops of `SparseArray` and `ElfLoader`. That `Sort` denotes something is a lemma
as well (`SortExists`): every finite sequence can be put into order.

### PlatformProofs

`WriteEffect` follows the loop of `SparseArray::write` from page to page and
`ElfEffect` that of `load_elf` from segment to segment; they state what the code
does, the repetition after a page's end included.

`BuffersAlwaysMatch` is inductive with the types: there is at most one
transaction under way, it is in one buffer, and one notification stands for it.
`PlatformIsMemory` adds `Traffic`: a transaction in a buffer belongs to memory and
is in a buffer of its own kind. A call is a `Request` of `HartMemory`, `do_read`
and `do_write` perform it, the return of the core is the response, and every
other step, those of devices and of the clock included, stutters.

The invariant for `DemoSim` (`DemoStateInv`) follows construction: only the reset vector is in
the array, then the file over it (`Image`), then the hart starts. `ImageIsLoaded`,
`HartBootsAtEntry` and `AccessesAreFlat` follow from it and the two effects.

### VectorProofs

`VvSources` and `ExpSources` state `VvFromOldValues` and
`AlignedExpFromOldValues` for every size of the register file, every
configuration `vsetvli` can leave and every number of instructions. The
argument has four parts.

* The arithmetic is total: every operation on BF16 words, SOFTMAX and its
  reciprocal included, gives a word, whatever a build makes of an over-wide
  shift (`SoftmaxType` is the last of these lemmas). `WantedIs` shows that the
  chain of carries through the bytes of an element is the sum, or the product,
  modulo its width.
* The geometry of the register file: two aligned groups are the same or apart
  (`GroupsApart`), the elements of a group lie in the file (`ElementInFile`) and
  have no byte in common (`ElementsApart`). It needs that `vl` elements fit into
  a group, which is what `vsetvli` leaves.
* `VectorTypeInv` says so, and that the file holds bytes. It is the inductive
  invariant (`VectorTypes`).
* The loops. `LoopEffect` goes through `VI_LOOP` element by element: after the
  first `n` elements those are written and every other byte is kept (`Written`,
  `Kept`), so the sources of element `n` are still the old ones (`SourceKept`),
  and so is its bit of the mask, because an instruction under a mask does not
  write `v0` (`MaskKept`). `ExpResult` does the same for EXP, whose loop checks
  nothing: there alignment is a hypothesis of the property.

### ArithmeticProofs

TLC goes through every word with the operands a run names; the theorems about
words hold for every partner of a sum and every second element of a block, so for
all pairs of words, and for both outcomes of an over-wide shift.

* `ExpNeverReverses`: EXP is a monotone curve of a monotone argument. The scaled
  magnitude grows with the word (`ScaledMagnitude` shifts one product by the
  exponent); the quadratics grow on each half, and the joint of the halves and
  the carry into the exponent are compared case by case.
* `ReciprocalWithinTwo`: an entry of `recip_lut` is a quotient cut to an integer,
  so 128 + i times it lies within 128 + i of 32768; the multiplication cuts that
  once more, and the exponents of the factors add up to that of 1 or one less.
* `AdditionCuts`: with the smaller operand at most 14 places down nothing is
  shifted out, so the aligned sum is the exact one; its leading one is moved to
  bit 23 and what lies below the eighth bit is cut.
* `QuantiserNoWorse`: both quantisers align an element to the block's largest
  exponent. Where the code has a full significand both round to nearest, the unit
  ties to even and the reference away from zero, with the same saturation; where
  the code is a denormal, the unit rounds what is left of the mantissa and the
  reference cuts it; below, both give zero. `NoCodeIsNaN` is the largest code.

* `GemmTracks`: a partial sum is the exact dot product, for all rows, columns and
  scales within `GemmAssumption` and any number of calls. `Covers(x, m, err, P)`
  says that the mantissa m at a place of weight P stands for x, short of it by at
  most err. It is followed through the unit. Aligning the activations loses
  nothing (`ActIs`); the two digits of an FP8 weight, or an FP4 nibble, give terms
  cut by a few units (`DigitTerms`, `NibbleTermIs`); the adder trees fit their
  widths (`SumOfTerms`, `QuarterSum`); so a product stands for the exact dot
  product of its row (`Fp8ProductIs`, `Fp4ProductIs`), and for 26 units at most
  when it is scaled (`ScaledContributes`); `fp_add` cuts once when it aligns and
  once when it stores (`FpAddCovers`).
  The property alone is not inductive: it says nothing of the place, and with a
  place 64 above that of the next product the code's shift is undefined.
  `GemmInv` has for every partial sum of n products (`Held`) that its mantissa
  has 23 bits, that it is short of the exact sum by at most 95/64 of the last
  place per product, and that both the sum and the weight of its place grow
  at most in proportion to n. A sum goes up a place only when it
  carries, and a sum that carries has itself grown (`CarryReach`); so the weight
  of the place stays below 2^63 and no shift reaches 64 (`HeldPlace`). 95/64 of a
  unit per call and the rounding of the exact value give the two units of the
  property (`HoldsTracks`). `GemmInv` was not checked by TLC, whose integers
  have 32 bits; the property is.
* `OutputRounds`: the number delivered is the exact dot product rounded to eight
  bits. `to_bf16` halves the mantissa (`NormalisedIs`), left-justifies and rounds
  it, which costs half a unit of the last bit kept, the carry of the rounding
  included (`Bf16Is`). What `Held` says of the sum before the call gives the rest:
  95/64 of a place per product is the distance of the mantissa from the exact sum
  (`HalfNear`), the halving and the rounding add to it (`BothNear`), and the
  result is compared for exponents above and below that of the sum's unit
  (`OutputUp`, `OutputDown`). The tolerance is measured in the place the sum has
  reached, not in the place of its largest product: over many calls carries lift
  the one above the other. As in the property, the result is a normal number.

`NatRecursion` has what the proofs need of the powers of two, whose exponents are
variables here: that 2^k is positive and doubles (`Powers`, `PowerStep`), by
counting the subsets of `1 .. k`; that exponents add up (`PowerSum`); that a
larger one is a larger power (`PowerOrder`); and quotients by them (`QuotientIs`,
`QuotientGrows`).

### Only model-checked

* Liveness under fairness, which the prover does not handle: that calls return,
  the program ends, requests are answered, memory accesses return.
* The instructions. `FailureNeedsShortVl` is about the firmware's tables, which
  are constants of hundreds of elements: the provers do not evaluate, TLC does.
  `SoftmaxKeepsOrder` combines two trees, an exponential and a product.

## 6. Plan

Done, in this order: the mailbox protocol and its abstract service; the
wrapper's lifecycle; the CSR server; the proofs for the first two; the
arithmetic; the instructions, their firmware and the launcher; the mailbox test
program and the fuse firmware; the two platforms with their abstract memory; the
proofs for the CSR server, the test program, the launcher, the sparse array, the
loader, both platforms, the vector instructions, the arithmetic, the partial
sums of the matrix unit and its output.

Next: the composition of `Mailbox` and `SpikeWrapper` (`stop()` and `start()`
while a sender is inside `send_command`), and the offset and length decoding of
the mailbox's `load` and `store`.

## 7. Not modelled

* The stand-alone CSR test (`spike_csr.cc`) and `mail_poll.c`: earlier forms of
  the CSR server and of the firmware's polling loop.
* `bridge.h` and `sc_cache_device` of the SystemC model and `set_rom` of the demo,
  which nothing calls; the remote bitbang; more than one SystemC hart.
* The vendored headers (the macros of `v_ext_macros.h` that no instruction here
  uses, `specialize.h`, the bit utilities), `printf.c`, the copies under
  `src/xperimental`, disassembly, build scripts, logging and texts.
* The floating-point references in the tests of the arithmetic, which use the
  host's arithmetic; the models compare with exact integers instead.
* The launcher's kernel offset for an rv32 ISA (`KernelOffset` is the one for
  rv64), which is another number and no other control.
* A value of `start_pc` other than START_PC: the demo's bridge and its main have
  a default each (`memory_simulator.h:62`), equal in the code and one constant in
  `DemoSim`.
* A file named on the launcher's command line that changes while it is read, and
  a command line without a program.

Spike itself is external: `proc->step`, the bus, the vector unit's registers and
the CSR file appear only as the code in this repository uses them.
