# Specification of new-arp-scan

This directory specifies the program in TLA+, checks the specification with TLC
on small instances and proves theorems about it with TLAPS. Paths below are
relative to the repository; `src/scanner.rs` is the program's own source file.

new-arp-scan sends ARP requests on an Ethernet link and reports the hosts that
answer; a second command only listens and reports address conflicts. It is a
single-threaded program around a raw socket (Linux) or a BPF device (macOS).
What makes it hard is not threads of its own but everything beside it: the
network queues frames at any time, the clock runs on while the thread is
preempted, polls are interrupted, time limits are rounded to milliseconds,
sends are refused, deadlines do not fit the clock, frames pass a kernel
filter that must agree with the parser behind it, and interfaces change between
the calls that read them. A second program, the updater of the vendor registry,
is run beside scans and beside itself, shares files with them, and may be killed
at any point.

## 1. The system

| Component | State | Operations | Works with | Correct when |
|---|---|---|---|---|
| Scan engine (`scanner.rs`) | target list, round, last send, deadlines, table of hosts, warnings | send rounds (burst, rate-limited), receive window, drain, merge | endpoint, clock, plan | no rival claim lost; every probe owed is sent or warned about; spacing and pacing kept; windows whole; always ends |
| Scan timing (`scan_timing.rs`) | none (arithmetic), `SystemScanClock` | interval from bit rate, window from backoff, validation before a socket | scan engine, command line | exact ceilings; what is accepted never fails later |
| Passive monitor (`monitor.rs`) | capped record list, index, counts, claimants, flags | listen loop, drain until deadline, observe, finish | endpoint, clock | list, counts, duplicates and the quiet line exact; deadline kept under flood |
| Endpoint contract (`link_layer_backend.rs`) | none | wait, receive, send | both loops | (contract of the two below) |
| Linux packet socket (`linux_socket.rs`, `linux_packet.rs`, `linux_system_call.rs`) | socket, destination | open, bind, poll, receive, send | kernel | the protocol it binds lets every awaited framing through |
| macOS BPF endpoint (`macos_bpf_socket.rs`, ...) | device, read buffer, cursor | open, filter, poll, record cursor, write | kernel | the filter admits what the parser takes; every record is handed out once, in order |
| Ethernet framing (`ethernet_frame.rs`) | none | encode, parse | ARP, endpoints | what is encoded reads back; truncation is noticed |
| ARP (`address_resolution_protocol.rs`) | none | build request, parse | framing | fixed fields verified; padding ignored |
| Commands and wire options (`application_command.rs`) | option values | validate, lay out a request | framing, endpoints | only encodable options get through |
| Subnets and targets (`ipv4_subnet.rs`, `ipv4_cidr.rs`, plan in `scanner.rs`) | none | mask to prefix, host range, iteration, acceptance | orchestration, scan engine | what is probed is what is accepted as a sender, each host once, edges right |
| Interface discovery (`*_interface_discovery.rs`, `interface_validation.rs`) | none (reads the system) | list, choose, validate, read addresses | orchestration | both platforms find the same; what is read piecemeal was true of one name, in order |
| Orchestration (`lib.rs`, `*_scanner.rs`, `*_monitor.rs`) | none | validate, discover, plan, open, run | all | nothing is opened before everything was validated; the endpoint is that of the interface found |
| Command line (`main.rs`, `cli.rs`, `application_outcome.rs`, `error.rs`) | none | parse, convert, dispatch, print, exit code | orchestration | no accepted line panics or is refused later for its tags |
| MAC addresses, vendor registry (`mac_address.rs`, `mac_vendor_registry.rs`) | loaded registry | load, parse, longest-prefix lookup | report | the longest prefix wins; a file that is replaced while it is read is read as it was |
| Vendor registry updater (`tools/mac-vendor-updater`) | fetched listings, temporary files, registry file | fetch, read, convert, validate, replace | file system, curl, scans | the registry is the old or a new one, whole, whatever stops the updater; names are as listed |
| Tests, fuzzing, docs, site | - | - | - | - |

Interactions are direct calls on one thread. The shared state is outside the
program: the kernel's capture buffer (filled by the network, emptied by the
drain), the interface table (re-read by name), the registry file. `PROJECT.json`
lists the hazards of this code, each at its line, with the properties that
would notice it going wrong.

## 2. Modules

| Module | Models | Kind |
|---|---|---|
| `HostTable` | what a scan promises about the hosts it reports | abstract specification |
| `ScanEngine` | `scanner.rs` with the endpoint, the network and the clock beside it | detailed specification |
| `ScanTiming` | `scan_timing.rs`, and the windows as `scanner.rs` computes them round by round | arithmetic in a small state machine |
| `PassiveMonitor` | `monitor.rs` with endpoint, network and clock | specification |
| `ArpFrames` | encoder and parser of `ethernet_frame.rs` and `address_resolution_protocol.rs` | operators |
| `ArpCapture` | options, endpoint, request, and frames on their way to the parser on both platforms | specification, EXTENDS `ArpFrames` |
| `CaptureQueue` | what an endpoint promises the loops that read from it | abstract specification |
| `CaptureEndpoint` | both endpoints from opening to closing: `linux_socket.rs`, `macos_bpf_socket.rs` | detailed specification |
| `ScanPlan` | `ipv4_subnet.rs`, the host iterator of `ipv4_cidr.rs`, the plan in `scanner.rs` | operators |
| `CommandLine` | the attributes of `cli.rs`, the value parsers of `application_command.rs`, the conversion in `main.rs` | operators |
| `InterfaceDiscovery` | what each system call answers on Linux, and the classification of address records on macOS | operators |
| `ScanCommand` | `main.rs`, `lib.rs`, `*_scanner.rs`, `*_monitor.rs` up to the open endpoint; EXTENDS the three above | specification |
| `VendorListings` | `convert.rs` of the updater, parser and lookup of `mac_vendor_registry.rs` | operators |
| `RegistryFile` | what the updater promises about the registry file | abstract specification |
| `VendorUpdater` | `lib.rs`, `fetch.rs`, `write.rs`, `main.rs` of the updater on a file system with power failures, and scans that load the registry; EXTENDS `VendorListings` | detailed specification |
| `MC...` | the instances TLC checks (`CaptureEndpoint` needs none) | |
| `ScanEngineProofs`, `ScanTimingProofs`, `PassiveMonitorProofs`, `ArpCaptureProofs`, `CaptureEndpointProofs`, `ScanCommandProofs`, `VendorUpdaterProofs` | theorems about the module each one EXTENDS | proofs |
| `LibraryLemmas` | what the proofs need of numbers, powers of two and sequences | lemmas |

`ArpFrames!Kind` is the link between the layers: it says for a frame, field by
field, which of the frame kinds it is that `ScanEngine` (and, apart from
opcodes, `PassiveMonitor`) take as given. `CaptureQueue` is another: `ScanEngine` and
`PassiveMonitor` read from a queue of whole frames that poll sees in full, and
`CaptureEndpoint` shows that both endpoints are one. `ScanCommand` is the third: its
`plan` is what `ScanEngine` takes as `Targets` and `AcceptedSenders`, and its
endpoint is the one `CaptureEndpoint` opens.

### ScanEngine and the code

`pc` is the place of the thread in `collect_scan_over_endpoint_with_rate_and_clock`
and what it calls:

| `pc` | Thread is |
|---|---|
| `send` | about to send, after sleeping until `wakeAt` |
| `sent` | back from a rate-limited send, about to read the clock |
| `roundSent` | after the last send of a burst round |
| `open` | about to compute the deadline of a receive window |
| `check` | at the head of the receive loop |
| `poll` | in `wait_until_readable` |
| `drain` | in `drain_buffered_reply_frames` |
| `between` | after a rate-limited window with targets left |
| `done`, `failed`, `timingError` | returned: a table, an I/O error, `ScanTimingExceedsLimit` |

Actions are `SendRequest`, `StampSend`, `EndBurstRound`, `StartNextRound`,
`OpenWindow`, `PollRemaining`, `PollReturns`, `PollInterrupted`, `ReceiveFrame`,
`BufferEmpty`, `CloseWindow`, `EndpointFails`, `TimingOverflows`; the network is
`FrameArrives`, the clock is `WaitPasses` (a sleep or a poll takes its time) and
`ProgramIsLate` (time is lost while the thread could run). The burst path
(`RateLimited = FALSE`) and the rate-limited path share their receive window
in the code and in the model: a window fills `roundHosts` from empty, and
`CloseWindow` merges it into `hosts`, empty before on the burst path, where the code
returns the window's table as it is. Two reads of the clock in
`collect_address_resolution_replies_until_clock_deadline` (loop head and
`remaining`) are one step, because a deadline that passes between them ends the loop
through `remaining.is_zero()` just as the head would have. `heard`, `probes` and `probeAt`
are history: the program does not have them, the properties need them.

Abstracted: addresses are model values; warnings keep what properties tell
apart (who was kept and ignored, how many sends of a target were refused); the
frame's kind stands for its bytes.

### PassiveMonitor and the code

`start` is `monitor_deadline`; `check` and `poll` are the loop of
`listen_for_passive_arp`; `drain` and `read` are the two halves of
`drain_until_deadline`, the look at the clock and the read, so that time may
pass between them. `Observe` is the aggregator with its three outcomes
(`Repeat`, `Drop`, `Retain`), `NoteSender` is `note_third_party_sender`, `Finish` is
`finish()`. `tally`, `firstRead` and `overrun` are history.

### ScanTiming and the code

All arithmetic is done in a word of `WordBits` bits (128 in the code), floats have
`SignificandBits` bits (53), and every operation rounds, overflows or drops
bits where the code's does: `Times` is a rounded product, `Power` is repeated
squaring, `MulCeil` is `checked_mul_ceil_u128_f64` with `checked_shl` as Rust defines
it. `Accept` and `Reject` are `validate_scan_timing_before_socket`; `ComputeWindow` is
what `run_rate_limited_rounds` computes when a round's window is due.

### ArpFrames, ArpCapture and the code

A frame is its length and its 16-bit fields from octet 12 on. `EncodedRequest`
builds one from wire options; `Parsed` yields the parser's one result or
nothing. In `ArpCapture` a run validates options (`Reject`), opens an endpoint
(`Open`: capture and send protocol on Linux), sends, and reads frames until
stopped. On Linux the kernel takes off the outermost tag and compares
protocols; on macOS `ARP_CAPTURE_FILTER` is run by `FilterLoad`, `FilterJump` and
`FilterReturn`, one instruction a step, over the program as it stands in the
source. The kernel parts are external: they are modelled from the comments at
`linux_socket.rs:100-111` and the interpreter in the tests of
`macos_bpf_socket.rs`.

### CaptureEndpoint and the code

| `pc` | Thread is |
|---|---|
| `closed`, `unbound` | about to open; between `socket(2)` and `bind(2)` (Linux) |
| `away` | sending, sleeping or computing between receive windows |
| `polling` | in `wait_until_readable`, or about to look at the deadline |
| `reading` | about to call `try_receive_ethernet_frame` |
| `refilled` | in it, on a further turn of the macOS loop |
| `stopped`, `failed` | returned |

`read_buffer` is a sequence of frames, but `filled` and `cursor` are octets: a record
starts where the kernel aligned it (`Starts`), and a cursor that points anywhere
else yields `Garbage`. `ReadRecords` takes any number of the oldest frames that fit
and may lose octets at the end; `TakeRecord`, `SkipPartialRecord` and `NothingToRead` are
the ways one turn of the loop goes; `ReceiveFrame` is the Linux call. The clients
differ in where a drain may end: `drain_buffered_reply_frames` only on `None`,
`drain_until_deadline` before any call. What the kernel captures, buffers, aligns
and drops is external. An interrupted call is repeated and changes nothing, and
frames longer than the client's buffer are not told apart.

### ScanCommand and the code

| `stage` | Run is |
|---|---|
| `parse`, `convert` | in `Cli::parse`; in `main`, loading the registry and making the `ApplicationCommand` |
| `check` | at the head of `run_address_resolution_scan` or `run_passive_arp_monitor`, before anything is asked of the system |
| `resolve` | validating the interface that was named |
| `enumerate`, `candidate` | listing interfaces; looking at one of them |
| `perform` | reading the addresses of the chosen interface |
| `open` | opening the endpoint |
| `done` | at the endpoint, or at the error the run ends with (`result`) |

The library asks the system one thing at a time, by name. `agenda` holds the
system calls that the present library call still makes (`ResolveQuestions`,
`CandidateQuestions`, `PerformQuestions`, `OpenQuestions`, per platform and in the
order of the source), `CallAnswered` is one that succeeds and `CallRefused` one that
does not: an error ends the run, or, in an enumeration, only the look at that
interface. `HostChanges` replaces the table of interfaces between any two calls;
`past` holds all tables of the run. On macOS `getifaddrs` delivers all records in one call
(`Records`, `Classified`); the link-layer record of an interface may stand anywhere among the
records of its addresses (`linkPlace`). A line is a record of options; a token is abstracted to what
its value parser looks at (`Padding` to its number of digits, a rate to magnitude and
factor). The largest tags that the parser takes (`ParsedVid`, `ParsedPcp`, the literals of `cli.rs`)
and the largest that the library takes (`MaxVid`, `MaxPcp`) are constants of their own.
`fits` says whether the schedule or the monitor's timeout can be
represented; `ScanTiming` has how that comes about.

### VendorUpdater and the code

| `stage[u]` | Process `u` is |
|---|---|
| `away`, `done`, `failed` | not running: never started or killed, returned after the rename, returned before it |
| `curl`, `curling` | waiting for curl (`fetch.rs`), which has not or has opened its output |
| `read`, `convert` | in `read_to_string` of a listing; generating and validating the text |
| `open`, `write`, `rename` | in `replace_file_atomically` (`write.rs`) |
| `discard` | removing the temporary file after an error |
| `summary` | in `write_summary`, after the registry is replaced |

Every system call is a step, so processes interleave between any two.
Directory entries (`dir`) name inodes, so a scan goes on reading the file it opened
after the name has moved. `curl` truncates its output and writes at its own offset:
where another process truncated the same file meanwhile, a hole is left
(`WrittenAt`). `PowerLoss` cuts every file that was not synced (`Cut`) and takes the
directory of the registry, which is never synced, back to any state it had since the
last failure (`dirOnDisk`). `source`, `alone` and `documents` are history: the listings a
text was made from. A killed updater takes its curl with it; a curl that outlives
it would be one more writer in the directory.

## 3. What TLC checks

Runs that pass:

| Run | Instance | Shows |
|---|---|---|
| `burst` | 2 targets, 2 rounds, window 2.5 ms, 2 frames of 7 kinds, 2 late ticks | the burst path keeps pacing and window, warns in the name of the host it reports, ends |
| `rate_limited` | 2 targets, 2 rounds, windows 2 and 4 ticks, interval 3, 3 rival replies, 2 late ticks | the rate-limited path loses no rival claim and implements `HostTable`; every probe accounted for; spacing across rounds; no second probe for the answered; the clock overflows only when late |
| `monitor_crowded` | 4 packets of all classes (a conflict, an own packet, two claims of one address), room for 2, counts up to 2, timeouts 0, 3 and past the clock, endless flood | list, counts and duplicates are exactly those of the packets kept, also when the list is full; a quiet line hides a conflict only behind the truncation warning; deadline kept; ends |
| `scan_timing` | words of 12 bits, factors 1 to 2, up to 6 attempts | intervals and windows are exact ceilings, windows do not shrink, accepted schedules fit |
| `arp_capture` | both platforms, 72 option combinations, every accepted shape with any field replaced or cut to any length, all triples of tag values | requests read back; mirrored replies get through; filter and parser agree |
| `capture_records` | both platforms and clients, 4 frames of 2 sizes, reads of up to two records cut at frame or header, 2 windows | cursor, read buffer and kernel buffer are one queue; poll is never blind; no frame stays behind |
| `vendor_update` | 2 updaters, 1 scan, 2 runs, 1 power failure, 2 registries with prefixes of 1 and 2 digits | the registry is always a whole one, old or new; a text that a scan has open or may have again is never written to; names are those of the listings served |
| `scan_command` | 3 platforms, 4-bit addresses: every address, mask and target; interfaces of every kind, 2 changes, 1 failing call; options near their bounds | what is probed is what is accepted; both platforms choose and open the same interface; what it reads was true of that name; a failed call hides only its own interface; accepted lines convert |

Runs that find a disagreement between code and documentation (each one
property; details under `findings` in `PROJECT.json`):

| Run | Claim | What the code does |
|---|---|---|
| `past_deadline` | replies are collected until the timeout (`README.md:19`, `scanner.rs:349`) | the drain does not look at the clock: a filled buffer is read past the deadline |
| `kept_warning` | the first address wins and later ones are ignored (`scanner.rs:88`) | in a later window of a rate-limited scan a warning may name as kept an address that is not the one reported |
| `scan_timing_shifted` | any planned window that does not fit is an error before sending (`scan_timing.rs:180`) | `checked_shl` drops bits, so a huge last window can pass the validation and an earlier one fail mid-scan |
| `capture_foreign` | `monitor` listens on the selected interface (`README.md:18`); the handle is attached to one interface (`DECISIONS.md:116`) | the Linux socket captures from every interface between `socket(2)` and `bind(2)`, and those frames are handed out like the others |

Two pairs of runs show where a property holds and where it does not:
`WarningNamesReportedHost` holds on the burst path (`burst`) and fails on the
rate-limited one (`kept_warning`); `AcceptedScheduleFits` holds as long as no
product is shifted out of the word (`scan_timing`) and fails beyond
(`scan_timing_shifted`).

Smaller divergences, noted while modelling, that no run is about:

- `DECISIONS.md:260` and `README.md:20` say that a schedule that does not fit is
  rejected before a socket is opened. Intervals and windows are; the deadline on
  the clock is computed when the window opens, after sends. `OverflowsOnlyWhenLate`
  says what remains: a scan fails so only if it was late, or if the schedule was too
  long for the clock from the start.
- `mac_vendor_registry.rs:36` says a prefix with a character that is not hexadecimal
  is an error; `normalize_hexadecimal_prefix` drops such characters, letters
  included, and only a prefix too short or too long is refused. `Parsed` does the
  same.
- `convert.rs:44` says the converted text is accepted by the registry parser. With a
  line break in a vendor name it is not; the parser, which the updater runs before it
  replaces anything, refuses it (`ConversionRefused`).
- `write.rs` syncs the file, not its directory: after a power failure the name may
  be back at the old registry although the updater reported success. `RegistryFile`
  allows exactly that (`earlier`).
- Updates that overlap share `.mac-vendor-updater-csv`, so one may convert listings the
  other is writing. `WholeListings` excepts those, so no property notices it; the registry is still a
  text that parses.
- When the summary cannot be written the updater returns an error although the
  registry is replaced (`WriteSummary`).
- `README.md:23` has the only usable interface chosen automatically; an interface
  whose look fails for a moment is not counted (`CallRefused`), so another may be chosen,
  or none. `EndsAsFound` therefore says what holds when no call fails, and
  `FailuresOnlyHide` how much a failure can hide.

### Bounds, and why they are enough

- Two targets, two hardware addresses and one outsider give a rival for one
  target, a target without answer, and a sender outside the plan. Two rounds have
  one first, one last and one gap between them; with two windows a claim
  can be heard in the same window, in a later one, or between windows (left in the
  buffer).
- `TicksPerMillisecond = 2` makes half milliseconds, so poll timeouts round to
  zero; `MaxPollMilliseconds = 1` makes the clamp bite in every window.
- `MaxTimestamp` leaves room for the whole schedule when the thread is on
  time and not when it is late, so both outcomes of `checked_add` occur.
- `MaxFrames` and `MaxLate` bound the network and lateness; they are guards of
  `FrameArrives` and `ProgramIsLate`. The monitor has no such bound on its traffic: its
  buffer is refilled for ever, and only times past the deadline are identified.
- `RecordLimit = 2` with four packets makes the list full with new and known
  packets still to come; `MaxCount = 2` makes counts saturate.
- `ScanTiming` is checked in full for its scaled word: 16 timeouts, all pairs of
  attempts and factors listed in `MCScanTiming`.
- `ArpCapture` takes padding at the minimum frame and on both sides of the 1500
  octets with and without SNAP; fields take every constant that filter
  or parser compares with, and its neighbours.
- `CaptureEndpoint`: `BufferOctets` holds two records of which the last has 60
  octets; a first record of 60 octets is padded, one of 62 is not, so both cases of
  `bpf_word_align` occur. Cuts of 1 and 70 octets end inside the last frame and inside
  its header. Four frames fill the kernel's two places, a read and the next one.

- `VendorUpdater`: two processes in two runs have every overlap of two updates, and one
  process both runs in turn, over what the first left behind. Listings have a prefix
  twice, prefixes inside one another, a separator, rows that are refused. `Chunk = 3`
  makes a registry of four lines two reads or writes, so every reader and every
  failure meets a text in its middle. After a power
  failure everything is on disk and nobody runs, with files as short as a killed
  run leaves them, so a second failure meets what the first one may meet.
- `ScanCommand`: four bits have every prefix, including those of none, one, two and
  four hosts, and every mask that is no prefix. `MaxChanges = 2` lets an
  interface go and come back; `MaxFaults = 1` fails each call once, in each
  enumeration before or after a usable interface. The link-layer record comes before, between and
after the records of one to three addresses, and an address may lack its mask, the first one
included. Options take their bounds and
  the neighbours of these.

### Fairness

`ScanEngine!FairSpec` assumes that the thread is scheduled (weak fairness of its
own steps) and that time passes while it waits (strong fairness, because a
loop of polls that return at once enables and disables the wait again and
again, and in reality each turn takes time). Nothing is assumed of the network
or of errors. With that, and because frames are bounded, every scan ends. An
endless flood could keep a scan from ending; that is the finding of
`past_deadline`, and why `MaxFrames` is finite. `PassiveMonitor!FairSpec` assumes
scheduling and a clock that ticks; it ends under an endless flood.
`CaptureEndpoint!FairSpec` assumes scheduling only; no window need ever end.
`VendorUpdater` and `ScanCommand` assume no fairness and state no liveness: curl is run
without a time limit, so an update may hang for ever, and a run of `ScanCommand`
is a sequence of calls that ends by its shape.

## 4. What is proved

All theorems hold for every value of the constants: any target list, any
number of rounds, any windows, any frames, any width of addresses and words, any
number of processes and failures.

**`ScanEngineProofs`.** `TypeCorrect` needs a strengthening (`ThreadInv`): a round
index stays in range because `between` is entered only with a round left, and a
timestamp is computed from `lastSend` only after a send. `RivalsAlwaysReported` rests
on `RivalInv`, the inductive invariant `ClaimsAccounted`: each claim heard is in the
effective table (scan's table first, window's behind it) or named in a warning, a
warning names only claims heard, and outside a window the window's table is
empty. The invariant is needed because a rival may be dropped in two
places: inside the window and when windows merge. `ScanImplementsHostTable` maps
the two tables to that effective table and shows each step a step of
`HostTable` or a stutter: reading a reply is `Hear`, a merge that warns is `Warn`, the
last merge is `Report`.

`NoProbeForgotten` (checked on the rate-limited path, proved for both) counts: within a round the targets that are not pending are one
attempt, sent or refused, ahead of those that are, and a window opens only when none is
pending (`ProbesInv`). `NoAnsweredTargetProbed` adds to `RivalInv` that every address heard has an
entry in a table and that no pending target was heard from (`AnsweredInv`). `BurstWarningsNameHosts` has
the hypothesis `~RateLimited`: the burst path fills one table only, so a warning
names what that table keeps (`OneWindowInv`); on the other path it is false, which is the
finding of `kept_warning`.

`ScheduleKept` proves `TimeInv`: before a pending send,
`wakeAt` is already past the interval after the last send and the pacing after the
last window or send; during a window, `deadline` is at least a window's length
after the last send. From it follow `SendsAreSpaced`, `RoundsArePaced` and
`WindowsAreWhole`, whatever lateness, interruption or refused send comes between.
`OverflowMeansLate` (for `RateLimited`, where the plan is validated) rests on `LateInv`: as
long as nothing was late, the clock is at most what the rounds and sends so far add
up to, and these sums grow from round to round up to the one that was validated.

**`ScanTimingProofs`.** `TimingInv` says that what is computed is `RequestedInterval` and
`Scaled` of the request; the rest is arithmetic. `IntervalsCoverTheirBits`: the interval of
a bit rate is the least number of nanoseconds in which the bits fit.
`WindowsAreCeilings`: a window is the ceiling of timeout times power, under the
hypothesis `NoBitShiftedOut` on the options. The hypothesis cannot be dropped:
without it the code computes something else (`scan_timing_shifted`). The instance of
`scan_timing` satisfies it.

`LaterWindowsAreLonger` has the same hypothesis. A product of two floats is the float nearest to
the product of their significands (`TimesIsNearest`), and the nearest one keeps the order
(`NearestFloatOrder`), so multiplication keeps it in both factors (`TimesOrder`). Repeated squaring
then keeps the order of the exponents, although the products of m and of n are not
made in the same way: `ProductsOrder` compares, bit by bit, the numbers that the bits below k
form, with the square k as the bound that a carry passes (`PowersGrow`). Windows are in
the order of their powers because each is the ceiling of an exact product.
`LastRoundIsEnough` adds that what is computed in the last round is computed in the earlier
ones. It needs one more hypothesis, `ProductsFit`: an earlier power may have the greater
significand, and its product with the timeout may be past the word when the last one is
not. With 128 and 53 bits the hypothesis leaves out timeouts of 2^75 nanoseconds and more, about
a million years (`--timeout-ms 45000000000000000 --attempts 3 --backoff 1.75` is accepted and has
no second window).

**`PassiveMonitorProofs`.** `RecordsAlwaysFaithful` rests on the agreement of index
and list (`IndexInv`) and of list and history (`ListInv`): the list is a prefix of
the first readings, a packet has no index only if it was never read or the
list is full, and what is flagged as truncated is longer than the list. So the list is exactly the
first readings it has room for (`ListIsFull`), each with its class, stated over the packet and
not through the model's `Class`, and with its count. `DuplicatesAlwaysReported` adds that
the claimants of each address are those of the packets that have an index (`ClaimInv`), which are the
ones kept (`IndexedIsKept`, `ClaimantsAreKept`): what is reported is exact about the packets kept,
also when others were dropped. `QuietIsQuiet` follows from both.
`OverrunIsBounded` and `ListenIsWhole` rest on `WindowInv`, which relates the clock, the
deadline and the one read in progress.

**`ArpCaptureProofs`.** Everything follows from `CaptureInv`. Its part about macOS is `Way`:
for each instruction of the filter program, what the instructions before it
have established about the frame. `FilterAgreesWithParser` then compares, at the two
ends of the program, what is known of the frame with the framings of the
parser. `RequestsReadBack`, `RepliesAreHeard` and `SentUnderItsProtocol` are about the
encoder: a frame laid out with any accepted tags and header is parsed in exactly one
way (`FramedParsed`), whose fields are those it was laid out with.

**`CaptureEndpointProofs`.** `PollNeverBlind` rests on `DrainInv`: the read buffer is
used up whenever the thread is not in a drain. A scan leaves a drain only when
nothing is left; a monitor may leave one earlier, and the invariant therefore
has to know that it has begun its only window. `EndpointImplementsQueue` rests on
`RecordsInv`: the cursor is always at the start of a record of the buffer, or at its
end. The queue of the abstract specification is the records from the cursor on,
each whole or cut, with the kernel's frames behind it (`QueueOf`); a read moves frames
from the second part to the first and leaves the queue as it was, and taking a
record is taking its head.

**`VendorUpdaterProofs`.** `ExposedTextsAreNotWritten` rests on `UpdateInv`: the inodes
of temporary files, those the registry has or may have again, and those that scans
have open stay apart; an inode is fresh when a run creates it because it is the
run's number. The invariant is needed because a process id is used again, with the
temporary file of an earlier process still there: what is truncated then must not
be what somebody reads. `UpdaterImplementsRegistryFile` adds `WorkInv` (which listings an
update has when it converts) and `TextInv` (a temporary file holds the
beginning of its update's text, and all of it once it is synced; every text the
registry has or may have again is whole; what a reader has got is the beginning of
what its file holds). A rename is then the one step in which the promised file
changes, and a power failure brings back one it had.

`NamesAreThoseListed` is about what the texts say (`WholeListings`): for any listings, any
prefixes and vendors, and whatever killed updates left in the directory, a lone update
publishes, and a scan that loaded the registry finds, the vendor of the last row with
the longest prefix of the address. Its argument has two parts.

- The texts. The conversion keeps one line for each prefix of a section, with the vendor of
  the last row that has it (`Records`, for `Insert`; `AreSections`, for the joined sections); an
  assignment that was accepted passes the parser's filter unchanged (`AcceptedPrefix`); of two
  lines with one prefix the parser keeps the later, which is of the later listing
  (`ParsedReflects`); and the length the lookup stops at is that of the closest owner
  (`NamesReflected`). `NamesFollow` joins these. A text that was refused has no part in it:
  a vendor with a line break leaves a line that does not parse.
- The files. `FollowInv` says, for an update that shares the directory with nobody: the files
  of the registries fetched so far, and those read so far, are whole listings of the ones
  served, and the file curl is writing is the beginning of the answer. This needs that curl
  truncates first, since the directory may hold longer files of an update that was killed; and
  that of two updates that overlap neither is taken for a lone one. `SourceInv` adds that every
  registry the directory has, or may have again after a power failure, gives the names of the
  listings its text was made from, and that a scan which has loaded has all of its file. The
  second half rests on `TextInv`.

**`ScanCommandProofs`.** Six results about the path from a command line to an open
endpoint.

- `ProbesAreAccepted`. `And` is a sum over bits, so its properties are proved through
  the partial sums (`Total`, `BitSplits`): a bit of a sum of distinct powers is the bit
  that was put in. `m & (m + 1) = 0` holds only for `m = 2^k - 1` (`ContiguousIsPrefix`),
  so the code's test accepts exactly the prefixes; `And` with a prefix is what is left
  of the address without its low bits (`AndMask`); the hosts between network and broadcast
  are then the interior of the block (`SubnetIsPrefix`). `TargetsAreAcceptedSenders`
  shows that the list of targets is what acceptance takes, each once, also where the
  interface has the address of the network or of the broadcast.
- `RunTypesKept`. `RunInv` is the agreement of stage, command, agenda and row: at every
  place the agenda still holds the questions whose answers the next stage
  takes (`Told`), so nothing is planned from an address that was never read.
- `EndpointIsOfOneInterface`. On Linux an invariant per place in an agenda says which
  moments of `past` the answers so far are from, and that they follow each other
  (`CommandInv`). On macOS (`RecordsCommandInv`) the same needs `ClassifiedIs`: the records are joined
  from those of all interfaces, and what the classification selects of them by
  position is what the one interface with the name had.
- `AcceptedLinesAreServed`. What the parser of the command line lets through meets the
  conditions of the conversion and of the library (`LineInv`), from the assumption
  `ParserAssumption` that the parser's ranges lie within the library's. TLC evaluates it for the numbers
  that stand in the two sources.
- `RunsEndAsFound` and `FailuresHideAtMostOneEach`. Properties of whole runs in which the
  interfaces stay as they are, so their invariant (`CalmInv`) has a part for every stage. The
  questions of an agenda are settled in their order (`AgendaPart`), each by what is true of the
  interface (`Settled`). In an enumeration every usable interface is ahead, looked at, or a
  candidate, never two of these, but for as many as calls have failed (`Missed`); the candidates
  are usable and sorted (`EnumerationPart`), which insertion by index keeps. What is performed
  and opened is one of the interfaces the run may want, and these are at most one more than the
  failures (`ChoicePart`, `FoundPart`). A refusal that is not a failure means that the interface is
  not usable: each condition of `Usable` is one of the questions. On macOS the answers come
  from `ClassifiedIs`. Without failures nothing is missed and one interface is wanted, which is
  `EndsAsFound`; with them the one candidate left need not be the only usable interface, which
  the count allows for.

**`LibraryLemmas`.** Neither the library's induction theorems nor a power with a symbolic
exponent can be used by the provers directly. Induction is therefore done over sets
(every nonempty set of naturals has a least element), a recursive function exists and
equals its equation (`Recursion`), and `2^n` is bounded and split through its recursion. With
those, sums over bits, positions in joined sequences (`FlattenSeq`), sequences built step by
step (`StepsExist`) and repeated squaring are proved about.

Assumptions are the `ASSUME`s of the modules, each named: types of the
constants; for the scan that targets are among the addresses and that there
is at least one round; for `ScanCommand` that lines and tables are of their type, that
two interfaces of a table never have one index, as in any kernel, and that the values for
"none" and "absent" are no plan, command, address or set of flags; for the updater that no
registry occurs twice in `IeeeMacRegistry::ALL` and that an assignment is a sequence of
characters; for the command line that the parser's ranges of tags lie within the library's.

Only model-checked:

- `Terminates` (of the scan and of the monitor) and `NothingLeftBehind`, the properties under
  fairness: liveness and `ENABLED` are beyond the prover.

## 5. What is not modelled, and why

- Printed lines, help, texts of errors and exit codes beyond which error ends the
  run; the text forms of addresses, prefixes and numbers; CSV quoting; comments in the
  registry file. No property is about them and the repository's tests go through
  them line by line.
- System-call wrappers and the layout of socket addresses and interface
  requests: FFI; their results are the outcomes the actions choose from.
- Builders of the library that no command calls: ARP probes and announcements,
  parsing of a CIDR.
- Copies of sent frames that come back on a socket for all protocols, and the
  memory that warnings take.
- The minimum of the monitor's `--timeout-ms`, which the parser checks (`fits`
  stands for every timeout that is refused), and the lines that only ask for help or version: both
  end in the parser, before anything is asked of the system.
- What should become of the hosts of earlier windows when a later one fails: the code returns the
  error and reports nothing, and `HostTable` lets a scan fail so.
- Conformance tests, fuzz targets, site and CI: they are read as statements about
  the program.

About two thirds of the repository's lines of Rust are `#[cfg(test)]` modules, test
files and doc comments, which no definition translates. Of the code that runs,
more than 40 % is named by the map; most of the rest is what this section lists.

## 6. Plan

Done: scan engine, timing, monitor, capture on both platforms, plan, command with
discovery, updater, and the proofs of section 4. Every safety property of a passing run
that quantifies over states or steps is now a theorem; left to TLC are the properties under fairness.
