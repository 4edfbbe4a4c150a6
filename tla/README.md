# Formal model of the FTM-50S ramdisk

The FTM-50S is a cellular (HSDPA) router. Its ramdisk holds, beside vendored
packages, shell daemons that keep the cellular link up and configure it by short
message, scripts for boot, factory reset and firmware upgrade, C daemons (modem
monitor, serial gateway), and a web interface of CGI programs. This directory holds
TLA+ models of the repository's own code and of the two vendored daemons that decide
whether the router has a link and its LAN has addresses (pppd and busybox's udhcpd), TLC
configurations that check them on small instances, and proofs checked by TLAPS.

`PROJECT.json` lists every component, run, mutant, hazard and theorem, and maps every
definition to the lines it models.

## The system and its parts

The programs share no memory except the session pool. They interact through files, the
process table and the modem line, and almost nothing locks any of these. That is where
the hazards are, and what the models are about: two processes at the same file, a
value read in one command and used in a later one, a power loss in between. The two
daemons speak protocols with peers that lose, delay and repeat messages; there the
hazards are timers, callbacks and state that outlives a session.

| Part | Code | Model |
|---|---|---|
| Connection monitor, rejection daemon | `new_mmon_0624`, `nwcause_dmon` | PppMonitor |
| Web sessions | `ssid.c`, `main.c`, `public.c` | SsidPool, SessionTable |
| Boot and configuration tree | `rc.sysinit` | BootConfig |
| Factory reset | `init.sh`, `factory_reset_dmon`, `uitool/init.c` | BootConfig |
| Configuration by short message | `sms_dmon_0624`, `get_new_sms.sh`, `init_modem_log` | SmsConfig |
| Firmware upgrade | `system.c`, `update_*.sh`, `fwmng` | FwUpgrade |
| Data usage | `data_dmon`, `killpppd.sh`, `reboot.sh`, `init.sh` | DataUsage |
| DHCP, firewall, network and profile pages | `dhcp.c`, `netfilter.c`, `network.c`, `system.c`, `profile.c` | WebConfig |
| PPP negotiation | `fsm.c`, `lcp.c` of ppp-2.4.5 | PppFsm, PppLink |
| PPP daemon | `main.c`, `auth.c`, `lcp.c`, `ipcp.c` of ppp-2.4.5 | Pppd |
| DHCP server | `networking/udhcp` of busybox, `init.d/save/udhcpd` | Udhcpd |
| USB mode daemon | `dm_dmon` | partly, in SmsConfig |
| Services, task monitor | `service`, `taskmon`, `check_taskmon` | partly, in WebConfig |
| Modem monitor in C | `apps/mmon` | not started on the device |
| Serial gateway | `apps/ftmbcc` | planned |
| AT command pages | `uitool` | planned |
| SSL pages, configuration archive | `sslplus.c`, `secuwayssl.c`, `config_*.sh` | planned |
| OTA page, fota, older daemons | | not started on the device, or pure I/O |
| Status pages | `syslog.c`, `page.c`, ... | change no state |
| Other vendored packages, build | | external |

## How properties are stated

Much of this code has no defence against some accident: a second request at the same
time, a power loss during a copy. A property that ignored this would be false, and one
that excluded too much would say nothing. Each model therefore records, in history
variables that no guard of the code's steps reads, the accidents that have happened (`damage`,
`accidents`, `mishaps`, `spoilt`, `excess`, `torn`, `disturbed`, `excused`). The property is stated for
behaviours without the accidents that can break it, and for those only. What the
exceptions amount to is in the hazards of `PROJECT.json`.

Type invariants are proved, as every proof rests on one; no run checks types. Every property of a run has a
mutant: a plausible bug in the code that it catches. The mutated
definition stands in the module just before the original.

## Modules, state and actions

**PppMonitor.** `STAT`, `RETRY` and `RSSI_RETRY` are the monitor's shell variables; one
action is one branch of its `case`, polled once a second. `NEXT_STAT` is not a
variable: the two agree between polls. Where a branch reads `/tmp/nwcause` and then
starts pppd, the two are separate steps (`monPc = "dial"` between them), so that
`nwcause_dmon` may write the file and run `killall pppd` in the gap. pppd is external:
`fresh` counts processes not yet at the lock of the serial line, `line` is the one that
holds it. Anyone may kill pppd (the SMS daemon, the APN and QoS pages). `Settle` marks
the moment after which modem and network work for good.

**SsidPool.** The three bucket arrays and `nValidTime` are the shared segment. A CGI
process reads the clock, checks its tag, saves it again and serves the request; `pc[p]`
is its place. One pass over the buckets is one step, each write after it a step of its
own; creating and zeroing the segment are separate steps, and when the segment cannot be
created the request goes on without having been saved. The clock may move either way. `disturbed` holds the tags of requests that overlapped another one.

**SessionTable** is what the pool promises: a table of sessions with expiry dates.
SsidPool maps the pool to it by `PoolDates` (a bucket whose date is about to be written
counts with that date).

**BootConfig.** `rcPc` walks through rc.sysinit, `rpc[r]` through a run of init.sh; `rm`
and `cp` handle one file per step in any order. `entry` is the tree on `/mnt/mtd`,
`hidden` the flash when its mount failed and the files go to the tmpfs below,
`etcInit` the default tree in RAM. Daemons and pages save files at any time. A reset of a
device whose flash was not mounted works on the tree in RAM: `ResetRestores` is claimed for
a mounted flash, and `SavedFilesStay` says that otherwise the flash is left alone. The one
script that a page removes (`dhcp.c:274`) is in WebConfig and not here.

**SmsConfig.** `state` is the daemon's state. The daemon writes commands into `queue`;
the modem executes them and puts its answer into `out`; a background `cat` moves rows
to the log, of which the model keeps what the scripts look at: whether there is an
`AT+CMGR` row and the first two rows after the last one. Other users of the modem,
`init_modem_log` and the `killall cat` of dm_dmon disturb the log.

**FwUpgrade.** `pc[p]` is the step of a page and the script and fwmng it started; images
have N blocks; `/tmp/fwmng.txt` is modelled with inodes, since a script may remove the
file while another one's fwmng still writes to it. That a page asks for the upgrade only
after its upload was accepted is the page's script (`system_firmware.js`); the CGI runs
the script that the name of the file asks for, and none for another name. fwmng may fail
to start (`FwmngFails`), after which the script starts over.

**DataUsage.** `cur` and `init` are the two files. A shell redirection is two steps,
truncation and write. `Blank` is what `expr` yields from an empty file. The rest of init.sh
goes step by step, too: it unlinks the two files, removes their directory (`dir`) unless
data_dmon has made a file in it again, waits, copies the firmware's files, waits, and
reboots; meanwhile data_dmon and another script go on. `spoilt` and `excess` keep the first
accident that can spoil the total or make it too high.

**WebConfig.** A behaviour is about one page, chosen in Init, since the pages share no
file. A file has a head and a tail, and the profile a timeout, which
FTMC_LoadProfileConfig reads as 0 unless it is negative. The request writes its file in `/tmp`, `cp`
truncates the one in `/etc` and copies, and the service is restarted; each is a step.
`run` is what is in force: the files the running udhcpds have read or the rules in the
kernel.

**PppFsm** is the automaton of `fsm.c`, which LCP and IPCP share, as operators on a
record: one operator for each entry point. A call appends what it sends to `out` and the
callbacks it makes to `calls`; `timer` counts the callouts that TIMEOUT has put on the
list and UNTIMEOUT or an expiry has taken off. The options of a protocol are one option,
which may be agreed to, Nak'ed with another value, or rejected.

**PppLink** composes two such automata over a serial line, `line[e]` being the packets
on their way to end e. The line may lose packets, a timer may expire while the answer is
on its way, carrier may drop at one end only, either end may be told to quit, and a new
process starts with a fresh automaton while packets of the session before are still on
the line. `up[e]` counts the calls of `lcp_up` less those of `lcp_down`.

**Pppd** is one pppd process. Its state is one record `d`, since the callbacks of the two
automata call into each other (LCP up starts IPCP, IPCP's end closes LCP), and each
function of the code is an operator on it. An action is one event of the main loop: a
packet, a timer, a signal, a hangup, the end of a script. The peer is not modelled; any
packet may arrive at any time. `Env` chooses what the system calls return: the address
is refused, it is set but the interface does not come up, a script is absent or its fork
fails.

**Udhcpd** is the DHCP server: `leases` is `g_leases`, `file` the leases file on the
ramdisk. A handler is one action, but the search for a free address goes one address per
step, since the server waits for ARP answers while time passes and clients act, and the
file is loaded record by record. Clients are external, as RFC 2131 has them. A message
once sent may be received at any time, any number of times or never. `excused` holds the
clients whose lease the server cannot be expected to know: their own late message took
it back, or it went with the ramdisk, a leap of the clock or a changed configuration.

## Runs

| Run | Instance | What it shows |
|---|---|---|
| `ppp` | limits 3 and 3 as in the code, 2 starting pppds | At most 1 + MAX_RETRY dials without seeing the link or resting; a redial never meets another pppd; at most one dial after a rejection; a rejection is final; once disturbances cease the link comes up and stays. |
| `ssid_concurrent` | 2 processes, 2 tags, 2 buckets | Under all interleavings, requests are served only for tags a login made; sessions whose requests were not overlapped time out and log out for good. |
| `ssid_sequential` | 1 process, 3 tags, 2 buckets | The pool implements SessionTable, also when a login finds it full. |
| `boot` | 2 files, 2 callers of init.sh, 3 power losses | Which accidents must precede a boot that misses a file; what a reset restores on a mounted flash; that only a reset loses a saved file; a reset comes to its reboot although files keep being saved. |
| `sms_safety` | 2 configurations, 1 ordinary message | None lost, none applied twice, pppd restarted with the settings of one message. |
| `sms_liveness` | 1 configuration, 1 ordinary message | Configurations are handled; slot 1 is freed. |
| `fw` | 2 pages, 2 uploads of a kernel, a ramdisk, an image with another name or a file that is none, 2 blocks, a failing write or start of fwmng, a power cut | "OK" means installed; a refused file stays out of the flash; partitions are whole between scripts; upgrades end. |
| `usage` | 2 scripts, resets among them, 2 connections, 1 restart | The total is the sum of what was added since the files were the firmware's, and never more than was transferred since. |
| `web` | 2 requests, 2 values, 2 cuts | A request that was not overlapped has its full effect, but for the profile's timeout, whatever was left behind; files are whole unless torn. |
| `ppplink` | 2 ends that want different values, 3 processes, 1 quit, 1 fault | Timers and callbacks are in step with the states; open ends agree on the options; without a fault no end stays open alone; every negotiation ends in OPENED or in an exit. |
| `pppd` | any packets, echo failure off and 1, 1 signal | IPCP runs only over an open LCP; one echo timer; interface, scripts, phase and counters fit the state of IPCP; the main loop is left clean; a signal ends the process. |
| `udhcpd` | 2 clients, 2 addresses of which a foreign station has one, static leases by a restart, 1 restart, cut or change of the clock | The table names nobody twice; two clients never hold one address unless excused; reserved addresses stay reserved until a restart. |

### Bounds, and why they are enough

The named bounds (`MaxFresh`, `MaxTime`, `MaxOffs`, `MaxNoise`, `MaxQueue`, `MaxUploads`,
`MaxBad`, `MaxCuts`, `MaxPowerCuts`, `MaxCount`, `MaxTotal`, `MaxConn`, `MaxStarts`, `MaxKills`,
`MaxFaults`, `MaxLine`, `MaxSignals`, `MaxNaks`, `MaxNet`) are guards of environment
actions, with these exceptions: the monitor does not dial while MaxFresh pppds are still
starting (seconds apart in the code), the SMS daemon does not ask the modem again while
MaxQueue commands wait, a script of DataUsage does not start with a total above MaxTotal,
an end of PppLink acts only while its packets fit into MaxLine, and udhcpd writes its
file on a timer only while a restart may still follow.
Two processes show every race between two; nothing in the code counts its competitors.
`MaxTime = 3` with `VALID_TIME = 1` is the least in which a session can expire after a
refresh (with 2 the mutant of `IdleTimeout` survives). A pool of two buckets can be empty,
partly and wholly filled; three tags overfill it. The two files of `boot` are the boot
script and the file a reset keeps; the proofs cover any others. Two blocks give an image
a half-written state. In `fw` two uploads are enough for every interference (a file
replaced after its check, two scripts at once) and for an upload after a restart.

In `ppplink` the router's end insists on its value and the network's end wants another:
acceptance, a Nak that is taken, Naks up to the limit and rejection all happen. Eight
identifiers are more than one session uses between a restart and the next, so that a stale
answer can match by its number only as it can in the code, where every process starts at
0. In `pppd` a packet with another identifier than the outstanding one is dropped without
effect, so one identifier is enough. In `udhcpd` the two clients compete for one address,
the table has two slots, and a third of the time range is a lease; the proofs cover all
sizes. Symmetry is used for safety only, over sets whose members no definition tells
apart.

CHECK_DEADLOCK is off where the system really may stop: a device that has been
switched off for the last time of its bound, pages after their last upload, a pppd that
has exited, and DataUsage, PppLink and Udhcpd at their bounds.

### Fairness

Weak fairness is assumed of single programs only: the monitor's and the daemons'
polling loops and pppd's own progress (PppMonitor), the boot and reset scripts
(BootConfig), the daemon, the modem and the restart of the log reader (SmsConfig), and
each page's script (FwUpgrade). Each is a loop or a straight script with sleeps that
the kernel schedules. Nothing is assumed of the network, of users, of power, or of the
accidents. In SmsConfig the step that finds the modem ready has a fairness condition of
its own, which says that the modem is there in the end: one that never answers keeps
the daemon in its first state. In FwUpgrade failing
writes are bounded; the script itself would retry for ever.

PppLink and Pppd also need that timers run out: the expiry of a restart timer has strong
fairness, since packets that keep arriving disable and enable it, and the callout list
does not forget an entry. In PppLink the line delivers, and the supervisor (PppMonitor)
starts a pppd again; nothing is assumed of faults, signals or the peer of Pppd.

## Proofs

The theorems hold for every value of the constants under the named assumptions, which
only say that limits and bounds are natural numbers and that special values differ from
ordinary ones and from each other. A proof module EXTENDS the models it is about. Where it
extends several, they are independent of each other: their variables and definitions have
different names, and each theorem is about one of them (`WebSpec => []WholeUnlessTorn`)
and cites only that one's assumptions. Each safety invariant that a run checks is proved,
but for two of PppLink, and so is the refinement of the session pool. None of the properties is inductive as it stands; each paragraph
says what had to be added.

**SsidPoolProofs** (`TypeCorrect`, `NoSessionFromNowhere`, `SessionsTimeOut`,
`LogoutsAreFinal`, `PoolImplementsTable`; from `PoolAssumption`). Any number of processes,
buckets and tags. The invariant `IInv` says that tags in the pool come from logins
(`Origin`), that the tag of an undisturbed session stands in one bucket, which is valid
(`Copies`, `Claiming`, `Holding`), that its date is that of its last save and no other
process is about to write there (`Saved`, `Dated`, `Writer`), and that a request of an
undisturbed session runs alone (`Alone`). Without `Copies` a logout could leave a second
copy; without `Made` and `Window` a pool being zeroed could change a date. A request that
is served although nothing could be saved (`PoolNotMade`) finds no bucket of its own.

`PoolImplementsTable` (`Spec => Table!Spec`) has the hypothesis that there is one process
(`Sequential`, `Procs # {}`), since overlapping requests do not implement the table; buckets,
tags and times stay arbitrary. `SeqInv` adds what then holds of the pool: nobody is
disturbed, every valid bucket has a tag, but for the one that is being claimed (`Named`), a
login's tag is new (`Fresh`), a bucket is claimed when it is free or all are taken (`Room`),
and a request that renews its date is in time (`Punctual`). With it `PoolDates` lists each
tag in the pool once, with its date (`DatesOK`). The write of the tag is then the table's
`Login`, the write of the date after a check its `Use`, a failed check its `Expire`, and the
`memset` of a logout its `Logout`; every other step leaves the table alone. That a login
evicts exactly when the table is full rests on `TableSize`: tags and taken buckets are as
many, by a bijection.

**ModemProofs: the connection monitor** (`MonTypeCorrect`, `DialsAreBounded`,
`RedialsAreNotWasted`, `LateDialsAreBounded`; from `RetryAssumption`, `FreshAssumption`).
A state with few redials counted and many made would satisfy `DialBudget`. `DialCount`
adds the exact relation, `dials = RETRY + 1` in the two redialling states and 0 before
the first dial. `DialGap` says that between the monitor's `pidof` and its dial no pppd
can appear; `Forbidden` ties the stop file to the step of nwcause_dmon.

**FlashProofs: firmware upgrade** (`DoneMeansInstalled`, `RefusedFilesStayOut`,
`DeviceCanStart`; from FwUpgrade's assumptions). Any pages, images, partitions and number
of blocks. `FileInv` says what of `/tmp/new_fw` the last uploader has written or checked;
`ScriptInv` that a script without another beside it writes to the result file it will
read, and finds "success" there only after it has compared every block; `SwapInv` and
`PartInv` that without mishaps each running script has a checked image of its own and
that only its partition may be part old and part new. A script runs only for an image
whose name asks for a partition (`FwTypeOK`).

**FlashProofs: boot and factory reset** (`BootTypeCorrect`, `BootsUnlessDamaged`,
`ResetsRestoreDefaults`, `OnlyResetsLoseFiles`; from `TreeAssumption`). The invariant gives
the tree at every step of both scripts: whole or absent where power may go without
damage, otherwise complete outside the files that the running `cp` or `rm` has still to
handle.

**ModemProofs: short messages** (`PppdRestartsWithSettings`, `MessagesAppliedOnce`,
`ConfigurationsAreKept`; from `MsgAssumption`, by which no message is one of the modem's
own rows). `Settings` says that the modem has a setting or that the last command in the
queue that sets it will give it. `CleanInv` follows the one exchange that is under way:
which commands may wait in each state of the daemon (`Shape`), how far the answer to
`AT+CMGR=1` has come, row by row (`Exchange`), and that a message in slot 1 that was
applied is about to be deleted (`Counts`). `KeptInv` says that a waiting deletion is for a
message that was applied or is no configuration.

**FlashProofs: the pages** (`SettingsApply`, `FilesAreWhole`; from `WebAssumption`). Any
number of requests and values. `WebFileInv` says that a request that runs alone finds in
`/tmp` and `/etc` what it wrote there; `GoalInv` gives, step by step, what such a request
has brought about so far, also when it began with a file, a script or a daemon that
overlapping requests or a power cut left behind; `SettledInv` that nothing has changed
since.

**ModemProofs: data usage** (`TotalsAreSums`, `TotalsAreNotTooHigh`; they need no
assumption). `NoOvercount` needs an account of what is not added yet: the counter of the
present connection, `$data` and `curData` may hold the same connection, and `Pending`
counts each once. `RoomInv` says that every total that a script has in hand, added to
what is pending, is within what was transferred. `HandInv` says at which steps a script has
such a total in hand, and `SumInv` that a number or a file is missing only while a script is
writing or resetting.

**PppFsmProofs** (`InputSound`; from `FsmAssumption`). Every operator of PppFsm is `Sound`:
from an automaton in order it makes one in order (`FsmOK`: one callout exactly in the
states that wait, and an answer already counted in ACKRCVD and OPENED), and its callbacks
report exactly the entries into and exits from OPENED. The lemmas follow a call by the
four things that matter of its result (`Is`: state, callouts, callbacks, seen_ack).

**PppLinkProofs** (`LinkTypeCorrect`, `LinkAutomataOK`, `LinkUpperInStep`; from
`FsmAssumption` and `LinkAssumption`). `LinkInv` adds to the properties that no callback is
left over between two actions and that an end without a process is in INITIAL; each
action is one or two sound calls. It holds for all values, profiles, limits and numbers of
faults.

**PppdProofs** (`IpcpStaysInStep`, `EchoTimerIsOne`, `InterfaceInStep`, `ScriptsInStep`,
`ExitIsClean`; from `FsmAssumption`). The callbacks of the two
automata call into each other, so there are two levels. `Mid` holds between two calls,
also in the middle of closing LCP: interface, counters and scripts fit the state of IPCP
(`Net`), the echo timer agrees with its flag, and IPCP is INITIAL with nothing open
unless LCP is OPENED. `DaemonInv` holds between two events: it adds that while LCP is
open one network protocol is (`Stays`), and that the phase DEAD finds LCP in INITIAL or
STARTING. Soundness of the automata leaves five possible lists of callbacks; one lemma
for LCP (`LcpCallsInv`) and one for IPCP (`IpcpCallsInv`) handle them, and each event of
the main loop applies one of the two.

**UdhcpdServer, UdhcpdProofs** (`LeaseTypeCorrect`, `LeaseTableUnique`, `LeaseExclusive`,
`ReservationsAreKept`; from `UdhcpdAssumption`). `NoDoubleLease` speaks of what clients
believe and is far from inductive. `LeaseInv` says that every client entitled to its
lease has it in the file, unless it was lost with it (`FileBacked`), and, while the server
runs, in the table, or among the records still to be loaded (`TableBacked`), to expire no
sooner than the client thinks; that neither the table nor the file names an address or a
client twice; that clients and table keep to the lease block and to their kind of lease
(`InBlock`, `StaticHold`, `Dynamic`); and what the search and the loading loop may assume
(`ScanInv`, `LoadInv`). Two clients with one address would need one slot with two
clients. `Reservations` adds, for a server that was never stopped, the slot of every
reserved address. The first module holds the operators of `leases.c` and the handlers of
messages, the second restarts, the loading of the file and the theorems. That a set of
numbers has a least one, on which `find_lease_by_mac` and its like rest, is a hypothesis of
the lemmas (`LeastNumber`) which UdhcpdProofs proves.

Only model-checked:

- all liveness properties, which are out of the prover's reach;
- `OptionsAgree` and `NoHalfOpen` of PppLink. Identifiers wrap around and start again at
  0 with every process, so that whether a stale answer can match depends on how many
  packets are on the line and on `IdMod`: the two are properties of the bounds as much as
  of the code, and are not claimed for other values.

## What the models show beside the properties

Where a property is qualified, the unqualified one is false, and TLC shows why:

- Without its condition on `noLower`, `SignalEnds` fails: when `ppp_send_config` fails,
  `lcp_lowerup` (`lcp.c:433`) returns without a word, LCP stays in STARTING with no timer,
  and `lcp_close` leaves the main loop running.
- After a failed fork, `ipcp_script_pid` is -1 (`ipcp.c:2086`) and neither script is run
  again in that process.
- After a restart `ReservationKept` fails: `read_leases` hands the six zero bytes of a
  reserved address to `add_lease`, which clears every other slot with that "MAC"
  (`files.c:200`).
- The first change of location or password sets the profile's timeout to 0: the test in
  `profile.c:87` keeps negative values only. `SettledApplies` says so. Nothing but a page
  that shows it uses the value.
- A factory reset of a device that booted without its flash has no effect after the reboot
  (`rc.sysinit:149`), so that `ResetRestores` needs the mounted flash.
- A DISCOVER that arrives late cuts the lease of a client that is bound again to
  `offer_time` (`dhcpd.c:198`); `NoDoubleLease` excuses that client until its next ACK.

## Abstractions

- jffs2 writes are durable in the order they are made; a write of one small file is one
  step, after its truncation. stdio buffers are written once, at `fclose`.
- Messages, images, settings and tags are model values; a tag made by a login is new.
- Passes over the buckets are atomic; 32-bit time does not wrap (2038).
- One counter stands for received and sent data, which are handled alike.
- The comparison of flash and file exists in the shipped fwmng binary (option `-U`) and
  not in the source of this repository. It is modelled as the scripts use it and marked
  external, as are the modem, `iptables-restore` and the shell tools. PppMonitor and
  WebConfig see pppd and udhcpd from outside; Pppd and Udhcpd model their insides.
- The LCP and IPCP options of a protocol are one option; the magic number, authentication,
  compression, multilink, demand and persist are left out (the router's options leave
  them off), and pppd's echo requests are counted up to the limit they are compared with.
- udhcpd's addresses are numbers of the lease block; host names, options, the search
  order by hash (not configured) and the packet format are left out.
- In WebConfig and DataUsage a boot is one step; BootConfig has its steps. Both assume that
  the flash is mounted. In DataUsage the removal of the two files is one step (a power cut
  between them counts as one during the removal), and so is their copying.
- `shmat` succeeds on a segment that exists.
- In SmsConfig the two looks of get_new_sms.sh at the header of the answer are one step, and
  the pages that also send settings to the modem (`apn.c`, `qos.c`) are not among its writers.

## Not modelled, and the plan

In this order:

1. ftmbcc: the parent that forks and watches a task, the task's reconnecting loop.
2. The AT command pages: a page writes a command and reads the shared log, as the
   daemons do; composed with the log of SmsConfig.
3. dm_dmon as a state machine of its own; the configuration archive as one more writer of
   WebConfig's files; the SSL pages as a variation of WebConfig.
4. A bound on packets in flight and identifiers under which `OptionsAgree` can be proved.

Left out for good: the other vendored packages and the build (other projects' code, most
of it never run), status pages (they format what they read), and what no script starts:
mmon (its serial reader is not even reached from `MMON_Main`), taskmon and crond (which
would start each other, and nothing starts either), fota and the older daemons; and the
OTA page, which talks to the modem and stops mmon. That a link may be dead while `ppp0`
exists is outside: with lcp-echo-failure commented out in the router's options nothing in
the code can tell the two apart.
