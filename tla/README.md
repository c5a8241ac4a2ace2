# A TLA+ model of lima-container

`lima-container` packages [Lima](https://lima-vm.io) in a container with a web
dashboard. The dashboard, `lima-web` (Go, `web/`), runs `limactl` and `podman`
as child processes, keeps two in-memory registries (consoles, builds) and
proxies browser WebSockets to the virtual machines. Shell scripts (`scripts/`)
start the container, choose templates and find display ports.

This directory holds TLA+ modules of that program, TLC configurations that
check them on small instances, and proofs, checked by TLAPS, that hold for
every value of the constants.

Contents: [Inventory](#inventory) · [Plan](#plan) ·
[The modules](#the-modules) · [The runs](#the-runs) · [Fairness](#fairness) ·
[Proofs](#proofs) · [Disagreements found](#disagreements-found) ·
[Not modelled](#not-modelled)

## Inventory

### Components, their state and operations

| Component | State | Operations |
|---|---|---|
| Instance handlers, `web/handlers.go` | none of their own | start, stop, restart, delete, create: each a sequence of registry updates and limactl commands |
| `LimaCtl`, `web/lima.go` | `writeMu` | Start, Stop, Delete, Create, CreateBootc under `writeMu`; List, Info, IsRunning without it |
| `VNCManager`, `web/vnc.go` | `entries` under `mu` | StartVNC (reads the `vncdisplay` file, registers), StopVNC, GetVNCInfo |
| VNC proxy, `web/vnc.go` | per session: WebSocket, TCP connection, two relay goroutines, `done` channel | HandleVNCProxy |
| Startup scan, `web/main.go` | none | list, one StartVNC per running instance, then serve |
| `BootcManager`, `web/bootc.go` | `builds` under `mu`; per build a directory, an image tag, a log, a status | StartBuild, runBuild, markFailed, ListBuilds, GetBuild |
| Build log stream, `web/bootc.go` | a scanner over the log | StreamLog |
| Uploads, `web/upload.go` | upload directory, installed templates | HandleUploadImage, HandleFetchImage/fetchAndCreate, SaveFile, copyFile |
| `RDPManager`, `web/rdp.go` | `entries` (never filled by the program) | RDCleanPath handshake, relay |
| Remote desktop enablement, `web/grdctl.go` | settings in the guest | EnableGRD, type detection |
| Shell, `web/shell.go` | pty, child process | ShellWS |
| limactl output, `web/lima.go` | none | parseNDJSON, extractLimaError |
| Dashboard, `web/templates.go`, `web/static/` | browser state | rendering, API calls, terminals |
| `scripts/lima-up.sh` | none | template choice, environment, start or retarget |
| Entrypoints, `scripts/entrypoint*.sh`, `preflight.sh`, `lima-as-user.sh` | processes of the container | start lima-web, auto-start a VM |
| Plain variant, `scripts/lima-*-vnc-port.sh`, `lima-websocket-bridge.sh` | the port file | find the display port, retarget the bridge |
| `scripts/qemu-tcg-wrapper.sh` | none | rewrite QEMU's arguments |
| First boot, `images/yellowfin/setup-rdp.sh` | marker file | set up RDP once |
| limactl, podman, QEMU, guests, browsers | VMs, images, display ports, `vncdisplay` files | external |

### How they interact

* Every HTTP request has its own goroutine. Handlers share `writeMu`, the VNC
  registry and the build map, and, through limactl, the machines.
* Machines also change behind lima-web's back: a guest powers off, QEMU dies,
  the entrypoint's auto-start or a shell user runs limactl.
* The console registry is a *cache* of what runs and where. Stop, restart and
  delete withdraw the entry before the machine changes; start, create, restart
  and upload put it back afterwards, from a file QEMU leaves behind. None of it
  is atomic, and proxies read the entry first and dial later.
* A bootc build runs seven children over a workspace named by its ID, then
  makes a VM through `LimaCtl`, but never calls `StartVNC`.
* A log stream reads a file the build is still writing.
* Uploads save a file under a name made of the clock and the client's name for
  it, install templates under the latter alone, and run `lima-up`, which writes
  templates of its own to `/tmp`, runs limactl outside `writeMu` and points the
  plain variant's bridge at a display.
* A terminal is a pty with `limactl shell`: the handler is itself one of its two
  relays, so that only the browser's side wakes it.
* All of lima-web's state is in memory. After a restart only the scan of
  running instances restores consoles; builds are forgotten.

### What is hard

Interleavings of requests on one instance; requests failing between their
steps; ports that change hands between look-up and dial; two goroutines and a
handler that must all end when one connection does; clean-up on each of a
build's failure paths; builds in the same millisecond; completion inferred from
`IsRunning`; a scanner with a sticky end of file; files shared by name; a
terminal whose ends go in any order; a first boot that is cut off; restarts.
The `hazards` of
`PROJECT.json` give each with its line and the properties that cover it.

### What makes each component correct

* **Handlers, LimaCtl, VNC registry**: mutating commands do not overlap; the
  lock is released on every path; the registry agrees with the machines unless
  requests on one instance overlapped; every answer is true when it is given.
* **VNC proxy**: it reaches the machine that was asked for; it is torn down
  when either end goes away.
* **Startup scan**: what ran when lima-web started has its console.
* **bootc builds**: a build works on its own disk and image; it ends, with
  nothing left behind that could be removed and a status that never changes
  again; a complete build made the VM.
* **Log stream**: it ends with the build; a late stream is complete.
* **Uploads, fetch**: a machine is made of the bytes its own client sent; a
  failed save leaves nothing behind.
* **Shell**: when browser, shell or machine goes, the terminal goes.
* **limactl output**: the two readers of the list agree; the error shown is the
  one that matters.
* **RDP proxy**: handshake bytes reach the right side in order; tear-down.
* **GRD**: no half-enabled desktop is reported as enabled; every request is
  answered, unless its guest keeps a command for ever.
* **Scripts**: the detected port is that of the machine that was started; the
  rewritten command line needs no KVM and has a drive for firmware variables.
* **First boot**: the marker stands for a complete configuration, and repeated
  boots reach it.

## Plan

| # | Module | Content | Checked | Proved, or worth proving |
|---|---|---|---|---|
| 1 | `LimaWeb` | handlers, `LimaCtl`, VNC registry, startup scan, machines | done | done (`LimaWebProofs`) |
| 2 | `VncProxy` (extends 1) | proxy sessions | done | done (`VncProxyProofs`) |
| 3 | `BootcBuild` | builds and their workspaces | done | done (`BootcBuildProofs`) |
| 4 | `BuildLog` (extends 3) | log stream against its writer | done | done (`BootcBuildProofs`) |
| 5 | `RemoteDesktop` | RDP enablement in guests, RDCleanPath sessions | done | done (`RemoteDesktopProofs`) |
| 6 | `SerialLimactl` | abstract: one mutating limactl at a time | `LimaWeb` implements it | done (`LimaWebProofs`) |
| 7 | `BuildLifecycle` | abstract: a build runs once and concludes once | `BootcBuild` implements it | done (`BootcBuildProofs`) |
| 8 | `Uploads` | uploads, fetches, lima-up, the bridge's port | done | done (`UploadsProofs`) |
| 9 | `ShellWs` (extends 1) | terminals | done | safety done (`ShellWsProofs`); liveness: TLC only |
| 10 | `LimaOutput`, `QemuWrapper` | parsing and argument rewriting as operators | done | done (`FunctionsProofs`) |
| 11 | `FirstBoot` | Containerfile, first boot, marker, power loss | done | done (`FirstBootProofs`) |

Composition: `VncProxy` and `ShellWs` extend `LimaWeb`, the first adding sessions
to its every step, the second terminals beside it;
`BuildLog` extends `BootcBuild` and adds the log and its reader to every step;
`BootcBuild` treats the rest of the server as `Outside`, and `LimaWeb` treats a
build as its last step, the `bootc` operation.

## The modules

### `LimaWeb`

| TLA+ | Code |
|---|---|
| `vm`, `port`, `display` | limactl's status of an instance, the port its QEMU listens on, its `vncdisplay` file (external) |
| `entries` | `VNCManager.entries`, reduced to the port |
| `writeMu` | `LimaCtl.writeMu`, with its holder |
| `req[r]` | the goroutine of a request: operation, instance, the limactl command it is at, its place in the handler |
| `boot`, `toScan` | where `main` is, what the scan has yet to register |
| `disturbed`, `req[r].alone` | history variables, read by properties only |

A handler is cut where another goroutine can see the difference: at the
registry (one step, it is whole under `VNCManager.mu`), at `writeMu.Lock`, when
the limactl child takes effect, when it returns (the deferred unlock is in that
step, on success and failure), at `IsRunning`, and at the answer. Each
operation is one action that puts the request at its first step:
`StartInstance`, `StopInstance`, `RestartInstance`, `DeleteInstance`,
`CreateInstance`, `BootcInstance` (the last step of a build), `UploadInstance`
(lima-up, which takes no lock). `AfterSuccess` says where a handler goes next.

limactl is external. A command may fail before or after it took effect. `start`
on a running machine changes nothing; a start may come up without a display;
`stop` leaves the `vncdisplay` file behind, `delete` does not. `Outside` is every
change lima-web does not make; `Crash` is a restart of lima-web, with or without
the machines.

### `VncProxy`

Extends `LimaWeb` with `session`: look-up under the lock (`Lookup`), `Upgrade`,
`Dial` to whichever machine listens on the remembered port *now*, two relay
goroutines (`toWs`, `toTcp`), the single receive from `done` (`HandlerReturns`),
the end of it all (`Gone`). Each server step also lets sessions `Observe` it: a
QEMU that ends drops its connections. Bytes are not modelled.

### `BootcBuild`

`StartBuild` names a build after the clock (milliseconds), enters it in the map
and spawns `runBuild`; one action per stage of `runBuild`, each with its failure,
and the deferred removals of the raw disk and the derived image in their order.
`raw`, `image` and `qcow2` say *whose* system is in a file, so that a mix-up of
workspaces shows. Builds of the same millisecond share their ID and everything
named after it; properties about a workspace are stated for builds whose ID is
their own (`OwnId`). The history flag `own` says that nobody else has claimed or
made the build's VM name. The code ignores the error of `podman rmi` and
`os.Remove`: `RemoveImage` and `RemoveRaw` may fail, leave the file and go on, and
the history variable `kept` says which removals failed. `LeavesOnlyUnremovable`
is therefore not that nothing is left, but that no path out of `runBuild` goes
past the clean-up of what it made. Of the error of a build `job` keeps whether
it is truncate's (`Message`), since truncate may fail after it made the file,
before anything has been registered to remove it.

### `BuildLog`

Extends `BootcBuild` with the log files, the builds that have theirs open
(`writers`) and one stream (`reader`). `BuildStep` is a step of `runBuild` with
its effect on the log; `WriteLine` is output of the running stage, or a line
that follows `markFailed`; `CloseLog` the deferred close. The reader opens the
log of the build it finds in the map, scans, looks at the status, sleeps. Its
`bufio.Scanner` is sticky: once a scan met the end of the file or an overlong
line, `Scan` returns false without reading (`exhausted`).

### `RemoteDesktop`

Two handlers that meet in a guest. `HandleRDPEnable` probes which server is
installed (`GetRDPStatus`; a failing probe counts as absence) and runs its
commands in the guest. Each may succeed, fail before or after its effect, lose
its connection while it goes on in the guest (`strays`), or hang. The timeout of
a command that hangs kills limactl, but not the ssh that limactl has started,
and `CombinedOutput` waits until that one closes the output pipe: the request
stays where it is (`hung`) until the command in the guest ends or the connection
does (`HangEnds`, `GuestStops`), and then fails, even if the command succeeded.
`CheckRDPPort`, the last step of the status, can hang in the same way (`check`);
its error is dropped, so the request goes on to the first command. The two
detections use `Run` without a pipe and end with limactl.

A guest whose user has enabled `gnome-remote-desktop` before, without
credentials, is not an initial state: there `grdctl rdp enable`, the first
command, would make the server listen before `set-credentials` has run, and
`CredentialsFirst` says nothing of it.

`HandleRDPProxy` goes through its phases (RDCleanPath request, dial, X.224, TLS,
response) to the same relay as `VncProxy`'s. It always dials host port 3389,
because nothing registers any other; `forward` is the guest Lima has put behind
that port. What a guest or Lima does by itself (`GuestStarts`, `GuestStops`,
`Forward`, `StrayEffect`) is external.

### `SerialLimactl` and `BuildLifecycle`

What two components promise to the rest. `SerialLimactl` has machines and one
command in progress, which takes effect at most once; nothing else stops or
deletes a machine outside `Touched`. `LimaWeb` implements it
(`ImplementsSerialLimactl`): the command in progress is that of the holder of
`writeMu` (`CurrentCommand`), while lima-up, which does not ask for the lock, is
one of those who may start a machine. `BuildLifecycle` has a status and a
goroutine per build; `BootcBuild` implements it (`ImplementsLifecycle`) with
`phase` the status and `busy` the builds whose goroutine is in `runBuild`.

### `ShellWs`

Extends `LimaWeb` with `term`. The handler checks the instance, upgrades, starts
the shell on a pty, and then alternates between reading a frame from the browser
and writing it to the pty, which waits when the shell takes no input (`hung`).
A goroutine relays the other way (`out`). The handler leaves its loop only when
a read from the browser fails; closing the pty, killing and reaping the shell,
and closing the connection follow. `SilenceTimeout` is nginx's
`proxy_read_timeout`.

### `Uploads`

| TLA+ | Code |
|---|---|
| `store` | the upload directory, by millisecond and name |
| `templates` | `/usr/local/share/lima/templates`, by name alone |
| `generated` | lima-up's templates in `/tmp`, by millisecond and name without extension: the saved file that each refers to |
| `transfer[u]` | the goroutine of an upload or a fetch: file, instance, place |
| `bridge`, `found` | `/run/lima-vnc-port`; the port a lima-up has detected and not yet used |
| `made`, `shared`, `moved` | history variables |

The content of a file is the set of transfers whose bytes are in it, so that
mixed and truncated files show. `CreateFile` and `CopyFile` are `SaveFile`, and
`CreateTemplate` and `FillTemplate` are `copyFile`, cut where another transfer
can truncate, fill or remove the same file; the copy of a template may fail
half way. The rest is lima-up. A template is given to limactl as it is
(`PrepareLimaUp`); for an image or an ISO lima-up writes one
(`GenerateTemplate`) that refers to the saved file or to a blank disk, under a
name in which `box.img` and `box.iso` of the same millisecond are the same
(`Slot`), so that the second may replace it before limactl has read the first.
`StartVm` is limactl: it reads the template when it creates an instance, and
makes one of its own default template (`Default`) when the instance lima-up has
found is deleted before it is started. Then two commands, `lima-detect-vnc-port`
(`DetectPort`) and `lima-use-vnc-port` (`UsePort`, `UsePortFails`), with all that
machines may do in between: `moved` holds the transfers whose machine, or an
instance before it in the globbing order, changed there, of which
`BridgeFollowsLimaUp` cannot speak.

### `FirstBoot`

`Containerfile` gives the instructions in the order they are written; podman
executes one per step on an image that had any of the programs before. `Boot`
starts the oneshot service; each command of the script is a step that may
succeed, fail (`set -e` ends the script) or be cut off by `PowerLoss`. What a
command has written is on the disk when it ends. `key` and `crt` count the keys
made, so that a certificate of another key shows.

### `LimaOutput`, `QemuWrapper`

Operators only. A line of limactl's log is blank, text or an entry; a line of
its list is blank, an instance or not JSON; QEMU's command line is a sequence
of options. The loop of `extractLimaError` is a fold; what a reader of the list
or pass 1 of the wrapper looks for is a set of positions (`Lines`, `Has`).
`MCFunctions` builds inputs one element at a time, and starts a machine again
with what an earlier start has copied, with the same firmware or without it.
`ReadersAgree` gives both readers the same output, although `IsRunning` asks
limactl for one instance only, of which the list then consists. `RunsOnTcg`
uses the wrapper's own list of the ways to ask for KVM (`Hypervisors`,
`KvmCpus`), which is what Lima writes: it would not notice `-enable-kvm` or
`-accel kvm,...`, which the wrapper does not know.

## The runs

Passing runs:

| Run | Question | Instance |
|---|---|---|
| `web_console` | Do `LimaCtl`'s commands exclude each other, do registry and machines agree, and are answers true, whatever overlaps? Does `LimaCtl` implement `SerialLimactl`? | 2 instances, 2 requests of every operation but `create` (which `web_answers` has), 2 ports, one machine changed from outside, restarts |
| `web_answers` | Is every request answered, does the scan register what it found, does a terminal end with its browser, shell or machine? | 1 instance, 2 requests (create, stop, bootc), 1 terminal, fair |
| `proxy` | Does a session reach its machine, and is its relay torn down? | 2 instances, 2 ports, 1 request (start, stop, delete), 1 session, fair |
| `build_workspace` | Are workspaces private, and cleaned up but for what cannot be removed, outcomes final, did a complete build make its own VM, and does the pipeline implement `BuildLifecycle`? | 2 builds, 2 VM names, 2 milliseconds, 1 removal that fails, restarts |
| `build_log` | Does every build end, does every stream, and is a late stream complete? | 1 build, 1 stream, 3 lines, any of them overlong, fair |
| `rdp_enable` | Is a desktop ever served without credentials, is the answer true, is there one unless a command hangs for ever? | 1 guest with both servers, 2 enables, 2 credentials, fair |
| `rdp_session` | Does a session end when its browser or guest has gone, in any phase? | 1 guest, 1 session, 1 enable, fair |
| `uploads` | Is a machine made of its own upload, does a failed save leave nothing, does the bridge follow the machine that was started? | 2 transfers, an image, a template and an ISO, 2 instances, 2 ports, 2 milliseconds, one machine changed from outside |
| `first_boot` | Does a built image have its services, is the marker true, do repeated boots get there? | every set of customisations, every source image, 3 failures or power losses |
| `functions` | Do the readers of limactl's output agree with their reference and with each other? Is the wrapped command line free of KVM, in Lima's order and with one drive for firmware variables? | up to 3 lines, up to 4 options |

The bounds. *Two requests* suffice for the console properties because each
relates one request to one instance, and anything the others do to it is some
request's step or `Outside`; the proof removes the bound. *Two ports and two
instances* let a port change hands. *One machine is `Touched`* in
`web_console`, so that the other shows what holds undisturbed. `proxy` has *one
session*: sessions share nothing but the registry they read. Its requests are a
start, a stop or a delete: every other operation is made of the same steps.
`build_workspace` has *two names and two milliseconds*, so that both builds may
want the same VM or have the same ID, or not; one removal fails, of either
kind and in either build. Its clock moves only between a request and the next,
by one millisecond: longer waits give the same IDs but for their values, which
nothing compares except for equality. `build_log` has one build, of which both may fail: every
stage has a failure that is always possible, so no build waits for another;
lines come before and after the status change, and overlong ones in any place.
`rdp_enable` has no sessions, since they change nothing in a guest, and
`rdp_session` one enable, enough to make a guest listen. `web_answers` has
one terminal, for the reason `proxy` has one session. `uploads` has two transfers, since what goes wrong is between two, and two instances, one
earlier in the globbing order than the other; its three files share their name
but for the extension. In `first_boot` three troubles
cut a run off, fail the next and cut off a third. Four options hold a firmware,
its drive, the pidfile and one that is rewritten. The clock (`MaxMs`), the log
(`MaxLines`), the commands left running in guests (`MaxStrays`, one), the
removals that fail (`MaxKept`), the failures in a guest (`MaxTrouble`) and the
inputs of `functions` (`MaxLines`, `MaxArgs`) are bounded by a guard; the rest of the state is finite.

Symmetry (requests and ports, builds and names, or transfers) is used in runs that
check invariants and action properties, never with a liveness property.

Runs that end with a counterexample are under
[Disagreements found](#disagreements-found).

## Fairness

* Every goroutine's next step is weakly fair: Go's scheduler does not starve a
  runnable goroutine.
* A limactl or podman child ends (weak fairness of `Command` and of the stages
  of `runBuild`), with success or failure. The code sets no timeout on them, so
  this is an assumption about the children.
* `AcquireWriteMu` is *strongly* fair: the lock may be taken and released for
  ever by others, but a `sync.Mutex` passes itself to a goroutine that has
  waited for a millisecond.
* The detection of a server, the dial and the X.224 exchange end because the code
  gives them timeouts. The timeout of a command of an RDP enable ends limactl
  and not the wait for its output: once a command hangs, its end (`HangEnds`) is
  not fair, and `EnableAnswered` says that a request which is never answered
  hangs for ever in one command. A guest that stops breaks the connection. The
  TLS handshake has no timeout and is not fair while the guest is there:
  `SessionEnds` says what is left then.
* Accepting requests, `Outside`, `Crash`, the clock, guests and browsers are not
  fair.
* A shell whose machine is gone ends, and nginx cuts off a shell that has ended
  after ten silent minutes (`scripts/entrypoint.sh:63`): both fair. A hung shell
  may hang for ever, and users need not leave: `DepartedBrowserEndsShell` says
  what follows when the shell does not.
* In `FirstBoot` podman and the script's commands end. Nobody has to boot a
  guest: `SetupCompletes` is about one that is booted again and again, and
  trouble is finite.
* In the proxy a goroutine blocked on a *read* wakes when its peer or the
  handler closes the connection, so these are fair. A *write* fails only if the
  other side sends something, which nothing makes it do, so failing writes are
  not fair. Tear-down must follow from reads alone, and does.

## Proofs

Every safety invariant and action property that a run checks on one of the
state machines of the system, or on `MCFunctions`, is a theorem; so are the two
refinements. Each component has its module of proofs (the log stream shares
that of the builds).

### `LimaWebProofs`

It proves, for every number of instances, requests and ports,
every set of operations and every set of machines changed from outside, from
`ConstantsAssumption` alone (the special values are not instances, requests or
ports):

| Theorem | Says |
|---|---|
| `TypeCorrect` | `Spec => []TypeOK` |
| `LimaCtlIsSerialized` | `Spec => []LimaCtlSerialized` |
| `IndInvInductive` | `Spec => []IndInv` |
| `ConsolesMatch` | `Spec => []ConsoleMatchesVm` |
| `AnswersAreTrue` | `Spec => []AnswerIsTrue` |
| `ServerIsSerial` | `Spec => ImplementsSerialLimactl` |

`LimaCtlSerialized` follows from `LockInv`: a locked operation runs its child
only while its goroutine holds `writeMu`. With uploads the holder may change
without the upload knowing, which is why `LockInv` leaves them out and why
`Unlock` releases the lock only for its holder.

`ConsoleMatchesVm` and `AnswerIsTrue` are not inductive. What a request may
rely on depends on nobody else being at its instance, so they are strengthened
to `IndInv`:

* `MachineInv`: a running machine's `vncdisplay` file names its port. Without
  it `StartVNC` could register any port.
* `StartupInv`: no requests before lima-web serves, and what the scan has yet
  to register still runs (unless disturbed).
* `AloneInv`: a request flagged `alone` is the only one at its instance, and
  requests at an undisturbed instance are alone. The flags are what makes the
  argument local: every step of another request leaves the instance of an
  `alone` request untouched (`StepIsLocal`).
* `ProgressInv`: how far an `alone` request has brought its instance: after its
  first step a stop or delete has no console left, a command that took effect
  has left the machine so, a request about to register has a running machine.

Each part has a step lemma (`TypeStep`, `LockStep`, `MachineStep`,
`StartupStep`, `AloneStep`, `ConsoleStep`, `OwnStep`, `AnswerStep`), one named
step per action; `IndInvInductive` combines them.

`ServerIsSerial` (`Spec => ImplementsSerialLimactl`) needs one more invariant,
`HolderInv`: the holder of `writeMu` is at a command and is not an upload, and an
upload only ever starts a machine. `SerialStep` then maps each action:
`AcquireWriteMu` to `Begin`, `TakeEffect` of the holder to `Perform` and of an
upload to `OtherStarts`, the two returns of the holder to `End`, `Outside` to
`OtherStarts` or `OtherStops`, `Crash` to `Restart`, everything else to a stutter
(`CurrentKept`).

### `BootcBuildProofs`

It proves, for every set of builds and of VM names, every bound of
the clock and from `BuildAssumption` alone (a build is neither `NoFile`, `Blank`
nor `NoJob`):

| Theorem | Statement |
|---|---|
| `TypeCorrect` | `Spec => []TypeOK` |
| `Invariance` | `Spec => []IndInv` |
| `WorkspaceIsPrivate` | `Spec => []WorkspacePrivate` |
| `CompleteIsMade` | `Spec => []CompleteMadeOwnVm` |
| `BuildCleansUp` | `Spec => []LeavesOnlyUnremovable` |
| `OutcomesAreFinal` | `Spec => OutcomeIsFinal` |
| `PipelineIsLifecycle` | `Spec => ImplementsLifecycle` |

None of the invariants is inductive: each rests on what the goroutine did
before. `IndInv` adds to `TypeOK`

* `StatusInv`: the place of the goroutine gives the build's status. It alone
  carries `OutcomesAreFinal` and `PipelineIsLifecycle`.
* `FreshInv`: an ID that no build has asked for has no raw disk and no image, so
  a new build starts with none.
* `WorkspaceInv`: what the disks, the image and the map hold at each place of the
  goroutine of a build that is alone in its ID. The error returns and the
  deferred calls are in it too: a build past `rmRaw` has a raw disk only if
  truncate failed or the removal did, which is why `kept` only grows
  (`KeptGrows`).
* `OwnVmInv`: the VM name of a build that owns it is absent until its own limactl
  makes the VM from the build's disk, so `IsRunning` cannot be true for anything
  else.

`StepEffect` restates the twelve steps of `runBuild` by their effect on the build
and on the files of its ID; `RunBuildIsLocal`, `StartBuildShares` and
`OutsideShares` say what a step leaves alone, so each step lemma (`TypeStep`,
`StatusStep`, `FreshStep`, `WorkspaceStep`, `OwnVmStep`) looks at the acting build
and dismisses the others. `RunBuildShows` gives the four ways a step of the
pipeline looks from outside, which are the actions of `BuildLifecycle`.

### `VncProxyProofs` and `ShellWsProofs`

A composition adds sessions or terminals to the server; neither writes its
variables, so its specification implements the server's alone and each theorem
of `LimaWebProofs` holds under it. From `ConstantsAssumption`, for any number
of sessions or terminals:

| Theorem | Statement |
|---|---|
| `ProxyKeepsServer`, `ShellKeepsServer` | `PSpec => Spec`, `SSpec => Spec` |
| `ProxyTypeCorrect` | `PSpec => []ProxyTypeOK` |
| `SteadySessionsReachTheirVm` | `PSpec => []SteadySessionReachesItsVm` |
| `ShellTypeCorrect` | `SSpec => []ShellTypeOK` |
| `ShellsAreReaped` | `SSpec => []ReapInv` |

That a session reaches its machine joins three facts: the registry has the
port of the machine at the look-up (`ConsoleMatchesVm`, of `IndInv`), the session still
holds it when it dials unless the machine has changed (`SteadyInv`), and nobody
else listens on it then (`PortsInv`). `ReapInv` is the part of a terminal's
invariant that is not about types: `ShellWS` waits only for a shell that it has
killed, and its output goroutine is there from `pty.Start` on. `StepIsSound`
goes through the steps of one terminal.

### The log stream (`BootcBuildProofs`)

Here too the composition implements the builds (`LogKeepsBuilds`,
`LogSpec => Spec`). For any number of builds, IDs and lines, from
`BuildAssumption` and `LogAssumption`:

| Theorem | Statement |
|---|---|
| `LogTypeCorrect` | `LogSpec => []LogTypeOK` |
| `LateStreamsAreComplete` | `LogSpec => []LateStreamIsComplete` |

`LateStreamIsComplete` speaks of a stream that has said DONE; the invariant
must follow it through its sleeps. `LateInv` says that what stopped the sticky
scanner is still there, which holds because the log no longer changes
(`LogOfOverStays`): a goroutine that is over takes no step (`EndStays`) and
writes nothing (`OverDoesNotWrite`), and whoever else writes has another ID.
`WritersInv` supplies the last fact: a writer is a build that was requested. The
run has one build, so other builds that write at the same time are in the
proof only.

### `RemoteDesktopProofs`

For any number of guests, requests, sessions and commands left running, from
`DesktopAssumption`:

| Theorem | Statement |
|---|---|
| `DesktopTypeCorrect` | `DesktopSpec => []DesktopTypeOK` |
| `CredentialsComeFirst` | `DesktopSpec => []CredentialsFirst` |
| `EnabledAnswersAreTrue` | `DesktopSpec => []EnabledIsTrue` |

`CredentialsFirst` is strengthened to `CredentialsInv`: a request that is about to
start GNOME's server has set credentials, and so has the one that left a start
running. Requests that hang need no invariant of their own: `LettingGo` shows
that they go on with the first command or to their failure, and that nothing in
a guest changes with it. `EnabledIsTrue` needs `AloneInv` (a request flagged
`alone` has neither another request nor a stray command at its guest) and
`ProgressInv` (what its commands so far have done is still in effect).

### `UploadsProofs`

For any number of transfers, files, instances and ports, from
`UploadAssumption` (instances are ordered by their names, ports are TCP ports,
and the special values differ from what they stand beside):

| Theorem | Statement |
|---|---|
| `UploadTypeCorrect` | `UploadSpec => []UploadTypeOK` |
| `VmsAreMadeOfTheirUploads` | `UploadSpec => []VmIsMadeOfItsUpload` |
| `PartsAreRemoved` | `UploadSpec => []NoPartIsLeftBehind` |
| `BridgeGoesToItsMachine` | `UploadSpec => BridgeFollowsLimaUp` |

`OwnInv` carries the second: a transfer that shares its file with nobody is the
only one that has saved, or still writes to, a file of that name, and the file
holds its bytes, as does the template installed from it, once it is filled, and
lima-up's own template refers to that file until limactl has read it. Its
proof found what two transfers cannot show: the first of *three* that use one
name fails and removes the file while the second still writes to it, and the
third makes it anew; the second then has a file of the same name as the
third's, but the history flag `shared` looked at the directory only and missed
it. `Users` now counts those who still write.
`BridgeFollowsLimaUp` is an action property: it needs `DisplayInv` (a display's
file names its port), `FoundInv` (a port that was detected is still that of the
machine unless `moved` says otherwise), and that the least element of a set of
names is unique and there is one, which `MinIsLeast` proves by well-founded
induction.

### `FirstBootProofs`

For every bound on failures and power losses, from `FirstBootAssumption`:

| Theorem | Statement |
|---|---|
| `FirstBootTypeCorrect` | `FirstBootSpec => []FirstBootTypeOK` |
| `BuiltImagesHaveServices` | `FirstBootSpec => []BuiltHasServices` |
| `MarkersMeanConfigured` | `FirstBootSpec => []MarkerMeansConfigured` |

`BuildInv`: the instructions before the next one have taken effect and a built
image has seen them all, for each of the lists `Containerfile` makes.
`ScriptInv`: what the commands before the current one set is there, and a
certificate that was made in this run is of this run's key. It also counts: a run
that made a key and no marker has cost one failure, which bounds the keys.

### `FunctionsProofs`

What the run `functions` checks on three lines and four options, for inputs of
any length (`FnTypeOK` says of what kinds of lines and options):

| Theorem | Statement |
|---|---|
| `FnTypeCorrect` | `FunctionsSpec => []FnTypeOK` |
| `ErrorIsTheLastOne` | `FunctionsSpec => []ErrorIsLastError` |
| `TheReadersAgree` | `FunctionsSpec => []ReadersAgree` |
| `WrappedRunsOnTcg` | `FunctionsSpec => []RunsOnTcg` |

* *The fold.* A fold is the function that satisfies a recursive equation over
  the sets of positions read so far (`Loop`, `ExtractIsLoop`). `Found` is what
  the loop should have found after a set of lines, in closed form. It satisfies
  the equation (`FoundNothing`, `FoundNext`), so there is a solution; and there
  is no other, since two solutions would first differ on a set whose highest
  position is least (`LoopIsFound`). `ErrorOf` draws the conclusion for every
  sequence of lines of which a log can consist (`Sane`).
* *The readers.* In a list of instances both select the first line of the name;
  the single object that `IsRunning` believes unseen has it (`ReadersAgreeOn`).
* *The command line.* `BodyIs` and `WrappedIs` give the new command line
  position by position: Lima's options rewritten, those behind the added drive
  one place further, the CD-ROM last. `RewriteIs` says what rewriting changes.
  `TcgVersion` counts: the positions of Lima's options are those up to the size
  but for one, so the n-th of them came from the n-th option. It holds for
  every command line in which Lima itself uses neither `-cdrom` nor the
  wrapper's VARS file, whatever other options there are.

### What is only model-checked

* Every liveness property, and with it what the fairness above is for: the
  prover handles neither fairness nor `ENABLED`. That no state but an intended
  one is a deadlock is checked by the runs only, too.
* The two statements under [Disagreements found](#disagreements-found) are
  refuted by runs, which is all there is to show.

### Reading and checking the proofs

`tlapm <module>.tla` in this directory; the version used is 1.4.5 with Z3,
Zenon and LS4. Three habits of the modules come from that version. An update of
several fields of one record in a function is written
`[f EXCEPT ![e] = [@ EXCEPT !.a = x, !.b = y]]`: for the flat form
`[f EXCEPT ![e].a = x, ![e].b = y]` its SMT translation keeps only one of the
two, which would make false statements provable. Definitions that the proofs
expand have no `CASE`: its SMT translation can take two different `CASE`
expressions with the same first arm for equal; the one that is left, in
`Rewrite`, is seen by Zenon only. `(SUBSET S) \cup {x}` has its
parentheses because it binds the two operators otherwise than SANY does. As a
test of the proofs themselves, guards and updates of the models were changed
one at a time (the shell not killed, the reader called late while the log is
open, a third transfer not counted, a marker before its certificate, the drive
inserted one place too early, ...), and the
proofs of the theorems they contradict fail.

## Disagreements found

Each is a statement of the repository that a run refutes.

| Run | Statement | What the run shows |
|---|---|---|
| `web_ghost_console` | `docs/api.md:214`: VNC details for a *running* instance | a start that overlaps a stop registers the console again before the machine goes down; the entry stays when both have answered |
| `build_log_follow` | `web/bootc.go:440`: following new content until the build finishes | after the stream caught up once it sends nothing but DONE |

Others are plain on the page, in a step of the models or outside them, and have
no run:

* `docs/bootc.md:121` says that the VNC console is available immediately: a
  build starts its VM and registers nothing (`BootcInstance`).
* `docs/bootc.md:49` says that on completion the new VM appears: when the name
  belongs to a running VM, limactl refuses, `IsRunning` is true, and the build is
  complete without a VM (`Probe`; `CompleteMadeOwnVm` is about the others).
* `docs/api.md:325` says that `/rdp/{name}` proxies to the guest's port 3389:
  every session reaches the guest whose port was forwarded first (`Dial`).
* `web/lima.go:52` says that `writeMu` serializes mutating operations: lima-up is
  run without it (`UploadInstance`).
* `web/bootc.go:35` and `docs/bootc.md:69` say that xrdp is installed: the code
  installs GNOME Remote Desktop.
* `scripts/lima-up.sh:73` says that an ISO is attached through `LIMA_CDROM`: in
  TCG mode the variable is overwritten at line 117 or 122, and otherwise the
  wrapper that reads it is not used.
* A VNC session whose machine stops between look-up and dial may reach the
  machine that took its port (`Dial`; `SteadySessionReachesItsVm` is about the
  others). Builds, and transfers of the same file, of one millisecond share
  what is named after it (`OwnId`, `shared`).

## Not modelled

* `StartRDP` and `StopRDP`: nothing calls the first, so the RDP registry stays
  empty.
* The entrypoints and `preflight.sh`, which run once and have no state that
  anything else reads, except for nginx's timeout and for the machine they
  start (`Outside`). lima-up's QEMU environment and VNC password. The bridge
  itself, one `nc` per connection.
* Message texts, HTML, JSON layout, template text: no property is about them.
* The answer of `CreateBootcBuild`, which encodes the build without the lock and
  may say `running` where `docs/api.md:562` says `pending`.
* Read-only handlers (list, info, VNC details, build list): they change no
  state; what they return is what the invariants speak of.
* The dashboard and `rdp.html`: user interfaces. `Dockerfile*`,
  `docker-compose.yml`, `fetch-ironrdp-wasm.sh`: build recipes.
* A hung child process other than a terminal's shell and the commands of an RDP
  enable: the code has no timeout for limactl or podman, and a request waits
  with it.
* A relay goroutine that is blocked in a *write* to a QEMU or a guest that reads
  nothing (`web/vnc.go:159`, `web/rdp.go:257`): both socket buffers have to be
  full. It would not see the browser leave until the write ends.
* `NoPartIsLeftBehind` is about saves that failed. lima-web that is killed in a save
  leaves a part of a file, which the model keeps as the file of a lost transfer
  and nobody removes.
* In a guest: writes that are lost or reordered on the disk when power fails,
  and custom instructions that undo the generated ones.
* The three TPM arguments of the QEMU wrapper, and `kvm:tcg` lists in `-machine`.
