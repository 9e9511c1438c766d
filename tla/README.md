# A TLA+ verification of grubstation

grubstation (a Go program) connects a dual-boot machine with Home Assistant: it
reports the entries of the GRUB menu, lets GRUB ask Home Assistant which of them to
boot, and powers the machine off on request. The modules in this directory model
its behaviour on Linux, from the survey that configures it to the daemon, and its
service on Windows. TLC checks them on small instances, and TLAPS proves most of
their safety properties for every value of the constants.

## 1. The system

| Component | State | Operations | What must be right |
|---|---|---|---|
| Webhook client (`internal/homeassistant/client.go`) | none of its own; a request in flight | `RegisterAgent`, `UpdateBootOptions`, `UnregisterHost` over `PostWebhook` | counts as done only what Home Assistant has stored |
| Daemon (`internal/daemon`) | bearer token, backoff, mutex, HTTP listener, Unix socket | handshake, `TriggerUpdate`, `POST /shutdown`, `GET /status`, socket command `push`, cleanup | Home Assistant can always shut the machine down; no push is lost or goes back; it ends when told to |
| `boot push` (`internal/cli/boot_push.go`) | none | ask the daemon, or push directly | success means the menu arrived; always returns |
| GRUB menu reader (`internal/grub/grub.go`) | stack of submenus, brace depth | `GetBootOptions`, `parseMenuEntries` | reports exactly what GRUB can boot by name |
| GRUB hook (`internal/grub/setup.go`, template) | `/etc/grub.d/99_grubstation`, `grub.cfg` | `Setup`, `Uninstall`, `CheckDrift` | the boot menu has the hook of the configuration, or none; no false alarm about drift |
| systemd manager (`internal/servicemanager`) | unit file, what systemd has loaded, enabled or not | `Install`, `Uninstall`, `Start`, `Stop` | no unit without a configuration; nothing left after removal |
| Commands (`internal/cli/setup.go`, `service.go`) | `config.yaml` | `setup`, `setup --apply`, `service install/remove/start/stop` | what they report as complete is complete, after any failure |
| Configuration (`internal/config`) | the file | `Validate`, `Save`, `Unmarshal`, `config init` | the file says what was chosen although defaults are left out of it |
| Setup wizard (`internal/cli/wizard`) | the answers of a survey, two background goroutines | the prompts, `assembleConfig` | ends, and with a configuration that the agent accepts |
| Host queries, discovery (`internal/host`, `discover.go`) | the instances found so far | interfaces and names of the host, `Discover` | the survey gets an answer, also when nothing is found |
| Windows service (`daemon_windows.go`, `windows.go`) | what the service control manager shows, control requests | `Execute`, `Start`, `Stop` | a stop is carried out; a service shown as running runs |
| Debug log, entry point, packaging | a buffer of log lines | – | – |

How they interact. The survey saves a configuration and writes the GRUB script from
its own answers; `serve` later reads the file, compares the script with it and
builds one daemon. Its main goroutine registers with Home Assistant until that
succeeds, pushes the menu, starts the two listeners and waits for a signal. Handlers
of socket connections and of HTTP requests run concurrently and share one mutex and
the client with it. `boot push` is another process, which talks to the daemon over
the socket and to Home Assistant directly. The installation commands are processes
that change files, systemd and the boot menu while a daemon may be running. On
Windows the daemon runs in a goroutine of the service handler, which passes on what
the control manager asks for.

What is hard: the read of GRUB and the post that follows it are not atomic; a
request whose answer is lost may be processed, at once or later; processes are
killed and leave a socket file and requests behind; the token changes with every
start; a stop arrives in any step; an installation can fail or be killed between
any two of its steps; three places fill in the defaults the file leaves out, each on
its own; the survey waits for goroutines that may find nothing. `PROJECT.json` lists
every hazard with its line.

## 2. Modules

| Module | Models |
|---|---|
| `Webhook` | the client's requests and, as an external party, Home Assistant and the network |
| `Daemon` (EXTENDS `Webhook`) | the daemon's goroutines, its socket, its HTTP server, systemd and the machine |
| `Report` | the abstract specification of `TriggerUpdate`, which `Daemon` implements |
| `BootPush` (EXTENDS `Daemon`) | the push command composed with the daemon |
| `MenuParser` | `parseMenuEntries`, run along with the nesting GRUB sees |
| `Install` | the installation commands, the files and systemd, with every failure between two steps |
| `Settings` | configurations: validation, what the file leaves out, what is read back, the GRUB script |
| `Wizard` (EXTENDS `Settings`) | the survey with its background goroutines, the file and the script, `serve` at its start |
| `WindowsService` | the service handler, the control manager and `service start`/`stop` |
| `DaemonProofs`, `TokenProofs`, `ReportProofs`, `BootPushProofs`, `MenuProofs`, `InstallProofs`, `WizardProofs`, `WindowsProofs` | theorems |
| `MCDaemon`, `MCBootPush`, `MCMenuParser`, `MCInstall`, `MCWizard` | small values of the constants |

Definitions marked `mutation` are plausible mistakes in the code that are not part of
any specification: with one of them in the place of the real definition, a property fails.

**Webhook.** `msg[s]` and `reply[s]` are the request of sender `s` and what became
of it; `late` are requests whose sender has given up but which may still arrive.
`HostUnregistered` is the `UnregisterHost` of another process (`service remove`).
`Post` is `PostWebhook` up to `HTTPClient.Do`; `PostSucceeds` its `return nil`
(status 200 and the body `OK`); `PostFails` every other return. `ha` is what Home
Assistant stores. A menu is a version number. `tokenBy`, `menuBy` and `seen` are
history: where the values came from (a request that was late, a removal), and the newest
menu ever stored.

**Daemon.** `main` is the position of `run` (`register`, `backoff`, `push`,
`serving`, `final`, `drain`, or `down` when there is no process), `tu[p]` that of
goroutine `p` in `TriggerUpdate`, `mu` the mutex, `token` the bearer token,
`cancelled` the context of `run`, `reporting` the `report_boot_options` it was started with.
`serve` reads the file at every start, and the file may have been edited in between: `Start`
takes any value of `Reports` and any `api_key` of `Keys`. The steps of `TriggerUpdate` are those between
which another goroutine can run: lock, read GRUB, post, return. `ProcessEnds`, used
by every way a process ends, abandons its requests, drops its connections and
leaves the socket file behind; `RemoveSocketFails` is the `os.Remove` whose error nobody
looks at. A `POST /shutdown` goes through its push (`PrePushReturns`, whose error is only
logged) to `poweroff` (`PowerOff`), which may fail. `ServiceRemove` unregisters the host
while the daemon runs. `Crash` can happen at any time; `Start` models
systemd's `Restart=always` as well as a boot. `power` is the machine: a shutdown by
the daemon or by somebody else makes systemd stop the unit before the power goes.
Left out: `GET /status`, which changes nothing, and the daemon without a client or
without GRUB, which `serve` never builds from a validated configuration.

**Report.** What those who ask the daemon for a report may rely on, without
goroutines, mutexes, requests or processes: a menu is stored because somebody waits
for it (`StoreFor`), no older than the question and than the last one stored that
way, or it is a stray one (`Stray`: given up by its sender, or sent past the daemon);
a success is claimed (`Succeed`) only of what was stored. `Daemon` instantiates it
with a refinement mapping: `status[p]` is `tu[p]` with the three positions inside
`TriggerUpdate` taken together, `stored` is `ha.menu`, `ordered` whether the daemon brought it.

**BootPush.** `cli[c]` is the position of the command; `Dial` and `ReadResponse`
are its side of `Connect` and `HangUp` of `Daemon`. Every failure of the socket path
leads to the direct push, which bypasses the mutex.

**MenuParser.** Each step writes a line of a well-formed file and lets the parser
read it. `nest`, `path` and `targets` are GRUB's view; `stack`, `braceDepth` and
`entries` are the variables of the code. A title is an atom, a target the sequence
of titles on its way. The loop that pops the stack is modelled by its result
(`Popped`).

**Install.** `cmd` is the running command and its next step; every step can succeed,
or fail and end the command; writing a file can fail before or after the file was
truncated. `DaemonReports` and `DaemonEnds` are all that is left here of the daemon. `config`, `script`, `hook` (the script's output in `grub.cfg`), `unit`,
`loaded`, `enabled`, `active` are the files and systemd; `proc` is the configuration
of the running daemon. Commands run as root and one at a time; the daemon,
systemd, editors, kernel updates and reboots go on meanwhile. `path = "dir"` stands
for a command given without `--config` in the directory of the configuration:
`filepath.Abs("")` is the directory.

**Settings.** A configuration is a record; `Empty` and `0` stand for fields that are
left out. `Exported` is what `Save` writes: what is at its default goes. `Unmarshal`
is what `LoadConfig` makes of it, with its own defaults and that of the flag of the
Wake-on-LAN port. `Validate` has the code's checks, and like the code none of the
range of the agent's port and of the wait time. `SetupScript` is the script as `setup` writes
it, `ExpectedScript` as `serve` compares it; of its text remain the values it is made
from and the number of its attempts. `MenuFile` is the `grub.cfg` that `GetBootOptions` opens;
`KnownPaths` is where `findConfig` looks. Sections left out of the file read back as empty
ones, which is why the records always have them.

**Wizard.** `step` is the prompt the survey is at, `ans` the answers; a prompt takes
only what its `Validate` function takes. `fqdn` and `disc` are the two goroutines
started before the first prompt, each with a channel of one place. `file` is
`config.yaml`, `script` the GRUB script, `running` the port a daemon listens on.
`SaveConfig` and `InstallHook` are the two steps between which `setup` can fail; each
may also leave what it writes `Truncated` (`HookWritten` for the script);
what else can go wrong in an installation is the subject of `Install`. `Apply`,
`ConfigInit`, `Edit`, `Serve` are the other ways the file is read and written. An edit may
set a port out of range, which `Validate` accepts and the listener then refuses. As
`doWizard` drops the errors of its queries, the survey also begins on a host without a
usable interface, where its prompt for one can only end it.

**WindowsService.** `proc` is the process and the position of `Execute`, `run` the
goroutine of the daemon, `errChan` the channel with its result, `requests` what the
control manager has asked for (a stop, the status, or something the handler only logs), `scm` what it shows. The `select` of the loop is the choice
between `TakeResult` and `TakeRequest`. The installer registers the service with
`serve` as its only argument; `provided` is whether that finds a configuration.

## 3. Runs

| Run | Question | Result |
|---|---|---|
| `daemon_safety` | token, freshness, order, somebody to answer whoever waits and silence where reporting is off, with generated tokens, crashes, removals, lost and late requests and a setting that changes | holds |
| `daemon_live` | can its socket be reached, also after a crash or a reboot, does it end when told to, answer clients, get every accepted shutdown to `poweroff`, and does its backoff loop get through | holds |
| `boot_push` | is a success of the command true, will it be answered, does it return, does the daemon beside it keep the promise of `Report` | holds |
| `menu_parser` | are the reported entries GRUB's | holds |
| `install_safety` | are completed installations and removals complete | holds |
| `setup` | do the answers survive the file, does the file load, is the script the expected one, does what the survey waits for come | holds |
| `windows_service` | is a stop carried out, is a daemon that ended noticed, is no event lost | holds |
| `install_hooks` | docs: `service remove` uninstalls the hooks | violated if reporting was switched off |
| `install_path` | help: the default configuration file | violated: the working directory is written into the unit |
| `setup_https` | sample: with https for Home Assistant, GRUB needs an http address | violated: the survey leaves it out for an instance with one https URL, and for one that is typed |
| `setup_grub_path` | docs and sample: `grub.config_path` says which `grub.cfg` is read | violated: nothing but `Validate` looks at it |
| `windows_config` | docs: where the configuration is on Windows | violated: the service does not find what setup saved there |

**Bounds and why they are enough.** `daemon_safety` has one socket client, one caller
of `/shutdown` and `run` itself: three goroutines, so that one can overtake another
while a third holds the mutex; two menu versions, an older and a newer one; two
tokens, that of a process and one an earlier process registers late (only equality with
these matters); one abandoned request (`MaxLate`), enough to overtake a live one, or to be
left by a process that reported to one that does not; a
backoff of 1 and 2, the cap, which the second doubling would leave. Tokens are generated
(`Keys`) and `report_boot_options` may change with every start (`Reports`). The machine does not go down
(`Outages`): for these properties a reboot is no more than a stop or a crash and a start; for the
socket file, which a boot removes, it is more, and `daemon_live`, which has `StaleSocketGone`,
and `boot_push` have it. The other daemon runs
use one token or one menu where their question does not tell more apart. `daemon_live` and
`boot_push` use no abandoned request and no removal: they have no influence on progress. `boot_push` has
one command next to `run`, which compete for the mutex and for what Home Assistant holds, and two
menus. `menu_parser` covers all files of 7 lines with blocks 4
deep, which is two submenus within each other with an entry and a foreign block
inside, and what follows them. `install_safety` has two different scripts, an old and a
new one, and no bound on the number of commands. `setup` and `setup_https` allow two
visits (`MaxVisits`): a survey over the file of an earlier one, an edit, or a
sample. `setup_grub_path` allows three, a sample and two edits. One interface is usable and two are not; the host's name has a character
`ValidateHost` does not know; of two instances of Home Assistant one has an https and an http
URL, the other only an https one; ports, typed and edited, are 0, 9000 and one too high, wait times
0, the default, another and one too high, and an edit may make it -1.
`windows_service` and `windows_config` queue three requests (`MaxRequests`), so that one of
any kind can come before a stop and one after it. The
theorems of section 5 remove the bounds for the safety properties they state.

**Deadlock** is checked except in `menu_parser`, whose file ends after `MaxLines` lines,
and in `setup`, `setup_https` and `setup_grub_path`: when the visits are used up and the file is one that `serve` and
`setup --apply` refuse, nobody is left to change it.

**Fairness.** `FairSpec` assumes weak fairness of every goroutine's next step (the Go
scheduler is preemptive), strong fairness of taking the mutex (`sync.Mutex` switches
to handing over to a waiter after a millisecond) and that `PostWebhook` returns (the
client has a timeout of 10 seconds); nothing is assumed of Home Assistant, systemd
or of signals. Between the end of the context and the end of the sleep `select` chooses
at random, hence strong fairness of `HandshakeCancelled`. `HandshakeCompletes` is
conditional on `HAFairness`: that Home Assistant, tried again and again, one day
stores the registration and its answer arrives. Without it the loop rightly never ends.
`CliFairSpec` asks the same of the command and of the daemon's push, and neither of
`run` nor of Home Assistant. `Wizard` assumes that the resolver and the
discovery end (both have a timeout) and that the survey then receives what they found;
nobody has to answer a prompt. `WindowsService` assumes that the handler and a cancelled
`run` take their steps, and that `select` takes each of two channels that stay ready
at some time; nobody has to start or stop the service, and nothing makes the handshake succeed.

## 4. What the properties say

- `TokenInSync`: while the HTTP listener is open, Home Assistant holds the token that
  this process checks. There are two exceptions: `service remove` has unregistered the host
  before it stops the daemon, and the late registration of a token that has changed since,
  because it was generated or because `api_key` was edited between two starts. With an
  `api_key` that never changes only the first is left. The run has generated tokens; the theorem of
  `TokenProofs` covers every set of keys the file has over time.
- `PushIsFresh`, `PushedIsFresh`: a push that was reported as done has stored a menu no
  older than the one on disk when it was asked for, despite mutex waits, lost
  answers and answers of status 200 with another body. With
  `report_boot_options: false` the daemon answers OK without a push, and `PushedIsFresh` is not claimed.
- `NoRegress`: concurrent pushes of the daemon never take Home Assistant back to an
  older menu. This is what the mutex around reading and posting is for.
- `KeepsPromise`: the daemon implements `Report`, next to commands that push past it.
- `StaleSocketGone`: a socket file left by a killed process is no obstacle, unless it cannot be
  removed (then the daemon goes on without a socket).
- `Attended`, `ReadIsAnswered`: whoever waits, waits for a goroutine or a listener that
  is there, after any crash, failure and termination: for the mutex, for the
  answer on the socket, for the push before a shutdown. `boot push` reads without a
  deadline, so that nothing else would end its wait. This is the safety half of the
  liveness properties below, and unlike them it is proved.
- `SilentWhenOff`: a daemon that runs with `report_boot_options: false` tells of no menu, on
  whatever path `TriggerUpdate` is reached: Home Assistant stores none from it, and it leaves
  no request behind that carries one. What an earlier process left under way when the setting was
  still on is not its doing, and may arrive.
- `ShutdownCarriedOut`: a `POST /shutdown` that was accepted gets to `performOSShutdown` and
  then to its answer, whatever became of the push before; only the end of the process prevents it.
- `TerminationCompletes`, `ClientAnswered`, `HandshakeCompletes`, `PushReturns`: nobody waits
  for ever. That the final push of a daemon that ends gets through is not among them: its two
  seconds run while it waits for the mutex, and it may fail.
- `TargetsReported`, `StackIsPath`: the parser follows GRUB's nesting.
- `HookApplied`, `UnitHasConfig`, `RemovedForGood`: the promises of completed commands,
  and the order of steps that keeps a unit from outliving its configuration.
- `SavedLoads`: the agent accepts every file the survey, an edit of the kinds in `Edit`
  or both leave. The survey does write two that it refuses, which the property names: an
  address with a character `ValidateHost` does not know, and a GRUB URL whose scheme
  is spelled in capitals. Nor does it cover the placeholder of `config init`, or a file that a
  failed write has truncated.
- `AsAsked`: read back, the file holds the answers, although `Save` leaves out defaults.
- `NoDrift`: as long as nobody edits the file after `setup` or `setup --apply`, `serve` finds the
  script it expects. The three make the same script from different sources.
- `ResultComes`, `SurveyGoesOn`: where the survey waits for a goroutine, that goroutine
  runs or has sent its result, a failure included; so it does not wait for ever.
- `RunningMeansRun`, `StopCarriedOut`, `DeadDaemonNoticed`: what the control manager shows
  and asks for agrees with what the daemon does, in every order of a stop, requests for
  the status, the end of `run` and crashes.
- `NothingLost`: a result or a request is in its channel until the handler has left its loop
  over one of them, and the handler leaves it for nothing else.
- `HooksUninstalled`, `UnitNamesFile`, `HookSpeaksHTTP`, `ConfiguredMenuIsRead`, `SavedIsFound` are what documents
  and help texts say and the code does not do; `findings` in `PROJECT.json` quotes them.

## 5. Proofs

All are safety properties and one refinement, for any number of clients, callers, tokens, menus,
scripts, interfaces, names, URLs, inputs and requests, under the named assumptions on
the constants (the goroutines are distinct, `RetryInterval` lies between 1 and
`MaxBackoff`, every key is a token or none, there is at least one key and one setting of
`report_boot_options`, markers such as `None`, `NoToken`, `Truncated` are
no values, the names of `Settings` are not empty, the interfaces of `Wizard` have
addresses that `ValidateHost` accepts).

- `DaemonProofs`. `TypeInv` is `TypeOK` with the token of a running process;
  `PushInv` adds who can be where: whoever is between lock and return holds
  `mu`, a request that is outstanding belongs to the position of its sender, an
  answer `OK` means that its menu was stored, and the menu a goroutine has read is no older than the one
  when it was called and no older than what the daemon has sent before. From it follow
  `MutualExclusion`, `Freshness` (`PushIsFresh`) and `NoRegression` (`NoRegress`).
  The mutex is needed for the last: two goroutines that have both read
  could send in the opposite order. `SocketReachable` (`StaleSocketGone`) needs only that
  no listener exists without a process (`SocketInv`). `NobodyIsForgotten` (`Attended`)
  adds `Waiting`, which ties each waiting party to the position of its goroutine and
  each open connection to the listener; that the mutex is not left locked comes from `PushInv`.
  `OffMeansOff` (`SilentWhenOff`) rests on the part of
  `PushInv` by which a goroutine that has got as far as posting a menu belongs to a process that reports. `HandshakeIsPaced` bounds the
  pause between two registrations by `RetryInterval` and `MaxBackoff` and shows that
  it never shrinks.
- Senders beside the daemon. `Beside(p)` is a request of `p` that is not sent from inside
  `TriggerUpdate`, as that of `boot push`. `PushInv` allows them, so that the lemmas
  about the steps of the daemon hold with commands next to it; in `Spec` alone there
  are none (`AloneInv`), and the theorems of `DaemonProofs`, `TokenProofs` and
  `ReportProofs` use that.
- `TokenProofs`. `TokenInv` says that from the moment the registration is answered until
  the process ends, the token in Home Assistant is that of the process or was
  brought by a late request, or that the host was unregistered, and that with a key that never
  changes every late registration carries that key. It gives `TokenStaysInSync` (`TokenInSync`) and, as a
  property of the steps, `ShutdownAccepted`: `POST /shutdown` by Home Assistant is
  refused in no other case.
- `ReportProofs`. `Implementation` (`KeepsPromise`): each step of `Daemon` is a step of
  `Report` or leaves its variables alone. `PushInv` makes an accepted live request a
  `StoreFor`; `LateInv` (no abandoned request carries a menu that was never on
  disk) makes a late one a `Stray`.
- `BootPushProofs`. `CommandOK(c)` follows a command along both paths: the goroutine
  that serves it and the command itself send for the same `c`, but never at the same
  time, and the menu on the way is no older than the start of the command. It is
  kept by every step of the daemon, its crash included. `CliTypeCorrect` and, where
  reporting is never switched off (`FALSE \notin Reports`), `SuccessIsTrue` (`PushedIsFresh`). `BesideInv` is this with the invariants of
  the daemon, which the steps of the commands keep too: hence `DaemonUndisturbed` (what
  `DaemonProofs` and `TokenProofs` say of the daemon alone holds next to any number of commands),
  `PromiseKeptBeside` (`KeepsPromise`: a direct push is a `Stray` of `Report`) and
  `AnswerComes` (`ReadIsAnswered`).
- `MenuProofs`. `MenuInv` relates each context on the parser's stack to the block of
  the submenu GRUB has open: its depth is the number of blocks around it. It gives
  `ParserCorrect` (`TargetsReported`), `StackFollowsPath` (`StackIsPath`) and `ParserTypeCorrect`
  for files of any length, without `MaxLines` or `MaxDepth` playing a part.
- `InstallProofs`. `InstallInv` says for each step of a command what the earlier steps
  have established and nothing that can happen meanwhile undoes: `HookInv` for
  installations, `RemoveInv` for removals, `ConfigInv` for the file, `ToolInv` for a host
  without `update-grub`. It gives `InstallTypeCorrect`, `HookIsApplied`, `UnitAlwaysHasConfig` and
  `RemovalIsForGood`, also for `GrubTool = FALSE`, which no run has. Two theorems say what
  the violations of `install_path` and `install_hooks` need: `UnitNamesGivenFile` (where every
  command is given `--config`, `UnitNamesFile` holds) and `HooksGoIfReported` (where reporting
  is not switched off while the script or its output is there, a completed removal has taken both; one
  that is told not to report then has nothing to remove, `NothingThere`).
- `WizardProofs`. First the functions on configurations: `RoundTrip` (the agent runs by
  the same settings whether it is given a configuration or the file saved of it) and
  `NoFalseDrift` (the script made from a configuration is the one expected from its
  file; a wait time of 0, which no prompt accepts, is the exception) and `SavedStaysValid` (the
  file is accepted exactly if the configuration is: saving, which does not validate,
  hides no mistake and makes none). Then the survey:
  `AnswersInv` says which answers have been given at each step, `FileInv` what any file can be,
  `StoredInv` that between `SaveConfig` and `InstallHook` the file holds the answers. They
  give `WizardTypeCorrect`, `AnswersSurvive` (`AsAsked`), `SavedFileLoads` (`SavedLoads`)
  and `ScriptMatchesFile` (`NoDrift`). `NeverInVain`
  (`ResultComes`) needs `TasksInv`: at which prompts each of the two tasks is started, and
  that its result is received at one of them only. `HookIsPlain` says when the
  violation of `setup_https` cannot happen: where every instance that is found has an http
  URL and nobody types an https one (`PlainChoice`). `PlainInv` follows the URL from
  the answers of an instance to the hook.
- `WindowsProofs`. `ServiceInv` says what `Execute` has started and reported at each of
  its steps, and that a goroutine that has not returned has sent nothing: the channel never holds
  two results, so that nobody blocks in a send. `ServiceTypeCorrect`,
  `RunningIsTrue` (`RunningMeansRun`) and `NoEventIsLost` (`NothingLost`, itself a part of it).

Every invariant of the passing runs is proved, and so are `NoRegress`, `SilentWhenOff` and the
refinement `KeepsPromise`. Only model-checked: the liveness properties, which fairness puts out of
the prover's reach. The five properties that a run shows violated are of course not
proved; for three of them the theorems above name a condition under which they hold, the
fourth (`SavedIsFound`) fails wherever nobody has put a configuration into the
directory that the service starts in, and the fifth (`ConfiguredMenuIsRead`) for every
`grub.config_path` other than the file `findConfig` comes to first.

## 6. Not modelled, and why

- Debug logging copies the log of `setup` into a buffer and writes it out if `setup` fails;
  no other part reads it. The entry point, the version and the packages have no state.
- Of the configuration: overrides by flags and environment variables, which replace single
  fields of what `Unmarshal` returns, and the masked preview, which is text.
- Of the host: addresses bit by bit, and what Windows is asked for. The elevation of privileges
  and the hidden console window on Windows are calls without state here.
- Titles as strings (quotes, `>` and unbalanced braces inside them) and lines over 64 KB: they
  need titles and lines character by character.
- Several `grub.cfg` files: `Settings` has which one is read (and the finding of
  `setup_grub_path`, that it is not the one `grub.config_path` names), but `Install` knows one
  that the hook goes into, and `MenuParser` one content.
- The script's text, and GRUB's own loop around it but for the number of its attempts: they
  run in GRUB, not in the program.
- Two daemons at once: systemd runs one.
- That `service remove` unregisters the host before it stops the daemon, which can bring it
  back, and that `setup --apply` leaves a running daemon with its old configuration, are
  steps of `Install` (the first of `Daemon` as well), but no document says clearly enough what
  is meant for a property. The same goes for the port the survey proposes: after the hook-only
  mode, which saves none, it is 8081, where the daemon itself may listen and the prompt refuses it.

## 7. Order of the work

1. `Webhook`, `Daemon`, `BootPush`, `MenuParser`, `Install` with their runs and the
   first theorems: the core, in the order of what a mistake would cost.
2. `Report` and the refinement; `Settings`, `Wizard` and `WindowsService`, with which every
   component that has behaviour of its own is in a module.
3. The remaining invariants proved: the socket, the command, the configuration, the survey, the service.
4. What nobody waits in vain for, the agent that does not report, the daemon next to commands
   (with the refinement), and the conditions under which the violated promises hold.

What could follow: the characters of titles and lines against GRUB's own quoting, a second
daemon at the same socket, and the script in GRUB with the network of the boot loader.
