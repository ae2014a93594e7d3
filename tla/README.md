# nexpack in TLA+

A verification project for nexpack: the bundle launcher, the layer store and the
per-user daemon of this repository. TLC checks the models on small instances;
TLAPS proves their safety properties, and that two of them implement an abstract
specification, for every value of the constants. Source paths below are relative to the
repository root.

## 1. The system

nexpack packs an application into one file, `app.nxpk`: an ELF stub, a header, a
stack of EROFS layers and, optionally, the two binaries `nexpackd` and `nxpk`. A
user runs the file, or manages applications with the `nxpk` commands. Processes
meet in five places, and nothing but the daemon's mutex orders them:

| shared state | who reads and writes it | lock |
|---|---|---|
| `layers/`, `apps/`, `gc-roots/` | every `nxpk` command; `nexpackd`'s mount requests and update checker | none |
| the daemon's table of mounts | one thread per client, the idle cleaner | one mutex, released between steps |
| mounts and run directories | the same threads, in part without the mutex | none |
| `bin/` and the socket's path | every launch by a stub, every start of a daemon | none |
| `trust.toml` | `nxpk trust`, `trust --edit`, the user's editor; `run` and `verify` read it | none |

### Components

| component | source | state | operations | what makes it correct |
|---|---|---|---|---|
| layer store | `nexpack-core/src/store.rs` | layer images, `meta.capnp`, `current`, `current.tmp`, gc roots | store_layer, has_layer, register_app, remove_app, add_gc_root, gc | what is registered is stored; gc spares what is rooted; a torn file has an explanation |
| store commands | `nxpk/src/commands/{install,update,remove,permissions,gc}.rs`, `nexpack-core/src/update.rs` | none but local variables read earlier | one process per command | each leaves the store consistent, also beside others |
| update checker | `nexpackd/src/main.rs:96-207` | none | background prefetch and re-link | never links or registers what is not there |
| mount daemon | `nexpackd/src/main.rs:209-421`, `mount.rs` | table of entries with reference counts, mounts, run directories | mount, unmount, idle cleaning | the count is the number of users; nobody is unmounted while counted; leftovers are cleaned |
| run client | `nxpk/src/commands/run.rs` | none | find or start the daemon, ask for a mount, exec | every wait ends but the one for the daemon's answer; the application gets a complete root file system |
| ELF stub | `stub/stub.c` | files in `bin/` | connect, extract, fork, sleep, connect, exec | never executes what it failed to write; ends in a launch or a message |
| daemon start | `nexpackd/src/main.rs:10-49` | the socket's path | remove, bind, accept | some living daemon can be reached when all starts are over |
| bundle format | `nexpack-core/src/{lib,header}.rs`, `pack.rs`, `sign.rs`, `export.rs`, `stub.c:211-248` | the file | write, parse | every reader finds what every writer wrote |
| trust policy | `nexpack-core/src/signing.rs:103-184`, `nxpk/src/commands/trust.rs` | policy file | trust, edit, load, match_policy | the policy that applies is the one that was meant; what was added stays |
| signatures | `nexpack-core/src/signing.rs:1-101` | none | verify | in the bundle format as far as it says what is signed |
| sandbox | `nexpackd/src/sandbox.rs`, `run.rs:80-112`, `pack.rs:232-266` | none | bwrap arguments, BPF filter | the application sees what was granted and no more; both ways of cutting off the network agree; exactly the listed system calls are refused |
| compat, inspect, sbom, ipc schema | `compat.rs`, `inspect.rs`, `sbom.rs`, `nexpack-ipc` | none | conversion, printing, generated code | not modelled |

### What is hard here

* **No locks on the store.** Every function of `Store` is a series of system calls;
  a terminal, a second terminal, a mount request and the update checker take turns
  between any two of them. Symlinks are replaced by unlink and symlink
  (`store.rs:87-93`, `142-147`), files are written in place (`store.rs:67`, `82`).
* **gc against everybody.** It reads the roots, then lists the layers, then deletes
  (`store.rs:150-213`), while others add both.
* **A mutex that is dropped in the middle.** `handle_mount` builds the overlay before
  it takes the mutex (`main.rs:335`); the cleaner collects its victims under one
  acquisition and unmounts under others (`main.rs:214-233`).
* **Counting by hand.** Entries and counts are inserted, bumped and removed in three
  places; nothing ties them to the processes they stand for.
* **Start-up races.** Launches truncate each other's binaries (`stub.c:301`), daemons
  remove each other's sockets (`main.rs:21`), and time limits (0.8 s in `stub.c:385`,
  5 s in `run.rs:35`) decide who fails.
* **Order of mounts.** bwrap mounts in the order of its arguments, so a grant hides or is
  hidden by what comes after or before it (`sandbox.rs:9-47`); the daemon looks at the host
  in one process, bwrap mounts in another, later.
* **Crashes.** A killed command leaves what it did so far; nothing is recovered. A daemon
  that replaces a dead one starts with an empty table over its mounts (`main.rs:21-27`).

`PROJECT.json` lists each hazard at its line with the properties that catch it.

## 2. The modules

| module | models | composed of |
|---|---|---|
| `LayerStore` | store, store commands, update checker, the storing part of a mount request | |
| `MountDaemon` | `handle_mount`, `handle_unmount`, `build_overlay`, `unmount_overlay`, the cleaner, the client's side of a run, the restart of a daemon | instantiates `MountTable` |
| `Bootstrap` | stub, daemon start, the part of `nxpk run` that finds or starts a daemon | |
| `BundleFormat` | the bundle file: pack, sign and export write it, `Bundle` and the stub read it; install, edit, gc and mount between them | |
| `TrustPolicy` | `trust.toml`: `trust`, `trust --edit`, `TrustConfig::load`, `match_policy` | |
| `Sandbox` | from a spec's permissions over the arguments of bwrap and the seccomp program to the running application | |
| `MountTable` | abstract: what the table of mounts promises to its users | |
| `AppRegistry` | abstract: what the commands mean for an application's header | |
| `Registry` | the refinement mapping from the store to `AppRegistry`, with one history variable | extends `LayerStore`, instantiates `AppRegistry` |
| `MC...` | the instances TLC checks | the module of the name; `MCRegistry` extends `Registry` and `MCLayerStore` |
| `LayerStoreProofs`, `MountDaemonProofs`, `BootstrapProofs`, `BundleFormatProofs`, `TrustPolicyProofs`, `SandboxProofs` | theorems and proofs | the module of the name |
| `RegistryProofs` | the store implements `AppRegistry` | extends `Registry` and `LayerStoreProofs` |
| `SequenceFacts` | lemmas on sequences, sums and `FlattenSeq`, by induction, for the last three of those modules | |

### LayerStore

`image[d]` is the directory of a layer: absent, without an image, torn, whole, or
holding other bytes (`wrong`). `meta`, `current`, `tmp` and `root` are the files of
an application; a header is its release and its permissions. Each process has a
program counter `pc[p]`, the values it read or was given (`job[p]`), and, for gc, what
it has scanned. An action is one system call with the code up to the next one, so
TLC interleaves processes where the kernel can; `remove_dir_all` of one layer in gc
(`store.rs:208`) is the exception, one step for a directory with one file that matters. A write in place is two
actions, the open that truncates and the write that completes, and `linked[p]` says
whether the file being written still has its name. `Crash` ends a process anywhere;
`...Fails` actions are the error returns, which leave what was done.

History variables serve properties only: `steady` (roots untouched since a scan
began), `swept` (layers gc took), `cutImage` and `cutMeta` (files whose writer died),
`asked` (permissions the user last chose).

Abstractions: a digest is a model value; a release is a list of digests; whether a
download verifies is the choice of `data` in `FetchLayer` (`"wrong"` only where the
code does not compare the hash, `main.rs:163`); printing and prompting are left out.
The target of `current` is modelled as the digest it names: its text
(`../../../layers/...`) resolves one directory too high when read from `apps/<id>/`,
but the code only ever reads the text, in gc, and never follows the link.
The feed of an application offers releases of that application (`Plan`): the update checker
never compares the feed's `app_id` (`main.rs:139-147`), so a feed that names another one is
left out.
gc takes the last path component of that text, which for `current` is `image.erofs`
and names no layer; so only `gc-roots/` protects layers in the model, as in the code.

### MountDaemon

A client is one run of an application. `pc[c]` follows the thread that serves it
(`layers`, `mount_layer`, `clear`, `wipe`, `overlay`, `count`), then the client itself
(`reply`, `running`), then the thread that serves its Unmount. `overlay[a]` is the stack
of mounts at the run directory, because `mount` over a mount point stacks and
`umount` takes the last; each is `whole`, `partial` (a layer was missing) or `wiped`
(its upper directories were deleted under it). `lock` is the mutex; steps that the
code performs with it held over external commands are separate actions.
`Sticky` names what can refuse to unmount: a busy mount, and a kernel mount, which
`fusermount -u` does not take down while the fallback `umount -u` is not a valid
command line (`mount.rs:176-188`). `Polite` clients send Unmount: the daemon handles
that message although no program of the repository sends it.

`Restart` is the death of a daemon and the start of the next: its threads and its table are
gone, requests without an answer fail, mounts and runs stay. A run that the dead daemon
counted is a `stray`; when it sends Unmount, the request only names the application, and
the new daemon takes it for one of its own (`main.rs:386-387`). History variables tell what
can be blamed on that: `crossed` (applications where it happened), `leaky` (applications
with an overlay that was mounted over or left by an earlier daemon), `abandoned` (counted
runs that ended without a word), `restarts`. A new daemon's `abandoned` and `crossed` start
afresh with its table. A daemon whose socket another one has taken (`main.rs:21`) lives on with its
cleaner, over the same mounts; that is not modelled, only the replacement of a dead one.

### MountTable and AppRegistry

`MountTable` has no threads, mutex, counts or mounts: `users[a]` is the set of those who were
told "mounted" and have not given the application back, and `Reclaim` may take an application
out of the table only when it has none (or when somebody gave it back who was not a user,
`doubted`). `MountDaemon!Table` maps `users` to the runs at `reply` or `running`, `kept` to the
entries: `Count` is `Acquire`, `Unmount` is `GiveBack`, `Forget` and `CleanForget` are `Reclaim`, `Restart` is
`StartAfresh`, all else stutters.

`AppRegistry` replaces a header at once: an update changes the release and keeps the
permissions, an edit changes the permissions and keeps the release, an install sets both.
`Registry` maps the store to it: between the open that truncates `meta.capnp` and the write
that completes it, the header is the one its writer carries. An application that two
commands work on at a time, or whose header was torn by a kill, is `mixed`, and the
registry knows nothing of it (`Unknown`) until no command works on it any more.

### Bootstrap

`file[f]` is `bin/<f>`. A launch goes through the stub (`connect`, `path`, `open`, `write`,
`fork`, `sleep`, `reconnect`, `exec`) and then, as `nxpk run`, through `socket`, `start`,
`wait`, `dial`, `served`. A daemon goes through `started`, `unbound`, `bound`, `serving`;
`socket` is the daemon whose socket has the path, dead or alive. Before `socket`, `nxpk run` may
refuse the bundle (`BundleRefused`: `run.rs:7`, `12`); at `served` it waits for the daemon's
answer, which comes (`Answered`) when the daemon decides so, or never; a daemon that dies
closes the connection (`ConnectionLost`). The kernel's rules
about busy text files, bound paths and refused connections are `InUse`, `Executable`,
`Bind`, `Serves`. `truncator[f]` is the launch that emptied the file last: if another
launch finishes writing the same file, what it wrote before that is lost, and the file
may or may not be whole. Time limits are actions that compete with what they wait for.

### BundleFormat

`file[n]` is a sequence of cells. A cell is a run of bytes that no code looks into: the
magic with its header, a piece of the header, a block of a layer, a field of the
bootstrap section, the trailer. Offsets and sizes count cells, so an offset that misses
a field reads something else, as it would with bytes. `Pack`, `Sign` and `Export` do what
their commands do before the output file is created and leave in `todo` what they have
still to write; `WritePart` appends one piece, `Interrupt` ends the writer at any cell of
it, `ExportFails` is a layer that gc took from the store before export came to it.
The readers are operators: `Parses` and `HeaderOf` (`BundleHeader::parse`), `ExtractLayer`,
`ExtractBootstrap` (`Bundle`), and `StubBootstrap` (the trailer in `stub.c`). `Install`,
`InstallFails`, `Mount`, `Edit` and `Gc` carry the header and the layers from one file to the next.

`done[n]` remembers as what a file was finished, `edited` and `changed` which headers a
permission edit has changed since they were signed.

Abstractions: a block's content is its layer and its place in it, so a digest matches
exactly the blocks of its layer in order; a signature is the artifact it covers; the
encoding of header fields is left out but for its length. `nxpk update` does not apply,
because `pack` leaves `update_url` empty. There is one writer at a time.

### TrustPolicy

`toml` is the file as a sequence of sections, with what `from_str` looks at: the pattern, and
whether the section has `identities`. A command reads, empties and writes the file in
separate steps, and commands of two terminals interleave there. A write puts its bytes at
the start of whatever the file holds by then (`Over`): sections have a size, so that a
shorter text leaves the end of a longer one, in whole sections or with a `Piece` before them.
`CutShort` is a write that fails or is killed after any number of sections or in one.

`nxpk trust` pastes pattern and identity between quotes without escaping either
(`trust.rs:15-22`). `Key[p]` is the key that pattern `p` is when it is read back: itself, or
another one if the pattern has an escape, or none if it breaks the quotes. `Pasted(p)` is the
section that comes of it, or a `Piece`, which every file with it fails to load; the identity can
always be one that breaks its quotes, so `Piece` is always among them. A text that closes the
quotes and goes on as further valid sections is not modelled. "Trust policy added" is printed
in every case; `told` takes the pattern only when a section of that name is in the text.

The editor is the user's: it loads the file, and saves it as it is, without one section, or with
one more, a policy or a `Piece`. Whether the result parses is only reported
(`trust.rs:58-71`), so `Save` has no guard.

`WildMatches` is `wildmatch_recursive` as a recursive function over the two rests; `Meant` is the
definition it is compared with, a cut of the name into one piece per character of the
pattern. `MatchPolicy` is a set because the order of a hash map decides between patterns of
one length; `Length` is in bytes, as `pattern.len()` (`signing.rs:139`), and no less than the number
of characters. History: `told` (patterns reported as added and not edited out), `stale`
(terminals whose text is older than the file), `harm` (a write that was cut, or overlapped),
`blame` (what the write that broke the file had against it; empty as long as the file loads).

### Sandbox

`spec` is the `[permissions]` of a pack spec with `None` for a field that is not there; `Pack` turns it
into the `PermissionSet` of the header, `Ask` is the part of `handle_mount` that makes the
arguments and the program. A path is a sequence of names, so that "below" is "prefix";
`shellexpand` maps each name. `MountNext` is one mount of bwrap, in order: it needs its source,
unless it is a `--ro-bind-try`. `Shown(p)` is the last mount at or above `p`. `Vanish` takes
a socket or a directory from the host after, or before, the daemon looked.
`Block` is the BPF program instruction for instruction, `Answer` the kernel's interpreter of its
three instructions. bwrap, mounts and the kernel are marked external in the map. Network,
devices, sockets and display are taken from the bundle file: what `nxpk permissions --edit`
writes into the installed header is not what `nxpk run` uses.

## 3. What the runs check

Passing runs, with deadlock checking on except in `Sandbox`, whose one run may end in a
failure or a killed application:

| run | instance | properties | shows |
|---|---|---|---|
| `StoreAlone` | one process, two applications that share a layer, three layers, two permission sets, no faults | `AtRestConsistent` | after any sequence of commands every installed application is all of one release: header, link, root, layers, permissions |
| `StoreTerminals` | two processes, one with install, update, remove and gc, one with install and edit; one application of two releases, two permission sets, one fault | `InstalledLayersStored`, `GcSparesSteadyRoots`, `ImplementsRegistry` | a registered header names layers that were stored; gc deletes no layer that a standing root names; where one command works on an application, its header changes as `AppRegistry` says |
| `StoreDaemon` | install, update, remove and gc beside update checker and mount request, one fault | `TypeOK`, `TornOnlyByFault`, `LinksStored` | a torn file has a writer at work or one that died; links name stored layers |
| `MountDaemon` | two runs of one application with two layers, one polite; every mount can stick; one restart | `TypeOK`, `RefcountIsHolders`, `NoRunIsTornDown`, `OverlaysTracked`, `ImplementsTable`, `LeftoversRetried` | the count equals the users; nobody is counted while a thread unmounts; no overlay is out of sight but those of applications that an earlier daemon left mounted or that were mounted over; the whole implements `MountTable`; an entry that nobody counts on is tried again and again |
| `Bootstrap` | two launches, two daemon processes, one fault, nxpk installed for one of the launches or for none | `TypeOK`, `OneServes`, `TornByAnother`, `LaunchEnds` | the socket's handover keeps a living daemon reachable; only another launch's failure makes one execute a torn file; every launch ends, unless it waits for the answer of a living daemon |
| `BundleFormat` | three contents: layers of sizes 1 and 2 alone and in both orders, with no, one and two binaries; two files; two permission sets | `TypeOK`, `WholeReadsBack`, `StubFindsWhole`, `SignatureStands` | a finished bundle reads back through any chain of pack, sign, install, edit, gc, export; the stub never extracts from an unfinished one; a signature survives install and export |
| `TrustPolicy` | two terminals; the patterns `*?`, which is also the template's, `\*`, which breaks its quotes, and `\\*`, which reads back as `\*`; all names of up to three characters over `a` and the backslash; two sections, one cut write | `TypeOK`, `PolicyIsMeant`, `BrokenHasReason`, `ToldIsKept` | the policy of an application is one that is meant for it, and the most specific; a file that does not load was broken by one of six things; what was added stays through what is added later |
| `Sandbox` | 65 specs (grants under `/tmp`, `/run`, `/dev`, `/etc`, the root, the home by variable, a variable without a path; sockets, displays, devices; every kind of network), 12 environments (one kind has `XAUTHORITY` at `/run`, a directory above the application), three paths that can be missing and go; the calls at the edges of the list, on two architectures | `TypeOK`, `OnlyGranted`, `GrantsHold`, `FailureExplained`, `NetworkAgrees`, `CallsAreJudged` | what the application sees and can write was asked for; what was granted it has; a start that fails has a reason of its own, unless a source that it needs went away; namespace and filter agree; each call gets the answer that was meant |

Runs whose violation shows a disagreement between the program and what its
documentation or messages say:

| run | what TLC finds |
|---|---|
| `GcLowerLayers` | install, then gc: every layer but the top one is deleted, because only the top layer gets a root (`install.rs:31-35`, `store.rs:201`) |
| `UnverifiedPrefetch` | the update checker stores data that does not have the digest (`main.rs:163`) |
| `SandboxFork` | the list of network calls to refuse contains 57, which is `fork` on x86-64, and not 55, `getsockopt` (`sandbox.rs:183`) |
| `MountSecondRun` | a second run of an application takes the overlay of the first one, which was answered "mounted" and is counted, for a stale mount and takes it down (`HeldStaysWhole`; `mount.rs:35-39`) |

### Bounds, and why they are enough

* *Two processes* on the store: each hazard of section 1 is one process acting between
  two steps of another. A third would only add a second interloper; the proofs cover
  any number.
* *Two releases, two layers*, the second release on top of the first: the top layer of
  one is a lower layer of the other, which is what gc and update treat differently.
* *`MaxFaults` = 1* bounds crashes and failed writes. One is enough to leave any torn or
  half-registered state, which all later commands then meet.
* *`MaxAbandoned`, `MaxStack`* bound runs that end silently and overlays stacked over one
  that does not unmount; `Count` and the unmount paths treat a second one as the first.
* *`MaxRestarts` = 1*: a second restart meets runs and mounts of the same kinds; the proofs
  are for any number.
* *Two daemon identities* in Bootstrap: a third start meets the limit on processes, whose
  error return is modelled (`ForkFails`, `StartFails`). Identities are used again.
* *Three contents* in BundleFormat: a layer before another of a different size, in both
  orders, and a section with zero, one and two entries, tell every offset from its
  neighbours. The two files are what a writer reads and what it writes.
* *TrustPolicy*: two sections are enough for a duplicate, a tie and one section written
  over another; the three section sizes differ, so that overlaps leave a whole section, a
  piece, or both. The three patterns are the three values of `Key`: the pattern, another, none; the
  first two have one length and names in common. Names up to three characters put each star at
  its empty, its short and its long match, and the question mark at the end of the name.
* *Sandbox*: one path goes per run (`MaxGone`); a second one ends the start no differently.
* Symmetry is used in `TrustPolicy` alone, over the two terminals; that run has no liveness
  property.

### Fairness

`LayerStore`, `BundleFormat`, `TrustPolicy` and `Sandbox` have no liveness property and no fairness.
`MountDaemon!FairSpec` gives every thread of the daemon weak fairness, and strong fairness to taking
the mutex, which others can take again and again. An unmount returns, with success or with an
error (weak fairness to the disjunction): nothing promises that one succeeds, however often it is
tried. Nothing obliges a client to mount or to end.
`Bootstrap!FairSpec` gives weak fairness to each launch and to each daemon's start: processes
run, sleeps and time limits pass, and a connection to a dead daemon breaks. There is none on the
daemon's answer to a mount request, for which `read_message` (`run.rs:53`) waits without a limit.
Faults have no fairness.

### What is deliberately not claimed

* `InstalledLayersStored` does not hold with the update checker, which advances the
  header even when a layer could not be downloaded (`main.rs:190-202`); the instance, and
  the theorem's assumption `NoChecker`, leave it out.
* A torn image left by a failed write counts as present for `has_layer` and is never
  written again (`install.rs:12-18`): `TornOnlyByFault` says where it comes from, not that
  it goes away.
* Removing an application frees nothing: `remove_app` leaves the gc root
  (`store.rs:98-107`), so gc keeps the top layer for good. No property says that gc
  deletes all that is unused.
* `SignatureStands` is about headers no edit has changed. An edited header that is
  exported keeps the signature of the old one, and verification then refuses it.
* A permission edit writes back the header it read before the user answered
  (`permissions.rs:121-125`), so it undoes an update made meanwhile;
  `AtRestConsistent` is therefore about commands that do not overlap, and
  `ImplementsRegistry` about applications that one command works on at a time.
* `GcSparesSteadyRoots` is about roots that stand during the whole collection. A new or
  replaced root is not protected, and a crash between `register_app` and `add_gc_root`
  leaves an application without one.
* `LeftoversRetried` says that the cleaner comes back, not that it gets anywhere. A kernel
  mount never comes down: `fusermount -u` does not take it, and `umount -u` is no valid command
  (`mount.rs:176-188`). An entry without an overlay (its second mount failed after the first was
  cleared) stays in the table too, since `unmount_overlay` fails for it each time.
* `OneServes` counts living daemons that can be reached, not daemons: a daemon whose
  socket was taken keeps running with a table nobody can talk to.
* An application that ended is not unmounted: `nxpk run` becomes the application and never
  sends Unmount (`run.rs:120`), so its count never returns to zero. `LeftoversRetried` is
  about entries that count nobody, and `MountTable` keeps a silent user for ever.
* An Unmount of a run that an earlier daemon counted takes down the count of another run,
  and can take away its file system: `RefcountIsHolders` and `NoRunIsTornDown` leave out the
  applications where that happened (`crossed`).
* A second launch on a machine without an installed nxpk extracts over the running daemon
  and fails (`stub.c:301`), although README.md:80 says that the binaries are reused:
  `LaunchEnds` holds because failing is an end. It also lets a launch wait for ever for the
  answer of a living daemon.
* A socket whose daemon is dead makes every launch fail (`run.rs:32`, `DialFails`) until somebody
  starts a daemon otherwise. `LaunchEnds` is content with failures.
* `sign` leaves the bootstrap section out of the signed copy, whose header keeps its size
  (`sign.rs:51`, `71-73`): `WholeReadsBack` is about what a writer set out to write.
* A policy that was added need not be in force: trusting a pattern twice writes its table
  twice, and then no policy loads (`trust.rs:15-24`); neither does one when a quote or a backslash in
  pattern or identity breaks the file, when an edit leaves it invalid, or while the template of
  `trust --edit` stands, which the parser of the same command rejects (`trust.rs:47-48`).
  `BrokenHasReason` says that these, an overlap and a cut write are all that breaks the file.
* Overlapping `trust` commands lose policies; `ToldIsKept` ends with the first overlap, because the
  code keeps nothing that could be stated.
* The comment "The default policy is used when no specific match is found" (`trust.rs:45`) has no
  code behind it: `match_policy` knows no default, and the section it stands in never loads.
  `PolicyIsMeant` speaks of patterns that match. Between patterns of one length the order of a
  hash map decides.
* `NetworkAgrees` leaves open what a list of network patterns means. In the code any list, even
  an empty one, is full network for both the namespace and the filter (`sandbox.rs:49-52`), and
  the patterns are never looked at, while README.md:87 says "blocked or restricted based on the
  network field". The property asks that namespace and filter agree, that "yes" has a network
  and that a spec with neither has none. `display =
  "wayland"` alone gets no socket unless `ipc` has `wayland` or is left out. Without `--sandbox`
  none of this applies.
* `FailureExplained` has the failures of missing sources and of an application that a grant
  hides; a source that went between the daemon's look and bwrap's mount is a reason. Other
  failures of bwrap are not modelled.

## 4. What is proved

The proofs are checked by tlapm to the last leaf, for any sets of processes, applications,
layers, releases, runs, daemons, terminals, patterns, specs, hosts and bundles, from the
assumptions named in the modules. These give the constants their types and keep the
sentinels (`None`, `Torn`, `Unknown`) apart from what they stand beside; besides that, `Client` is
finite, a release has at least one layer, and a layer at least one block.

| theorem | states | argument |
|---|---|---|
| `LayerStoreProofs!TypeCorrect` | `[]Typing`, `[]TypeOK` | `Typing` adds to `TypeOK` what each program point finds in its job (`LocalOK`: which release, which layer index, which files); without it `Layer(p)` may be out of range. One lemma per group of actions |
| `LayerStoreProofs!GcSafe` | `GcSparesSteadyRoots` | `ScanInv`: while gc runs, each steady root is still to be read or its layer is in `reach`. Every action that touches a root takes it out of `steady`; only `GcDelete` removes an image, and never one in `reach` |
| `LayerStoreProofs!LinksCorrect` | `[]LinksStored` | `LinkInv`: what a process is about to link or to write was stored when it looked and can have gone only by gc (`Seen`); `Stored` only grows when `swept` is counted in |
| `LayerStoreProofs!HeadersCorrect` | `NoChecker` implies `[]InstalledLayersStored` | the same invariant: at the point where a header is written all its layers have been seen, which holds on every path but the update checker's |
| `LayerStoreProofs!TornCorrect` | `[]TornOnlyByFault` | `ImagesExplained` and `HeadersExplained`, one for the images and one for the headers: who tears a file is its writer, and a writer ends by finishing it, by losing its name to a removal, or on record |
| `LayerStoreProofs!RestCorrect`, `RestAlone` | `NoChecker` and `[]Undisturbed` imply `[]AtRestConsistent` | below; `RestAlone` is the case of one process and no faults, as the run has it |
| `RegistryProofs!RegistryCorrect` | `ImplementsRegistry` | below |
| `MountDaemonProofs!TypeCorrect` | `[]TypeOK` | inductive as it stands |
| `MountDaemonProofs!CountCorrect` | `[]RefcountIsHolders` | `Counting` = `TypeOK`, `RefcountIsHolders` and `Claimed`: who unmounts holds the mutex and has found nobody counted. Without `Claimed` the removal of an entry could drop a count that is not zero |
| `MountDaemonProofs!TearDownCorrect` | `[]NoRunIsTornDown` | from `Counting` |
| `MountDaemonProofs!TrackCorrect` | `[]OverlaysTracked` | `Tracked`: outside `leaky` there is at most one overlay per application, and who is about to take the entry out of the table has unmounted it. Without the bound of one, the unmount could leave another below |
| `MountDaemonProofs!TableCorrect` | `ImplementsTable` | step simulation under `Counting`: each action maps to the action of `MountTable` named in section 2 or to a stutter. `Reclaim` needs `NoRunIsTornDown` and `RefcountIsHolders` (a count of zero is a set of users that is empty and nobody silent), `Acquire` that a client is in one place |
| `BootstrapProofs!TypeCorrect` | `[]TypeOK` | inductive as it stands |
| `BootstrapProofs!BlameCorrect` | `[]TornByAnother` | `Blamed`: who emptied a torn file last is still writing it or has left its name beside it, and a launch whose name is there has to open the file again before it executes anything |
| `BootstrapProofs!HandoverCorrect` | `[]OneServes` | `Handover`: while nothing is killed, the socket's owner lives, and if any daemon lives, one has the socket or is on its way to it |
| `BundleFormatProofs!TypeCorrect`, `WholeCorrect`, `StubCorrect`, `SignatureCorrect` | `[]TypeOK`, `[]WholeReadsBack`, `[]StubFindsWhole`, `[]SignatureStands` | below |
| `TrustPolicyProofs!TypeCorrect`, `KeptCorrect`, `ReasonCorrect` | `[]TypeOK`, `[]ToldIsKept`, `[]BrokenHasReason` | below |
| `TrustPolicyProofs!MatchCorrect` | `[]PolicyIsMeant` | below |
| `SandboxProofs!TypeCorrect`, `GrantedCorrect`, `GrantsCorrect`, `FailureCorrect`, `NetworkCorrect` | `[]TypeOK`, `[]OnlyGranted`, `[]GrantsHold`, `[]FailureExplained`, `[]NetworkAgrees` | below |
| `SandboxProofs!CallsCorrect` | `[]CallsAreJudged` | below |

`RefcountIsHolders`, `NoRunIsTornDown` and `OverlaysTracked` are proved as they are checked: for
the applications outside `crossed` or `leaky`, through any number of restarts.

**Commands at rest.** `AtRestConsistent` speaks of moments when no command runs, so everything it
says has to be carried through the commands in between. It holds for any number of processes
that take turns (`InTurns`) as long as nothing fails (`Undisturbed`), the update checker not among
them: those are the conditions under which the code means it to hold, and the registry's
theorem says what is left of it when they do not. `RestInv` has a part for each thing that a
command relies on. Images are what their digest names or are being written (`ImagesMeant`); the
layers that a command has seen or stored are there (`Have`); a root names a layer in the
store, and a collection has every root in its scan (`RootsInStore`, `Reaches`); what a command has
made of its links and its header so far is as it left it (`Way`); and an application that does not
agree with itself is the one the command at work is just rewriting (`Settled`, `Mid`). `Way` is
what makes the error paths of the links unreachable: nobody else made the link, or removed the
directory. At rest, `Settled` is left; that the lower layers are whole or were swept comes from
`LinkInv`, and that none is torn from `ImagesExplained`.

**The registry.** `RegInv` is the types and `HeadersExplained` of the store and three facts. `OpsInv`: which
commands can be at which program point. `MixOK`: an application where two commands met, or whose
header a kill tore, is in `mixed` for as long as that lasts. `SoleInv`: the only worker of any
other application knows its header. The header is torn while that process writes it, and is
otherwise the one the process has read (`Agrees`), so that what it writes is the old
release with other permissions, or the old permissions with another release. Under `RegInv` the
choice of the writer in the mapping has at most one candidate (`ShownMeans`); a step touches
one application (`Footprint`), and shows of it one action of `AppRegistry` or nothing.

**The bundle.** `BundleInv` says that each file, after every cell that is written, is the beginning of
a bundle that somebody meant (`Part`: what is there, and a rest, make up `Whole(h, boot)`), that the
pieces its writer has left lead on within that same bundle, and that a file that is finished
has no rest. An unfinished file either has no binaries in its bundle or lacks the trailer, which is the
last piece: that keeps the stub from it. The lemmas above say what each reader gets from a
`Part`: the header when all of it is there and nothing before (`HeaderIsRead`), each layer at the
sum of the sizes before it (`StartsAreRead`, `LayersAreRead`), the layers that `sign` carries over
from a bundle that may be cut off (`ReadableIs`), the binaries by the recursion of the section's
reader (`NextIsPlace`). They are inductions over layers and binaries, in numbers no run has.

**The trust policy.** `TrustInv`: a text that is not outdated is written into an empty file (`Emptied`),
so that it is then what the file holds; the text of an addition is one section behind what was
read (`AddsOne`); with no harm done and nobody about to do any (`Doomed`), what was told is in the file
or in the text being written (`Kept`); and a file that does not load has its reason, and so has the
text that was read from one, as long as it is not outdated (`Explained`). Neither of the last two is
inductive without the other terminals' texts. The step that counts
is `Write`: an addition that is not outdated, whose section is whole and whose pattern is new, turns
sections that load into sections that load (`StillParses`, a count of patterns), and every other
write has one of the `Reasons`. For `PolicyIsMeant`, `Meant` is restated for the rests of pattern and name (`MeantFrom`),
and shown to follow the five cases of `wildmatch_recursive`; that gives both that the
recursion has a solution and that every solution is what is meant.

**The sandbox.** `Mounts`: of what bwrap was asked for, the mounts still to be made follow those that are
made in the order own, application, host; each mount of the host has an explanation in the spec or the
environment; and until bwrap fails, the application and every grant are among the made and the
asked. The last mount over a path decides what it shows (`ShownIsLast`), so an order in which
nothing of bwrap's own follows a grant gives `GrantsHold`. For `CallsAreJudged`, the program is
laid out by positions (`BlockLayout`, `Accumulator`), and what each instruction answers is found
from the last test back to the first.

What recursive functions compute (`Answer`, `WildMatches`, `Entries`, `FlattenSeq`, the sums) is proved for all
arguments by well-founded induction with a least counterexample, which needs no
theorem with an operator as a parameter (`SequenceFacts`).

Only model-checked: the liveness properties `LeftoversRetried` and `LaunchEnds` (liveness
under fairness is out of this prover's reach). The four runs that expect a violation have
nothing to prove.

## 5. What is not modelled

* The encoding of header fields, EROFS images, cosign and sigstore, HTTP, the generated IPC
  schema, path and buffer lengths in `stub.c`.
* Verification of layers before a run is the choice between success and failure. A
  signature that does not verify, and the policy that applies, are only printed
  (`run.rs:13-27`, `verify.rs:27-54`).
* `handle_list` and the status request, which only read the table; `load_config`, which gives two
  intervals; the temporary file that carries the seccomp program (`run.rs:125-142`).
* The converters (`compat.rs`): single runs of external tools without shared state. Most of
  the code is not reached: `find_squashfs_offset` (lines 152-182) wants bytes 8 to 11 of the
  file to be 0 or FFFFFFFF, where an AppImage has its mark, and otherwise answers an offset
  four bytes before the superblock; and `--set-env` (lines 259-291) is no option of bwrap.
* SBOM and inspection commands: formatting of what the header says.
* In `Sandbox`, variables that are passed on to the application, and namespaces other than
  the network's.

## 6. Plan

Done, in this order: `LayerStore` and its proofs, `MountDaemon` and its proofs, `Bootstrap`,
`BundleFormat`, `TrustPolicy`, restarts in `MountDaemon`, `MountTable` with its refinement proof,
`AppRegistry`, `Sandbox`, and then the proofs of section 4. Next:

1. Facts that the runs use as background and that no theorem states: in `MountDaemon`, who holds
   the mutex; in `LayerStore`, that a crash alone never makes a root point to nothing.
2. What a command that failed half way needs to be repaired: that installing the release again,
   undisturbed, leads from any state of the store to one that is `Settled` for its application.
