# TLA+ models of the vSphere cloud provider

This directory holds TLA+ specifications of the Go programs in this repository
(the vSphere cloud controller manager and the vSphere CSI driver), the TLC
configurations that check them on small instances, and TLAPS proofs of their
main properties for every value of the constants. `PROJECT.json` lists the
components, runs, mutants, findings, hazards and theorems, and maps every
definition that models code to its source lines.

1. [The system](#1-the-system)
2. [Modules and the code](#2-modules-and-the-code)
3. [Runs](#3-runs)
4. [Bounds, fairness, deadlock](#4-bounds-fairness-deadlock)
5. [Proofs](#5-proofs)
6. [Where the code and its comments disagree](#6-where-the-code-and-its-comments-disagree)
7. [Abstractions, and what is not modelled](#7-abstractions-and-what-is-not-modelled)
8. [Plan](#8-plan)

## 1. The system

Two processes are built from the shared packages under `pkg/common`.

The **cloud controller manager** (`cmd/vsphere-cloud-controller-manager`,
`pkg/cloudprovider/vsphere`) answers Kubernetes' questions about nodes: which
addresses, which instance, does it still exist, in which zone is it. The **CSI
driver** (`cmd/vsphere-csi`, `pkg/csi`) creates first class disks (FCDs), attaches
them to VMs and mounts them. Both talk to several vCenters.

| component | state | operations | what is hard | what makes it correct |
|---|---|---|---|---|
| parallel search (`connectionmanager/search.go`) | per call: channel, found flag, recorded error, answer | `WhichVCandDCByNodeID`, `WhichVCandDCByFCDId` | producer, 8 workers and caller run concurrently; failures anywhere; the object moves | an answer is justified by what the places held during the call; errors are not forgotten; the call returns |
| node manager (`nodemanager.go`) | `nodeNameMap`, `nodeUUIDMap`, the VC/DC/VM tree, `nodeRegUUIDMap`, two locks | `RegisterNode`, `UnregisterNode`, `DiscoverNode`, `ExportNodes` | indexes written in three steps and read without the lock; VMs that change between two reads | the indexes agree; an entry was true once; registered nodes are the cluster's nodes |
| instances, zones (`instances.go`, `zones.go`) | none, reads the indexes | the `Instances` and `Zones` interfaces | dereference of an entry another spelling of the UUID was stored under | no panic other than the known ones; the documented answers |
| node listeners (`cloud.go`, `informers.go`) | the informer's store | `nodeAdded`, `nodeDeleted` | missed deletions, restarts | a node ends up registered |
| gRPC server (`server.go`) | none | `ListNodes` | reads while discoveries write | lists what the tree holds |
| connection manager (`connectionmanager.go`, `vclib/connection.go`) | per vCenter: client, user name, password; two locks | `Connect`, `ConnectByInstance`, `APIVersion`, `Logout`, `Verify` | a call without the manager's lock, sessions that end, clients used after the unlock | no session is lost, a rotated credential reaches the login, calls return |
| credential manager (`credentialmanager.go`) | cached secret, its parsed form | `GetCredential` | update and parse in two lock holds, keys applied one by one | credentials follow the secret, halves are not mixed |
| zone search (`connectionmanager/zones.go`, `list.go`) | per call, as the parallel search, twice | `WhichVCandDCByZone`, `LookupZoneByMoref` | as the parallel search, with other error rules, and a second search that forgets the first | the returned place carries the zone; "no such zone" has a reason |
| CSI controller (`csi/service/fcd`) | none in memory; the disks of vCenter | create, delete, publish, unpublish, list | calls repeated after lost answers and crashes; a disk is found by a listing that other calls disturb | one disk per name, "deleted" means gone, all pages show all disks |
| disk attachment (`vclib/virtualmachine.go`, `utils.go`) | none in memory; the VM's devices | attach, detach | units and controllers chosen from a device list that is out of date, clean-ups that hit others | requests are only refused in races, answers are true, other disks stay |
| CSI node service (`csi/service/node.go`) | none in memory; the mount table, directories | stage, publish, unpublish, unstage | crashes between mount and directory steps, repeated and overlapping calls | a published volume is staged, answers are true, nothing stays mounted |
| configuration (`config/config.go`) | none | `ReadConfig`, `FromEnv`, `validateConfig` | defaults that depend on one another | a valid configuration has a vCenter with credentials |

They interact by calls. The informer's goroutine and Kubernetes' controllers call
the node manager; a discovery and every CSI call run a parallel search; a search
connects to each vCenter through the connection manager, which asks the
credential manager when a login is refused. They share the connections of
`VsphereInstanceMap`, the indexes of the node manager and the credential cache.
The CSI controller runs a zone search to place a disk, a disk search to delete
one, and both a disk and a VM search to attach one. The CSI node service is a
process of its own on every node; only the kubelet orders its calls after those
of the controller.

Storage policies, the CSI identity service, start-up code, the command line
provisioning, metrics, generated code and the guest OS table keep no state and
take no decisions that a model would reach; they are listed in `PROJECT.json`
with the reason.

## 2. Modules and the code

| module | what it is |
|---|---|
| `Lookup` | abstract specification: what a lookup promises its caller |
| `Search` | the producer, channel and worker pool of `search.go`; implements `Lookup` |
| `NodeManager` | node manager, instances, zones, node listeners, listing |
| `Connection` | connection manager, vclib connection, credential manager |
| `ZoneSearch` | the single vCenter case and the two searches of `zones.go`, the reading of tags |
| `Volumes` | create, delete and list of the CSI controller over the disks of the datastores |
| `Attach` | publish and unpublish of the CSI controller, the SCSI controllers and units of a VM |
| `NodeMounts` | stage, publish, unpublish and unstage of the CSI node service |
| `MCSearch`, `MCNodeManager`, `MCConnection`, `MCZoneSearch`, `MCVolumes`, `MCAttach`, `MCNodeMounts` | constants for TLC |
| `SearchProofs`, `NodeManagerProofs`, `ConnectionProofs`, `ZoneSearchProofs`, `VolumesProofs`, `AttachProofs`, `NodeMountsProofs` | theorems and proofs about the module of that name |
| `ZoneTagsProofs` | the reading of tags, which `ZoneSearchProofs` extends |

**Lookup.** An object is looked for in the configured places while the inventory
changes. `held` and `lacked` record what the places held since the call. A
location may be any place in `held`; an error may be recorded at any time;
"not found" may be said only if every target has lacked the object or had its
answer *muted*, that is, lost without an error being recorded.

**Search.** One behaviour is one call, for a VM (`Kind = "VM"`) or for a disk
(`"FCD"`). The producer's control point `ppc` goes through the range loop over
vCenters, the connection attempts, the resolution of the datacenters (all of
them, or the configured list) and the sends, which block on a full channel. A
worker receives, looks the object up, reads a VM's properties and writes
`found` and `info`. The caller waits for the workers but not for the producer,
so producer steps go on after the answer. Every remote call may fail, and each
failure goes where the code puts it: into `globalErr`, or only into the log
(`muted`). A worker that found the VM writes `vmInfo` without a lock and then
sets the flag; nobody reads `vmInfo` before all workers have ended, so this is
one step, which several workers may take, in any order. `L` is the
instance of `Lookup` with `failed <- globalErr`, `where <- info`,
`answer <- result`.

**NodeManager.** Callers run the Instances and Zones calls and one informer
goroutine handles node events in order. A discovery looks the VM up (by name or
by UUID), on failure of a UUID tries the UUID with its first three groups
byte-reversed (`Convert`), reads host name and properties, and then writes the
three indexes one after the other under `nodeInfoLock` (`StoreName`, `StoreUUID`,
`StoreVC`); calls read the indexes without the lock, between those writes too.
Here a search is one step, with any result module `Lookup` allows. VMs are
created, moved, renamed and destroyed at any time. A string that is too short
for a UUID makes the conversion panic (`Malformed`). After a panic or a kill,
`Restart` begins with empty maps and the informer lists the nodes again.

**Connection.** Goroutines run `Connect`, `APIVersion`, `Logout`, or
`ConnectByInstance` without the manager's lock (as `getAllFCDs` does). `cmLock` is
the `clientLock` of `connectionmanager`, `vcLock` the package-level one of `vclib`.
An `InvalidLogin` leads to the credential manager once, and to a second login.
The secret has revisions that are published and withdrawn, the account's
password is changed in vCenter independently, sessions end. `UpdateSecret` and
`ParseSecret` are separate steps, as they are separate lock holds in the code; the
parse applies the keys of the secret until one is not recognised, in any order.

**ZoneSearch.** One behaviour is one call of `WhichVCandDCByZone`, with any set
of configured vCenters and any of several assignments of tags. With one vCenter
and one datacenter the answer needs no search (`phase` "single", "count",
"only"); the attempts to connect may all fail, and the client is used
nevertheless (`ClientPanics`). The client belongs to the connection, which other
goroutines use too: their logins may set it to nil, or make one, between any two
steps (`OthersConnect`). Otherwise clusters are searched, then hosts, each
time by a producer and a pool as in `Search`, with objects of datacenters in the
channel. `LookupZoneByMoref` reads the tags of an object and its ancestors until
it has a zone and a region; it is a recursive function over the chain of tags.
`Carries` says declaratively what it should compute, and the properties use
only that. History: `muted`, the objects whose tags could not be read, which
only the log shows; `missed`, an error of the first search, which the second
one drops; `reached`, the vCenters connected to.

**Volumes.** A disk is an identifier with a name, a size and a datastore. To
find one, a call lists the identifiers on a datastore (`ListDisks`) and then
retrieves them (`RetrieveDisks`); an identifier that was deleted in between
makes the retrieval fail. Create tries the zones of the request in order, scans
the chosen place for the name, creates the disk if the scan has found none *or has
failed*, and scans again for its identifier. Delete finds its disk in the same way, of which only the datastore that holds it matters, and takes
a failed scan for "no such disk". `walk` is a client that reads the pages of
ListVolumes one after the other. Requests fail, or are carried out and their
answer lost; the process crashes. The caller repeats a create until it has an
answer in `got`; `leaked` are the disks of which a delete call last said that
they are gone, and that exist. Two histories: `excused`, the names whose existing
disk a scan overlooked, which is the known weakness the properties of creates are
relative to (a name that two disks have from the start is among them); and `met` of
a delete call, which says that another delete for a disk on the same datastore ran
while it did. A page of ListVolumes
is cut from the disks in the order of their identifiers: `Index` is the place of
a disk in that order.

**Attach.** The SCSI controllers of one VM, in the order of the device list, and
the seat (bus and unit) of every disk. A publish reads the list, chooses a
controller with room and a free unit (`CreateDiskSpec`), or adds a controller and
looks for it in a fresh list, reads the list once more, and reconfigures the VM.
After a failure the code's clean-up detaches the disk again (by a device key, which
is a seat) and deletes the last controller of the list it has read. `want` is
the caller's side: whether it asks for the disk to be attached ("up") or detached
("down"), and what it was told last ("attached", "detached"); it never sees where
the disk is. vCenter accepts
a reconfiguration only if the seat is free and the controller there. Nothing orders the calls, so each
of these steps may use a list that is out of date. `met` and `alone` record
whether a call overlapped one for the same disk, or any other; `stray` are the disks
that a call for another disk has taken off.

**NodeMounts.** `mnt` is the stack of mounts at each path (a volume stands for its
staging path), `dirs` the target directories. A call reads the mount table and
acts on it a step later: `Step` lists the steps of the four calls. A call may fail
at any step, the plugin may crash (mounts stay), the node may reboot (directories
stay), a disk that is not mounted may be detached. `Begin...` marks in `risky` the
volumes of which an unstage overlaps a stage or publish, and the targets published
twice at once, and `crossed` marks a call that overlaps one that undoes it. The
kubelet orders its calls per volume, but repeats a call whose answer it did not
get while the first may still run.

## 3. Runs

Every property of a passing run has a mutant in `PROJECT.json`: a definition with
a plausible bug, under which TLC finds the property violated with the same
configuration.

| run | checks | shows |
|---|---|---|
| `SearchVM` | `TypeOK`, `FoundJustified`, `NotFoundJustified`, `Settled`, `ImplementsLookup` | the answers of a search for a VM that may move meanwhile are justified, recorded errors stay, `Search` implements `Lookup` |
| `SearchFCD` | `LookupReturns`, `ProducerEnds` | with more datacenters than slots and workers, a disk lookup returns and the producer ends, unless as many places hold the disk as there are workers |
| `NodeManager` | `TypeOK`, `IndexAgreement`, `EntriesOnceTrue`, `PanicsExplained`, `AnswersAsked` | the indexes agree whenever the lock is free; entries and answers were true of their VM; panics have the known causes; what a call is told is about the node it asked for, although it reads without the lock |
| `NodeManagerEvents` | `RegistrationSettled`, `CallsReturn`, `NodesRegistered` | add, delete, missed delete, add again and a crash leave the cluster's nodes registered; calls and handlers end |
| `Connection` | `TypeOK`, `NoSessionLost`, `NeverMixed`, `CacheFollowsSecret`, `RotationPickedUp`, `ClientPresent` | sessions are not lost, credentials follow the secret and are not mixed, a rotation reaches the login of an undisturbed call |
| `ConnectionCalls` | `CallsReturn` | for every source of credentials, no order of locks and returns leaves a call waiting |
| `CredentialMissing` | violation of `MissingMeansError` | finding 1 of section 6 |
| `ZoneSearch` | `ZoneFoundJustified`, `NoZoneJustified`, `ZoneLookupReturns`, `ZoneProducerEnds` | a returned place carries the zone whichever worker stored it last; "no such zone" is said with a reason; the call returns and its producers end |
| `ZoneHosts` | violation of `SupportedZoneFound` | finding 2 |
| `Volumes` | `NoDuplicate`, `DeleteSound`, `ListComplete`, `CreateSound`, `CreateSettles` | repeated and overlapping creates make one disk per name, answers are right and creation settles, apart from names of which a failed scan has overlooked a disk; a delete leaves its disk only after a failed request or an overlapping deletion on the datastore; pages are complete |
| `Attach` | `RefusedOnlyInRaces`, `AnswersSound`, `Undisturbed`, `AttachConverges` | a call that is alone asks for what vCenter accepts, also at the limit of units; answers are true; clean-ups leave the disks of others; callers that repeat until they are told OK settle, and what they were told is so |
| `NodeMounts` | `StagedWhilePublished`, `PublishSound`, `UnpublishSound`, `TeardownConverges` | overlapping, failing and interrupted calls keep a published volume staged and answer truthfully, and repeated teardown leaves no mount |

Run one with `tlc -config SearchVM.cfg MCSearch` (`PROJECT.json` names the module
of each run).

Some properties carry conditions that are part of what they say. `ProducerEnds`
excludes the case in which every worker leaves with a hit: then the producer may
stay in a send for ever, a goroutine the code does leak. `ClientPresent`
excludes vCenters of which a session has ended: a failed new login sets the
client to nil under other goroutines, and the model has the nil dereference
(`NilClient`). `RotationPickedUp` is about calls during which no other call runs
and the environment stands still, because a concurrent `UpdateCredentials` may
overwrite newer credentials. `ZoneProducerEnds` has the exception of
`ProducerEnds`. `NoZoneJustified` exempts objects in `muted` and calls that `missed`
an error. `NoDuplicate` and `CreateSound` exempt `excused` names, that is, those of
which a failed scan, an overlapping create or another zone has hidden a disk from a
call; each exemption is one name, never the whole state. `DeleteSound` names the two
causes of a false "deleted": a request of the call that fails in that step, and
deletions that overlap on one datastore. `AnswersAsked` is silent on whether the VM
still exists: entries are served for ever (section 6). `ListComplete` is about walks without a deletion or a failing datastore.
`AnswersSound` and `Undisturbed` exempt calls that met another for the same disk,
and disks already taken off that way; races between *different* disks are covered
without exception. `AttachConverges` supposes that calls stop overlapping at some
time; that a disk is then where its caller was told is claimed for disks whose own
calls never overlapped, and not for one that a stale key of calls for another disk
took off (`stray`): its caller was told "attached" and does not ask again. In `NodeMounts` the exemptions are the overlaps of section 2.

## 4. Bounds, fairness, deadlock

**Bounds.** `Search`: two vCenters with two datacenters, two workers, a channel of
one element (the code has 8 workers and 80 elements), so that the channel is full,
workers race and one of several vCenters fails. Two connection attempts (code: 3)
tell "failed once" from "failed always". One inventory change puts the object in
two places, one after the other, and takes it from a place already asked. In
`SearchFCD` no changes are needed for liveness. `NodeManager`: one VM with its UUID
in both byte orders and a malformed one, a name in two cases, two places, a caller
beside the informer, two calls, one inventory change, two node events and one
crash: two discoveries overlap with a rename or a move between them, and a
restart meets both. `NodeManagerEvents` trades inventory changes for a third node
event (add, delete, add again). Two goroutines that discover are enough for the
index properties: each depends on one entry and one writer under the lock.
`Connection`: two goroutines, one vCenter that a secret may spell in capitals, two
sessions (one ended, one new), two revisions of the secret, so that an old and a
new one race; contents are whole, or whole with an unknown key; the run for
liveness uses one revision that lacks the password. `ZoneSearch`: every subset of
two vCenters, three datacenters with four clusters and a host, two workers, a
channel of one element and one attempt; the three assignments of tags have the
zone in two places and spellings, inherit or override it from a datacenter, and
put it on a host only. `Volumes`: two names, one placed on a cluster of two
datastores, one in two zones; disks of the same name with another size, and of
another owner, exist before; two calls or a call and a reader, one fault, pages
of one entry, four identifiers. `Attach`: three buses (one of another type), three
units of which one is reserved and one taken, two disks, two calls, three faults
or overlaps: the first controller has room for one disk, so the second needs a
new controller. `NodeMounts`: one volume, two targets, one of them read-only, two
calls, stacks of two mounts, two faults. The proofs have none of these
bounds: the counters stay, with any limit.

**Symmetry** is used over places in `NodeManager` and over goroutines and sessions
in `Connection`, and over workers in `ZoneHosts`; none of these runs checks
liveness.

**Fairness.** `WF` of each worker, of the producer, of each goroutine's `Step`: the
Go scheduler runs every goroutine that can run. That remote calls return, with an
answer or an error, is an assumption on vCenter and the network: the code puts no
deadline of its own on them. `WF` of
`Restart`: Kubernetes restarts the process. `SF` of `Acquire` in `Connection`:
`sync.Mutex` hands itself over to a goroutine that has waited for a millisecond, so
no waiter starves. `SF` of repeated calls in the CSI modules: the attacher, the
provisioner and the kubelet repeat a call with a back-off until it succeeds, so a
call that can begin again and again does begin: publish and unpublish of the
controller until they answer OK (`want`, never the real seat of the disk), create
until a final answer, unpublish and unstage of the node while a volume that is taken
down is mounted. The last is stronger than the kubelet, which does not repeat an
unpublish that has succeeded; it matters only where overlapping publishes of the
target left a mount after that answer. Nothing else
is assumed of callers and of the environment; faults are bounded by `MaxFaults`,
without which no repeated call need ever succeed.

**Deadlock** is checked in `NodeMounts`, where a call can always begin. In the other
runs it is not: a finished lookup, a system that has used up its
bounds and a process that has panicked (in `Connection`) rightly stop. That nothing
waits for ever is checked as liveness (`LookupReturns`, `CallsReturn`).

## 5. Proofs

Every safety property that a passing run checks is also a theorem. The theorems
hold for any sets of vCenters, datacenters, objects, workers, goroutines, VMs,
names, nodes, hosts, sessions, secret contents, tags, disks, datastores and calls,
for finite sets of volumes and targets, for chains of tags and lists of places of
any length, and for any size of channel and of page and number of attempts, units,
controllers, changes, events, crashes and revisions. The assumptions
are the ASSUMEs of the modules, which TLC evaluates in every run: constants have
their types, the pool and the channel are not empty, `None` is not one of the
other values, VM UUIDs are well-formed and in lower case, a converted UUID is in
lower case, the configured hosts are hosts, a zone search has finitely many
vCenters and each finitely many datacenters, a place has a datastore and a
request a zone, the calls to the CSI controller in flight are finitely many, a
controller has more than the reserved unit, and the limit of
devices is one less than the number of units, as in the code.

**SearchProofs.** *TypeCorrect, FoundSound, NotFoundSound, NeverTakenBack,
Refinement.* `NotFoundJustified` is not inductive: it says nothing about the time
before the answer. `AccountedInv` follows each target while nothing was found
and nothing failed: it is ahead of the producer, in the producer's hands, in the
channel, with a worker, or judged. With `WorkerInv` (a worker that ended without a
hit has seen the channel closed and empty) the only case left when all workers
are done is "judged". The refinement shows that every step of the search is a
step of `Lookup` or leaves its variables alone, from the same invariant.

**NodeManagerProofs.** *NodeTypeCorrect, IndexesAgree, EntriesWereTrue,
PanicsAreExplained, RegistrationHolds, AnswersAreAsked.* `IndexInv` is
`IndexAgreement` with what is missing while a goroutine is between its writes;
`ControlInv` ties the lock to the control points, which makes that goroutine
unique. `TruthInv` extends the truth of entries to discoveries under way.
`FaultInv` says why a dereference finds its entry. `RegInv` says that the last
event under way for a node tells whether it is in the cluster. `AskedInv` is
`AnswersAsked` with what a call under way has at hand: the VM it has found by UUID
is the one asked for, in lower case, or its converted form. With `IndexInv` (a record
is stored under its own name and UUID) and with `Remembers` (while the process lives,
a known UUID stays known) an answer keeps what it says.

**ConnectionProofs.** *ConnectionTypeCorrect, SessionsKept, ClientsPresent,
CacheFollows, CredentialsNotMixed, RotationReachesLogin.* `SessionInv` adds that
no session is open where a goroutine makes a new one, for which `ControlInv`
ties `vcLock` to the control points. `MixInv` extends the pairing of user name
and password to the cache and to credentials in flight. `VersionInv` says that
data at hand is a revision as it was published, and `RotationInv` how far an
undisturbed call has carried the present secret.

**ZoneTagsProofs.** *LookupCarries*: the recursive function that models
`LookupZoneByMoref` and the declarative `Carries` agree on every chain of tags.
The argument is an induction over the length of the chain. The induction
theorems of the library take an operator as a parameter, which the provers cannot
instantiate; here the set of the lengths that fail takes its place: it would have
a least element (`LeastElement`, from the well-foundedness of `<`), and there the
step fails (`BoundedInduction`). `ReadUpTo` is what holds after n tags: the names
read are those of the last tags of each category among the first m, where m is n or
the first number of tags that have both categories.

**ZoneSearchProofs.** *ZoneTypeCorrect, PlacesCarryZone, NoZoneSound.*
`SingleInv` says that in the single vCenter case there are no goroutines yet;
`ZoneProducerInv` what the producer
holds at its control points; `PlaceInv` that the first search puts only clusters of
configured datacenters into the channel, so that whatever place is stored last is
supported, and that the second search finds nothing. With `LookupCarries` this is
`ZoneFoundJustified`. For `NoZoneJustified`, `ZoneAccountInv` keeps the account of
`SearchProofs` for the clusters that carry the zone: with the producer, in the
channel, with a worker, or muted. `ReachInv` accounts for the vCenters, and
`AnswerInv` carries what the first search has established (`AllMuted`) over the
second one, which resets everything else.

**VolumesProofs.** *VolumesTypes, NoDuplicates, DeletesSound, PagesComplete,
CreatesSound.* `NoDuplicate` is not inductive: a create acts on a scan that took
many steps. `CreateKnows` says what the scan of a name without excuse has established
so far: every disk of the name is on a datastore of the place, none on those
passed, those on the present one are among the identifiers listed; so that at the
creation there is none. It also says that no other create for the name is in
flight, and that after the creation all disks of the name have its size.
`DeleteKnows`, for `DeleteSound`, is about deletes that have met no other on their
datastore: there is none at this time either, and the identifiers such a call has
listed are still on it, since disks leave a datastore only by a delete call for them
(`DisksGo`); so its retrieval does not fail by itself.
`WalkKnows` is about the pages of a calm walk: there is a set X of disks, the one the
last page was cut from, such that what is still to be shown has its place in X at or
after the start token; X still exists and is collected again. Disks that were created
meanwhile only push the others back (`IndexGrows`: the index is a cardinality,
which grows with the set), so nothing moves in front of the token.

**AttachProofs.** *AttachTypes, NoLoneRefusal, AnswersTrue, DisksUndisturbed.*
`Places` says that disks are on controllers that exist, one to a unit. `AloneKnows`
says what a call that is alone knows at its control points: that all controllers
are full when it adds one, that the bus it has chosen is free, that of the fresh
list only the new controller has room, that the chosen seat is acceptable. A
controller with room has a free unit by counting (`NextUnitFree`): the units taken
are no more than the devices, and these fewer than the units without the reserved
one. `DiskKnows` says where the disk of a call is that has met no other
call for it, which is what its answer and its clean-up rest on. The first available
controller and the last one of a type exist by a least and a greatest element.

**NodeMountsProofs.** *MountTypeCorrect, PublishedIsStaged, UnpublishLeavesNothing,
PublishShowsVolume.*
`StagedWhilePublished` is not inductive, since calls act on what they read a step
before. `LookedInv` says what they have read that still holds: a publish that is
about to bind has a staged volume, an unstage that is about to unmount has no
published target. The latter needs that a device mounted just once is mounted at
its staging path only (`MountedIsStaged`, from `TwoMounts`: two paths make two
elements of the finite set of mounts), and `OverlapInv` excludes a publish in
flight. `UnpublishInv`, for the second property, follows the device an unpublish
has read against the stack, which only a publish can make higher. `PublishInv`, for
the third, has three parts: `ModeInv` relates the mode of what a target shows to the
mode its volume was staged in, `StackInv` says that no mounts are stacked on a target
unless publishes of it have overlapped, and `BindInv` that a publish about to bind
such a target finds it bare. The proof does not need that unpublishes keep away, so
`PublishSound` does not exempt publishes that an unpublish overlaps.

Each invariance proof has one lemma per action, and under it one step per part of
the invariant. Run `tlapm SearchProofs.tla`, and likewise for the other modules whose
name ends in `Proofs`.

**Only model-checked.** The liveness properties (`LookupReturns`, `ProducerEnds`,
both `CallsReturn`, `NodesRegistered`, `ZoneLookupReturns`, `ZoneProducerEnds`,
`CreateSettles`, `AttachConverges`, `TeardownConverges`) are outside what the
prover does: it has no rules for fairness and `ENABLED`. The two violations are
counterexamples.

## 6. Where the code and its comments disagree

With a run:

1. `MissingMeansError`. "ErrCredentialMissing is returned when the credentials do
   not contain a username and/or password" (`credentialmanager.go:35`). The secret
   is stored before it is parsed; only the call that parses it gets the error, and
   the next one sees the same version and returns the credential without a
   password (`credentialmanager.go:82`).
2. `SupportedZoneFound`. "WhichVCandDCByZone gets the corresponding VC+DC combo
   that supports the availability zone" (`zones.go:50`). In the search of the hosts
   the test of the lookup's error is inverted (`zones.go:452`): a host whose tags
   were read is skipped, and a zone that only hosts carry is never found.

Without a run of their own:

- "WhichVCandDCByNodeID finds the VC/DC combo that owns a particular VM"
  (`search.go:43`). A worker that found the VM and fails to read its properties
  records no error (`search.go:184`), and the search answers "not found".
- "InstanceExistsByProviderID returns true if the instance identified by
  providerID is running" (`instances.go:150`). Every error of the discovery is
  answered with `false, nil` (`instances.go:162-167`).
- "If the instance does not exist or is no longer running, the returned error will
  be cloudprovider.InstanceNotFound" (`instances.go:91`). An entry of the index is
  answered without asking vCenter (`instances.go:107`), and none is ever removed.

Behaviours met while modelling, which the models have and the properties name as
exceptions:

- After three failed attempts to reach the single vCenter the nil client is used
  (`zones.go:99`); so it is when a login of another goroutine fails after this one's
success (`connection.go:79`).
- The deletion of any disk of a datastore between the listing and the retrieval
  of another call makes that call's scan fail: a delete then answers OK and
  leaves its disk, a create makes a second disk of the name.
- ListVolumes shows nothing of datacenters with a datastore cluster, since the test
  of the error is inverted (`datacenter.go:546`).
- Two publishes that each add a controller can remove each other's for ever; the
  clean-up deletes the last controller of the list, not the one it added.
- An attached disk that cannot be read is answered with an empty UUID
  (`virtualmachine.go:77`).
- When every worker leaves with a hit, the producer of a search stays in a send.
- The branch for datastore clusters of `DeleteFirstClassDisk` cannot be reached.

## 7. Abstractions, and what is not modelled

- A lookup inside a datacenter (find by UUID, DNS name or IP; the walk over
  datastores for a disk) is one step. An error of one datastore is muted
  for disks, as in `vclib/datacenter.go`.
- `Search` takes one connection attempt as one step that succeeds or fails;
  `Connection` has its inside. `NodeManager` takes a search as one step with the
  results of `Lookup`; `Search` has its inside.
- NodeInfo is UUID, place and host name. Addresses and the instance type are
  derived from the same read of the VM and are not told apart. Zone tags are read
  remotely at each call of `GetZone` and are not modelled.
- A user name or password is the revision of the secret that brought it;
  revision 0 is the configuration file; empty values do not occur, missing ones do.
  The files of a mounted directory are read from one revision. The lister fails
  only with "not found". A panic ends the process of `Connection`; a new one is
  `Init` again.
- An unlocked map read that meets a write is stopped by the Go runtime (module
  `NodeManager`, `Crash`) or sees the map before or after the write.
- `Verify` and `VerifyWithContext` are sequences of `Connect`.
- The ancestors of a cluster are its datacenter. An object's tags do not change
  during a zone search.
- `Requisites` stands for the requisite or the preferred topologies, whichever the
  request has; the zone search is one step that answers one of the places of the
  zone. Storage policies of disks are not told apart. The free space by which a
  datastore cluster chooses a datastore is not modelled: any of them may be chosen.
- ListVolumes without a page size (all entries, no next page) is left out, as are
  tokens that are no numbers. GetCapacity, NodeGetInfo, the
  capabilities and the identity calls are constant answers.
- `Attach` has one VM, found already. What vCenter does with a request
  (refuse a taken seat, a missing controller, the removal of a controller in
  use) and what the kernel does with mounts are external and marked so in
  `PROJECT.json`.
- The tasks of vCenter (`CreateDisk`, `Reconfigure`, `RemoveDevice`) are single
  steps, request and wait (`datacenter.go:493`, `499`) together. A task that is still
  running when its call has timed out or crashed is in the models only as an
  overlapping call.
- Disks are deleted by this controller only; `DeleteSound` says nothing of other
  clients of vCenter.
- A login that vCenter carries out and whose answer is lost (`connection.go:100`,
  `164`), which leaves a session nobody refers to, does not occur in `Connection`:
  `NewClientFail` opens none.
- A client that becomes nil under the producers and workers of a zone search or a
  search (`connection.go:79`) is in `Connection` only (`NilClient`); `ZoneSearch` has
  it for the single vCenter.
- The staging directory exists, as the kubelet makes it; a volume has one file
  system and the access mode of its target.

Not modelled: the configuration, which is read once at start-up without any state
or concurrency, by plain assignments of defaults that a table of unit tests
covers; storage policies (wrappers of remote calls), CSI identity and start-up,
command line provisioning (an interactive sequence without shared state),
metrics, generated code, tables.

## 8. Plan

Done, in the order of importance: `Lookup` and `Search`, `NodeManager`, `Connection`,
`ZoneSearch`, `NodeMounts`, `Volumes` and `Attach`, and a theorem for each of their
safety properties.

Next:

1. An abstract specification of `Volumes`: a set of disks by name with idempotent
   operations, which the code implements for names without excuse, with
   `VolumesInv` as the invariant of the refinement.
2. What `NodeManager` assumes of a search in one step (the results of `Lookup`) as
   a lemma about `Lookup`, so that the composition with `SearchProofs` is a theorem
   too.
