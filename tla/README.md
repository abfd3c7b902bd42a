# paxosme in TLA+

A specification of paxosme (a Multi-Paxos replicated log in C++) kept beside its
code. The modules are translated from the sources; `PROJECT.json` maps each
definition to the lines it stands for. Source paths below are relative to
`src/src/` of the checkout (`core/acceptor_pax.cpp` is
`src/src/core/acceptor_pax.cpp`).

## The system

One node is a `PaxController` with three roles on one main loop, a record store
under them and a network beside them.

| Component | State | Operations | Talks to |
|---|---|---|---|
| Acceptor (`core/acceptor_pax.cpp`) | promised ballot, accepted ballot and value | HandlePropose, HandleAccept, NewInstance, Init | writes its record to PaxStore, answers the proposer |
| Proposer (`core/proposer_pax.cpp`, `proposer_state.cpp`, `proposal_counter.cpp`) | status, own and highest proposal id, value, three counters | NewValue, Propose, HandleProposeAck, HandleAcceptAck, timeouts | Scheduler, ProposalProv, broadcast |
| Proposal provider (`core/proposal_prov.cpp`) | queue of pending values, finished index | SubmitAndWait, Flush, WriteResult | client threads wait, the main loop answers |
| Learner (`core/learner_*.cpp`) | learned value, highest known instance, sending job | ShallLearn, confirm, send, acknowledge | Scheduler, a sending thread, PaxStore |
| Controller (`core/controller.cpp`) | instance id, message queue | Init, MainLoop, HandleMessage, NewInstance | everything |
| Scheduler (`util/schedule.cpp`, `event.cpp`) | heap of events, live id per event type | AddEvent, Remove, Dispatch, NextEventTime, AutoDispatch | callbacks into the roles and the segment store |
| PaxStore (`core/storage_pax.cpp`) | none of its own | WriteLog, ReadLog | log storage |
| Log storage (`storage/log_stroage.cpp`) | index in leveldb over the segments | Init, Put, Get, Delete | segment store, index database |
| Segment store (`storage/segment_store.cpp`) | segment files, metadata file, current id, offset and size | Init, Append, Read, RemoveAsync, ReplayLog, DeleteSegment | files, a scheduler of its own |
| Network (`network/network.cpp`) | table of clients, a server | Start, Send, Broadcast, Quit | the library it was built with |
| gRPC (`network/grpc/`) | call data with a status, a completion queue | client calls, PrepareCallData, HandleRpcs, Shutdown | other nodes, the message callback |
| UDP (`network/asio/`) | one buffer, one pending operation | Send, DoReceive, DoSend, Shutdown | other nodes, the message callback |
| Node, key-value machine | options; leveldb | New; Execute | outside |

The roles are not wired up in this version: `node.cpp` has the controller
commented out, `PODMessage` in `network.cpp` gives back an empty message, nothing
sets the proposal provider or the controller's state machine. The components are
therefore modelled as open systems that must behave for whatever their
environment may do, and not as one composed node. A composition of proposer and
acceptor would have nothing to agree on: `Accept` has no caller, and replies do
not reach the proposer (see Routing).

What is hard here: duplicated and reordered requests; crashes between two writes
that belong together (record and reply, record and index entry, the two metadata
writes, the steps of a rollover); a replay that is itself cut short; a deletion
that comes ten seconds after it was asked for; timeouts that replace, withdraw
and overtake each other; a sending thread that reads what the main loop changes;
call data that delete themselves while gRPC holds their addresses; a shutdown
that races with the calls it ends; a rollover that fails half way.
`PROJECT.json` lists each under `hazards`, at its line.

What makes the components correct:

* acceptor: promised ballots rise and so do accepted ones, none is granted below
  an earlier grant, a promise reports what was accepted, the disk knows every
  grant before the proposer does;
* proposer: a new prepare has a number above every rejection that was counted,
  no vote is counted past its number or its instance, a proposer that has stopped
  proposing has no timeout that makes it start again;
* storage: an acknowledged Put is found until it is deleted, what was deleted
  stays away, an index entry can be read, and a failed index write harms its own
  key only;
* segment store: no record is overwritten or cut off, a crash in a rollover
  leaves a store that opens and goes on;
* learner: one value per instance is executed, in order, recorded and sent on as
  it was; a sending job keeps its receiver and its window and comes to an end;
* network: an acknowledged message was handled, each method always has one call
  data waiting, none is used after it was deleted, sends and the shutdown end;
* scheduler: no event early, every due event runs, the loop never stalls.

## Modules

    Acceptor       MCAcceptor       AcceptorProofs
    Proposer       MCProposer       ProposerProofs
    Scheduler      MCScheduler      SchedulerProofs
    SegmentLog     abstract segment store
    LogStorage     MCLogStorage     LogStorageProofs     extends SegmentLog
    SegmentStore   MCSegmentStore   SegmentStoreProofs   implements SegmentLog
    Learner        MCLearner        LearnerProofs
    Grpc, Udp      the two libraries
    Network        MCNetwork        NetworkProofs        extends Grpc and Udp
    Routing        which player gets which message; holds its theorem

### Acceptor

`promised`, `accepted` and `acceptedValue` are the fields of `AcceptorState`,
`instance` is the controller's `instance_id_`, `stored` what PaxStore holds.
`HandlePropose` and `HandleAccept` are a handler up to its end: the state change
and `WriteState`, which may fail unnoticed. `ReplyProposer` is the send; the
process may die in between. Requests are arbitrary, so duplication, loss and
reordering need no network. `Start` is `PaxAcceptor::Init` with the choice of the
instance in `PaxController::Init`; where neither branch there assigns
`instance_id_`, it takes any value. `SetAcceptedProposal` is modelled as written:
it stores the node id twice. `NewInstance` begins with the learner's `LearnNew`,
which may write the finished instance's record again, with the value and without
the promise. `granted` and `unsaved` are history.

### Proposer

The fields of `ProposerState` and `ProposalCounter`, `status_`, the live propose
timeout (with the instance its callback has captured) and the live value timeout.
One action per handler and callback; `Propose` is the call they share, given the
rejections and the highest proposal at that point of the handler. `InstanceDone`
is `PaxController::InstanceDone` and `NewInstance` together, `Restart` a crash
followed by `Init`. `passed` and `sent` are history: what the counted rejections
of this instance have ruled out, and the last prepare.

Three things the properties do not say, because the code does not do them. A
rejection that arrives while nothing is proposed is dropped, and the next new
value is prepared with the number it rejected: `NumbersPassCounted` speaks of the
rejections that got past `HandleProposeAck`'s tests. The instance of an
acknowledgement is not checked and the number survives `NewInstance`, so a late
one of the instance before is counted: `VotesNeedPrepare` says that votes do not
outlive a number or an instance, not which prepare they answered. A value that
was given up stays in `log_value_` and is proposed by the next `NewValue`:
`IdleHasNoTimer` is about the timeout only.

Acknowledgements are arbitrary. That is more than the repository can deliver:
`ReplyProposer` fills in neither the proposing node nor the number, and the
controller's `MessageForProposer` is true of no message type, so as things are
`HandleProposeAck` is not reached. The module says what the proposer does once it
is. Three things in it are as the code has them and not as Paxos has them: a
majority of promises prepares again instead of calling `Accept`, which nothing
calls; votes are counted under the proposer's own node id; a prepare carries the
number as its proposing node and 0 as its number.

### SegmentLog and LogStorage

`SegmentLog` is what the log storage may rely on: a sequence of records, each
with its segment, and the set of files that exist. Offsets are gone; whether a
record still fits is a choice. `LogStorage` puts the index on top. `Put` is
`PutAppend` then `PutIndex`, `Delete` is `DeleteRemove` then `DeleteIndex`, and
`Init` is `Restart` followed by the steps of `AlignIndexWithSegmentStore`, with a
`Crash` possible between any two. `Clean` is the clean event run by
`AutoDispatch`. The client keeps to the note on `RemoveAsync` ("assume that
Remove as the sequence of append") and deletes the oldest indexed record first;
without that, segments that still hold records would be deleted by design. A
Delete that returned false is tried again before the next key is deleted.

Every write to leveldb may fail. In Put that is returned to the caller. In the
replay it is not looked at: the key keeps the older entry, and Init returns true
(`missed` remembers the keys this left behind an acknowledged Put). In Delete it
comes after `RemoveAsync` has scheduled the deletion of the file: the entry stays
(`kept`), and once the file is gone Get fails, and another Delete fails too
(`DeleteAgain`), because `RemoveAsync` creates the file again, empty (`husks`),
and finds no record in it. The empty file is a segment to the replay. If the
entry names the *current* segment, the next Init creates that one anew and later
records may come to lie where the entry points; the model ends there (mode
"astray"), and nothing is claimed of that state. `NoAckedPutLost` excepts the keys
in `missed` and `IndexIsReadable` those in `kept`: what is checked is that no other
key is harmed.

An Append may fail in the middle of a rollover (`AppendFails`,
`PutAppendFails`). Either the current file is cut and closed, and no Append
succeeds until the process starts again (`stuck`), or the new segment is there
and holds nothing. Put returns false in both cases, and what it had acknowledged
before must survive.

### SegmentStore

The same store with files, sizes and the metadata file. A rolling `Append` is
`AppendTruncate`, `WriteSegmentId`, `WriteChecksum`, `NewSegment`,
`PadNewSegment`, `AppendToNew`: one action per system call that leaves a trace.
`Start` finds the write position by `ReplaySegment`, the end of the chain of
records, as the code does. The metadata file starts empty, and a checksum that is
not there is not compared: a crash between the two writes of the *first* rollover
is survived, in a later one it is not (`StartRefused`). The mapping to
`SegmentLog` lets a rolling Append take effect with its last write, or with the
crash that cuts it short.

Each system call of the rollover may fail. `RolloverFails` leaves
`cur_segment_fd_` closed, with `cur_segment_id_` incremented or not (`pc` is
"shutNew" or "shut"); `AppendToNewFails` leaves an empty new segment.
`WriteChecksumFails` is the one failure that goes unnoticed: `UpdateMetadata`,
which returns a bool, says `return -1` there, which is true. The rollover goes
on, and the next Init refuses the metadata. A closed descriptor is assumed not to
be given out again; if another thread opened a file meanwhile, Append would write
into that one.

### Learner

One node's learner with its two threads. The main loop calls a handler
(`HandleSenderPublish`, `HandlePublish`, `HandleSyncValue`, `HandleShallILearn`,
`HandleTellNewInstanceId`, `MakeSenderReady`, `HandleValueAck`; the acceptor's
`AcceptValue` too) and then does `Finish`: the end of
`PaxController::HandleMessage`, which executes a learned value and starts the
next instance. The acceptor does not check the instance of an accept request, so
`AcceptValue` may take a value of the instance before. The sending thread waits for a job and then
takes one step per read of shared state: the job's fields, the receiver, the
instance, the record, the acknowledgement. `Elapse` is its clock. `TooFarAhead`
has the unsigned subtraction: an acknowledgement ahead of the sender looks like a
full window, and only the timeout ends that.

The other nodes are open: messages of any type in any order, about any instance,
as often as they like, carrying a value of the instance they name or the empty
one. As the controller routes messages now none of them would arrive (see
Routing); the module says what the learner does when they do.
`HandleTellNewInstanceId` calls `ConfirmLearn` with `mutex_follow_` held, which
takes it again: the main loop is "confirming" from then on, for ever, and the
properties hold in that state as well. Writing a record may fail unnoticed
(`unsaved`). `executed` and `unsaved` are history.

### Grpc, Udp and Network

`Grpc` is a client that makes one call at a time and the server with its call
data. A call data is a number; `waiting`, `finishing`, `events`, `freed` and
`dropped` say who holds it: gRPC until a request comes, gRPC until the reply is
written, the completion queue, nobody. `ProcessStatusFunc` is the whole of the
step from INITIALIZED to SERVED: the successor is created and registered, the
callback runs, the reply is handed over. `Shutdown` and `ShutdownQueue` run in
another thread than the loop, so they interleave with everything, `PrepareCallData`
included. What gRPC does is modelled by what the code relies on and is named in
the module's head. The client sends seven message types, of whose methods the
server serves two; a call of one of the others ends only when the connection does,
so `SendReturns` speaks of served methods.

`Udp` has datagrams in two bags that are lost and duplicated, the server's one
pending operation and its one buffer. The client takes any datagram for its echo.
It has no timeout: after a loss, and for an empty message, which the server does
not answer, `Send` blocks for ever.

`Network` chooses the library when the program is built. `Start` makes the client
and starts the server; `Send` and `Broadcast` pass on what `PODMessage` makes of
a message, which is always the empty one: nothing at all with gRPC, an empty
datagram with UDP. (The test `TestSend` in `unittest/network/network_test_cases.cpp`
expects a message to arrive; with `PODMessage` as it is none does.)
`NetworkClient::Send`, which the libraries' tests call directly, carries real
messages, and the library modules are driven through it. `Quit` is no action: its
test is inverted, so it does nothing for a known node and dereferences a null
pointer for an unknown one.

### Routing

The four tests of `PaxController::HandleMessage` as functions of the message
type's number, and the theorem `RoutedTypes`: only the acceptor's two types reach
a player. The tests compare the shifted number with one; the numbers of the other
groups have more than one bit set.

### Scheduler

The event queue as `PaxController::MainLoop` drives it, one action per call the
loop makes. An event carries the time that is left until it is due, so time is
bounded without a clock. `Front` is the greatest time, because `Event::operator<`
compares times and `push_heap` keeps the greatest in front. `HandlerCall` is any
sequence of scheduler calls a message handler can make; `RunCallback` has the
three callbacks. `PaxLearner::Init` runs in the thread of `PaxController::Init`,
which has already started the loop, and `AddEvent` takes no lock: `LearnerPush`
puts the event into the queue and `LearnerSetId` makes it live. In between the
loop takes it for a replaced event. If it throws it away (`lost`) in
`NextEventTime`, it goes on to read the front of an empty vector (`pc` is
"emptied"): that is undefined, and modelled by what the vector's memory still
holds, the event just destroyed, so the loop spins until the id is set and then
waits for an event that is no longer queued. Pushes inside the vector or the map
at the very moment of a read are not cut any finer. Messages and values come after
`Init` has returned. `wait` is what the loop passes to `wait_for`, negative when
the event is late. Handlers and callbacks are assumed to return.

## Runs

| Run | Checks | States |
|---|---|---|
| `acceptor` | TypeOK, GrantsRise, PromiseReportsLastAccept, RecordCoversGrants | 2.2 million |
| `proposer` | TypeOK, NumbersPassCounted, VotesNeedPrepare, IdleHasNoTimer | 29 thousand |
| `log_storage` | TypeOK, NoAckedPutLost, RemovedStaysRemoved, IndexIsReadable | 5.4 million |
| `segment_store` | TypeOK, RecordsIntact, NewSegmentIsNew, RefusedOnlyIfTorn, ImplementsSegmentLog | 691 thousand |
| `scheduler` | TypeOK, NeverEarly, QueueKeepsLive, LoopKeepsRunning | 1.8 million |
| `learner` | TypeOK, ExecutedInOrder, RecordIsWhatRan, SendsWhatRan, JobIsTheThreads, WindowHeld, JobEnds | 1.4 million |
| `network` | TypeOK, AckedWasHandled, OneListener, CallDataOwnedOnce, AbortOnlyAtStart, FalseAcksNeedCopies, SendReturns, ServerStops, UdpSendReturns | 109 thousand |

What the last ones show, beyond the names. `learner`: late, repeated and
overtaking messages never make a node execute an instance twice or out of order,
and the unlocked reads of the sending thread are safe, because a job is nobody
else's from `WaitForReady` to `ClearSendingState` and a finished instance's record
does not change. A job ends once the node stays in its instance,
whether or not acknowledgements come. The condition is needed: the thread looks at
the time only when its window is full, so with instances and acknowledgements that
keep growing it goes on. `network`: a message that Send calls delivered was handled
exactly once with gRPC; with UDP it may not have been handled at all, but only as
often as the network duplicated a datagram. A server that is shut down while it
prepares its call data aborts (a call on a queue that is shut down); one that
already serves never does. `scheduler`: QueueKeepsLive and LoopKeepsRunning except
the runs in which the start-up race has lost the learner's first event; after
Init nothing else can bring the queue or the loop into that state.

Five more runs state what a comment says of the code, and TLC finds a
counterexample in what the code does:

* `acceptor_accepts`: "An acceptor can accept a proposal numbered n iff it has
  not responded to a prepare request having a number greater than n."
  HandleAccept uses the strict comparison of HandlePropose, so the accept request
  that follows a successful prepare is rejected.
* `acceptor_forgets`: "an acceptor is supposed to remember this information even
  if it fails and then restarts." Init reads the record of instance -1.
* `log_storage_clean`: "delete this segment in which all logs have been removed".
  Clean events share one type, so a second one replaces the first.
* `scheduler_starves`: "Callback if prepare not accepted before timout". The
  latest event is in front, and the learner's event is put back each time it
  runs; an overdue proposer timeout waits behind it for ever.
* `scheduler_races`: "no lock as event queue guarantees sequential". The main loop
  runs while PaxLearner::Init adds its event, and NextEventTime reads the front of
  the queue it has emptied of that event.

Seen while modelling, in the model, and not given a run of their own:

* a promise answers "with the highest-numbered proposal (if any) that it has
  accepted" (`acceptor_pax.cpp:37`); SetAcceptedProposal keeps the node id in
  place of the number;
* docs/main.md has `kMSG_TELL_INSTANCE_ID` answered by "ACK
  `kMSG_CONFIRM_LEARN`"; HandleTellNewInstanceId deadlocks on `mutex_follow_`
  before that (`learner_follow.cpp:60`);
* "this should not happen", says `proposer_pax.cpp:200` of a value timeout with
  nothing proposed; InstanceDone does not withdraw it, so it does.

### Bounds

* `acceptor`: two numbers by two nodes, two values, two instances. Four ballots
  allow two rounds of prepare and accept in every order. A ballot is promised at
  most once and accepted at most once, which bounds the history. Values are symmetric. `InstanceModulus`
  stands for 2^64; any modulus above the instances keeps -1 outside of them.
* `proposer`: clusters of one, two and three, so that a majority of promises, a
  full count and neither occur. Six numbers allow a chain of rejections that each
  report a higher promise, three instances allow late timeouts and
  acknowledgements.
* `log_storage`: three keys, four records: a key written twice around others, an
  unindexed record between indexed ones, several segments, crashes in a replay
  of several records.
* `segment_store`: segments of four units, records of one to three, five
  records: exact fits, remainders, and a second rollover after a crash in the
  first. It may stop for good once the metadata is refused, so deadlock is not
  checked there.
* `learner`: two nodes and three instances, window 0 in place of 10: the window
  fills, empties and is overtaken, jobs end by timeout and by success. Other
  nodes say they are in instance 0, 1 or 3, so that a gap occurs. An accept request
  is at most one instance late. One record at a time has a failed write.
  The main loop may be stuck for good, so deadlock is not checked.
* `network`: two clients. gRPC: two calls, of a served and of an unserved method,
  and one call data more per call. UDP: two messages each and one duplicate, so
  that a copy of the first echo answers the second message. A system whose calls
  are used up stops, so deadlock is not checked.
* `scheduler`: delays of one and two ticks, one tick of lateness. Only the order
  of events and whether they are due matter.

### Fairness

`scheduler`, `learner` and `network` check liveness, and so do
`scheduler_starves` and `log_storage_clean`. Scheduler: weak fairness of the
main loop's own steps (a running thread), of `LearnerPush` and
`LearnerSetId` (Init goes on) and of
the clock. Nothing makes messages or values arrive, and `LoopKeepsRunning`
speaks of the time when they no longer do. Log storage: weak fairness of the
second halves of calls and of `Clean` (`AutoDispatch` looks at the queue every
second). Learner: weak fairness of the sending thread and of the clock, none of
the main loop or of messages, so `JobEnds` holds with a stuck main loop and
silent followers. Network: weak fairness of the server's threads and of what
gRPC does by itself (match, write, deliver), none of callers, connections or
datagrams; strong fairness of receiving *some* datagram of a sender, because the
socket's buffer is a queue and the server is again and again busy with another.

## Proofs

TLAPS proves these for every value of the constants:

* `AcceptorProofs`: all four properties of `acceptor`. GrantsRise is not
  inductive: the handler that has changed the state and not yet replied must be
  covered. (It says "not below" across the two types and "above" within one: a
  HandleAccept that takes the promised ballot, as the comment wants, keeps it.) `IInv` adds that `promised` is at least every grant and exactly the
  ballot of a grant about to be sent (PromiseIsHighest), that `acceptedValue` is
  the value of the last acceptance, counting the pending one (ValueIsLast), that
  the record equals the state unless a write failed (RecordIsState), and that a
  node that is down has no grants or pending request (DownIsIdle).
* `ProposerProofs`: all four properties of `proposer`. NumbersPassCounted
  needs to know that between prepares the number is ahead of what was counted or
  a rejection is counted and the highest known proposal covers it (NumberIsAhead):
  then `SomeoneReject` makes `NewProposalId` pass it. ProposingIsSent ties the
  status to the last prepare.
* `LogStorageProofs`: all four properties of `log_storage`. `IInv` says that
  segments rise along the log (LogIsOrdered), that an indexed key's position
  names a record of that key not older than any removed one (IndexIsNew), that
  deleted segments are gone as a whole and files created again for them hold
  nothing (GoneIsWhole, HusksAreEmpty), that
  no segment file between an indexed one and the current one is missing
  (NoFileMissing; otherwise a replay would stop early), that the segment to be
  cleaned holds no indexed record but of a key whose DelIndex failed
  (CleanIsEmpty), and what the two half-done
  calls and the replay have established so far (OpIsCurrent, ReplayIsPast,
  QuietUnlessUp, AckedIsKept). The heart of it is that a replay from the record
  of the *greatest key*, wherever it lies, passes over every later record and
  ends with the newest of each key, where its PutIndex succeeds.
* `SegmentStoreProofs`: all five properties of `segment_store`, the refinement
  included, for every segment size, all record lengths and any number of records.
  The base is a lemma on `ReplaySegment`: if a file's records form one chain, the
  replay ends behind the last of them and nowhere else (ChainReplay), and a write
  at that place keeps every record and lengthens the chain (ChainAppend). `IInv`
  says that a file holds the records of its segment in a chain (FilesHold), that
  segments before the current one are cut to what they hold (ClosedIsCut), that
  no file and no record lies above the segment of the metadata (NothingAbove,
  OffsetsRise, SegmentsCount), that what is in memory between two calls is what a
  replay would find (IdleInv), what each step of a rollover has established
  (CutInv, NewInv, RollingInv, CleanInv), what is left for the next Init
  (DownInv), and that the checksum matches unless an update was torn
  (ChecksumInv). ImplementsLog follows action by action: the last write of a
  rolling Append, or the crash or failure that ends it, is a step of SegmentLog,
  and the other steps of the rollover and of the metadata are stutters. So the
  steps from which `LogStorage` is built are ones the files really make.
* `SchedulerProofs`: the safety properties of `scheduler`. `IInv` adds that once
  the learner has started its event is live or running (LearnerArmed), that
  while Dispatch pops all events are due (AllDue: the front is the latest one,
  so if it is due all are), that an emptied queue comes only from the lost event
  (EmptiedIsLost), and that messages come after Init (HandledAfterInit).
* `NetworkProofs`: the six invariants of `network`, for any number of clients,
  calls, Sends and duplicates. gRPC: a call data is in one place (Placed), the
  place tells its status and whether it can still be used (States), a call has
  one call data from its match on and was handled when it is answered (Matched),
  and a call data is created for each served method and each answered call
  (Allocation: so there is always a number for the next). AbortOnlyAtStart comes
  from Phases: `cq_` is closed only when no call is in progress, and a call
  whose event the loop takes is. UDP: FalseAcksNeedCopies says nothing of the
  copies that are still on their way, and those are what a later Send is falsely
  answered by. Excess counts, per Send, the duplicates that must have happened
  for it: a live datagram beyond the one it may have, and one more if another's
  echo was taken for its own. `Surplus` is the set of all of them and its size is
  at most `copies` (Balance). An echo that answers the wrong Send moves one
  element of the set from the one Send to the other; only Duplicate adds one.
  Handled and Acked tie datagrams and acknowledgements to the number of Sends.
* `LearnerProofs`: the six invariants of `learner`, for every number of
  instances and every window. `IInv` adds that what is learned and not yet
  executed is a value of this instance and in its record (LearnedHere), that
  between rounds nothing is learned (RoundInv), and what each place of the sending
  thread implies of `toSend`, `begin` and the window (ThreadInv). The thread's
  reads are safe because `instance` only grows and records below it are not
  written.
* `Routing`: RoutedTypes.

The assumptions are the named ones of the modules (ids are natural numbers,
delays positive, event types distinct, NoValue is no value). Each `IInv` was
checked with TLC before it was proved.

Only model-checked: the liveness properties (LoopKeepsRunning, JobEnds,
SendReturns, ServerStops, UdpSendReturns), which TLAPS does not reach, and the
counterexamples. Every other property of a passing run is proved.

## What is abstracted

* A record is its key and length; the value is known by its position. Keys are
  ranks in leveldb's byte order. The encodings of index entries, keys and
  records are left out, and so is the record's checksum: no modelled step
  changes a record's bytes.
* Crashes are of the process: what was written is in the file. Power failure,
  and with it fsync, is not modelled. System calls take effect whole or not at
  all, so that a record is never cut in half and a failed write leaves nothing;
  those of a rollover, every leveldb write and WriteLog may fail.
* Put, Get, Delete come one at a time; the clean event runs beside them.
* The heap is a set with a greatest element; ties are broken either way. Stale
  events that look alike are merged: they are only ever thrown away.

* gRPC and asio are modelled by what the code relies on. A message is its type
  and, with UDP, whether it is empty.

## Not modelled

* The proposal provider and the lock it waits on. The class cannot be
  instantiated (its `SafeQueue` has no default constructor) and the proposer's
  pointer to one is never set; `Flush` and `WriteResult` change copies, `NotifyAll`
  is empty. There is no running program to be faithful to.
* `Node`: it reads options and creates the network; the controller is commented
  out.
* The key-value machine beyond its results: `KV::Init` has its test inverted and
  never opens the database, `Execute` returns false, `GetSMInstanceId` 0.
  `PushSMByState` runs only when the record Init reads is more than one
  instance ahead of the state machine; the record of instance -1 is never written
  and reads as instance 0, so it does not run.
* `network/asio/include/io_client_server.hpp`: no file includes it.
* `DeleteSegmentBefore`, `Accept`'s second phase and other functions nothing calls.
* `Quit`, for the reason given above, and the bound of the message queue, whose
  effect is a lost message.

Hazards seen and not covered by a property:

* neither branch of `PaxController::Init` may assign `instance_id_`
  (`controller.cpp:77`; modelled as any instance);
* the event queue is used by two threads without a lock while Init runs
  (`event.hpp:56`; interleaved at the push and the id, not inside either);
* keys are decimal strings of varying length of which Append copies a fixed
  number of bytes (`storage_pax.cpp:23`);
* a replay whose PutIndex fails for a key (`log_stroage.cpp:191`; in the model,
  excepted for that key), and a WriteLog that fails (`player_pax.cpp:42`; in the
  model, excepted for that record);
* with an empty index the replay is skipped, and records whose Put was cut before
  PutIndex stay unindexed (`log_stroage.cpp:154`; no acknowledged one is among
  them);
* a rejection that is dropped and its number used again, an acknowledgement of the
  instance before that is counted, a given-up value that is proposed next
  (`proposer_pax.cpp:76`, `:217`, `:30`; all in the model, see Proposer);
* the prepare that carries the number as its node, and votes counted under the own
  node id (`proposer_pax.cpp:175`, `:90`);
* `SendLearnedValue` names the receiver as the sender of what it sends
  (`learner_lead.cpp:52`);
* an acknowledgement of a synced value names the instance the follower is in, not
  the value's (`learner_follow.cpp:85`; in the model as it is).

## Plan

1. The grant that is sent although its record was not written
   (`player_pax.cpp:42`): a statement of what a restart then loses.
2. What a store that is "astray" can still answer, with offsets in place of
   positions.
