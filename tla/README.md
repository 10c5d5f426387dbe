# wasm_player: TLA+ models, checks and proofs

The repository holds two players that share their ideas and some of their C++:

- the **native player** (`BMIMediaPlayer/`): five or more threads, bounded
  blocking queues between them, started, paused, sought and stopped by the
  embedding program's thread, and stopped by its own last renderer;
- the **browser player** (`webplayer/`): JavaScript on one thread, with Web
  Workers and a C++ decoding thread (`webdecoder/`) that answer later; packets
  come from a file or from an RTSP client; a second, MSE based player
  (`webplayer/h5player/`) feeds a `SourceBuffer`.

Both are pipelines demuxer -> packet queue -> decoder -> frame queue ->
renderer, one branch per stream. What is hard is the same in both: what is
under way when somebody pauses, seeks, stops or starts again.

## Inventory

| component | state | operations | hard behaviour | what makes it correct |
|---|---|---|---|---|
| Blocking queue (`blockingqueue.h`) | list, capacity, one sticky `forcewake_` flag, mutex, two condition variables | `push`, `take`, `forcewake` | `forcewake` takes no mutex; one flag for two sides; wakeups may reach nobody | FIFO, nothing lost, no lost wakeup, one release per forcewake |
| Worker thread (`cbasethread`, `basethread`) | stop flag, `m_isRunning`, the mutex the thread holds, thread id | `start`, `stop`, `wait`, `isRunning`, `run` | callers race each other and the thread; `wait` polls a mutex a new thread has not locked yet | silent after stop and wait; restart not lost; `isRunning` true |
| Session queues (`iunknownqueue`) | a blocking queue per stream and kind | `push`, `pop`, `isEmpty`, `forcewake` | shared by worker, stop and seek | as above, per stream |
| Playing session (`mediafunction`, `demuxthread`, `decodethread`, `renderthread`, `playcontrolparam`, `mediadata`) | the threads, `PauseInfo`, `SeekInfo`, `m_releaseIndex`, `m_isRepeat` | read, decode, render, cache switch, end of file, pause, resume, toggle, seek, stop | five threads and two callers of stop; the end of the file drains codecs; the last renderer stops the session it runs in | every frame rendered once in order; finish reported after all streams; stop returns and leaves nothing |
| Render clock (`masterclock`, `renderparamcontrol`) | clock, `seekIndex`, speed | when a frame is due, resynchronise after seek, auto speed | two renderers share counters without locks | renderers agree on a seek, the user's speed survives |
| Open and close (`playentrancethread`, `mediaplayer`, `mediafunction`) | file name, entrance thread, demuxer, session, `m_releaseIndex` | `PlayFile`, `Stop`, the open, the end of the streams, destructor | a slow open races stop and the next play; the count of ended streams outlives a session | what was asked for is played, nothing plays after stop, each play is answered |
| Resources (`Resource/*`, `unknown.h`) | reference counts | `AddRef`, `Release`, `QueryInterface` | who owns a packet that `push` refused | released exactly once |
| ffmpeg plugins (`playerplugins/`) | codec and format contexts | open, read, decode, close | wrap ffmpeg | answers the session expects |
| Browser player (`WebPlayer.js`, `StreamController.js`, `Renderer.js`, `Demuxer.js`, `PlayerController.js`) | queues as arrays, `isStop`, `isPause`, `isRunning` of demuxer, decoder, renderer | `PlayFile`, `PlayRtsp`, `stop`, `pause`, `resume`, `seek`, one handler per answer | every answer may come after a command that made it stale; nobody polls the pipeline, each event must start the next | order, one request at a time, stop is quiet, everything shown |
| Decode worker (`decode_worker.h`, `Decoder.js`) | two lists, C++ thread, polling timer | `decodeData`, `checkData`, `Release` | stale answers, destructor without the mutex | one packet at a time, join ends |
| RTSP client (`rtspclient/`) | sockets, one queue of answers, one response object, one timeout flag, channel map | `play`, `stop`, `pause`, `resume`, DESCRIBE ... TEARDOWN, silence timer, RTP reassembly | late and unsolicited answers, answers in parts, timeouts, a second play | answer matches request, handlers before data, quiet after stop, handshake ends |
| MSE player (`h5player/`) | pending segments, `_hasPendingEos`, source and source buffer | append, init segment, end of stream | `updating`, full buffer, source not open yet | init segment first, order kept, end after the last segment |

Interactions. The demuxer's thread calls `MediaFunction::recvPacket`, the
decoders `recvFrame`, the renderers `getFrontFrame` and `releaseRender`; the
user's thread and a renderer call `stop`. Shared without a lock: stop flags,
`m_releaseIndex`, `m_isRepeat`, `PauseInfo` (partly), `SeekInfo`. In the browser
everything goes through events; only `DecodeWorker` shares memory with a thread.

## Modules

| module | models | composed of |
|---|---|---|
| `BoundedFifo` | what a queue promises: an atomic bounded FIFO whose calls may be refused once per forcewake | |
| `BlockingQueue` | `blockingqueue.h` with mutex, condition variables, the unlocked forcewake, spurious wakeups | refines `BoundedFifo` |
| `WorkerThread` | `cbasethread.cpp`, `basethread.cpp` | |
| `StreamQueues` | all queues of a session, a call in one step, with the gap between predicate and sleep | uses what `BlockingQueue` establishes |
| `MediaSession` | one playing session | extends `StreamQueues` |
| `OpenClose` | one native player from file to file | sees a `MediaSession` as one state and its `stop()` as one step |
| `WebPlayer` | the browser's pipeline, fed from a file or from the network | sees an `RtspSession` as answers that come some time |
| `RtspSession` | the RTSP client of the browser | its `Success` and `Rtp` are `SetStream` and `SetPacket` of `WebPlayer` |
| `MSEController` | the feeder of a `SourceBuffer` | |
| `BlockingQueueProofs`, `WorkerThreadProofs`, `MediaSessionProofs`, `OpenCloseProofs`, `WebPlayerProofs`, `RtspSessionProofs`, `MSEControllerProofs` | theorems | extend the module they are about |
| `OrderedPaths` | lemmas about sequences that flow through a pipeline | extended by `MediaSessionProofs` and `WebPlayerProofs` |
| `MC*` | instances for TLC | |

Definitions prefixed by a comment "Mutant:" are plausible wrong versions of the
definition below them. No specification uses them; they show that the
properties notice such a mistake (`PROJECT.json`, "mutants").

### BlockingQueue and BoundedFifo

A call of `push` or `take` is cut into: lock and evaluate the predicate
(`Look`), finish and notify (`PushCommit`, `TakeCommit`), or go to sleep
(`Park`). From `Look` to the end of the step that follows the thread holds the
mutex; `forcewake()` consists of three steps (`ForceSet`, `ForceNotifyEmpty`,
`ForceNotifyFull`) that do not need it and fall anywhere, also between those of another
forcer: the thread that stops the player and the demuxer in `clearPacket()` overlap. `SpuriousWake` may
wake any sleeper at any time. Values are numbered by their push.

### WorkerThread

Every `start()` that finds `m_isRunning` false spawns an *instance* of the
thread. An instance is `spawned` until it gets `m_mutex`, loops between `check`
and `body`, and leaves over `leave` and `finish`. `start()` is two steps (flag
cleared, then `isRunning()` read and the thread spawned), `wait()` two (called,
and returned when the mutex was found free). An instance may stop its own worker
(`StopOneself`, the end packet) or break out of the loop.

### StreamQueues and MediaSession

One `BlockingQueue` per stream and kind. A call takes effect in one step, which
is what the refinement of `BoundedFifo` allows, but two things that the session
depends on are kept: the sticky flag, and the gap between a false predicate and
sleep. `missed` records that an unlocked wakeup fell into that gap. The
condition variable of `PauseInfo` has the same gap.

`MediaSession` begins when `openFileSuccess()` has called `start()` for the threads.
As in `WorkerThread`, a thread that was started is only `spawned` until it has locked its
worker's mutex (`DemuxEnter`, `DecodeEnter`, `RenderEnter`): up to then `m_isRunning`
is false, a second `start()` spawns a second one, and `wait()` does not see it.
`Delete` removes an object whatever is still spawned for it (`overlooked`); a thread that
enters afterwards uses a deleted object (`EnterCrash`). Inside, each
thread has a place in its `run()`: the demuxer in `demux`, decoders in `decode`,
renderers in `render`, callers of `stop()` in `stopping`, the user's thread in
`user`. One action stands for what a thread does between two points at which
others may see it. Packets are numbers per stream; what a thread holds in its
hands (`item`, `packet`, `frame`, `shown`), what a codec keeps back (`codec`),
what is dropped and what is leaked is state, so that completeness can be stated.
`m_releaseIndex++` is a read and a write, since two renderers do it unlocked.
Use of a null or deleted object sets `crashed`, after which nothing happens.
`renderStops` counts how often a renderer was stopped.

Abstractions: the stop flags that `stop()` sets one after the other are set in
one step, and its `forcewakeQueue()` wakes all queues in one step; a `wait()` that
returns and the deletion after it are one step, per object, and the decoders, and then the
renderers, are deleted in any order among themselves; what `CBaseThread::thread()` does
after it has unlocked its mutex (a counter and a message, `cbasethread.cpp:105`) belongs to
the last step under the mutex; `judgePlayStatus()` reads the sizes
at one moment; packets arrive in any interleaving of streams; a frame that is late
counts as rendered; a decoder answers every packet with a frame, or with none
while it fills up (`CodecDelay`); decode errors, clock and scale are left out.
Spurious wakeups are in `BlockingQueue` only.

### OpenClose

The user's thread calls `PlayFile()` and `Stop()`; `Play()` is cut between its
first test of the entrance thread and `start()`, which tests it again. Started
entrance threads wait for the mutex of their worker (`spawned`), so several may
run one after the other: `isRunning()` is false until the first has entered.
`playInThread()` is cut where the user's thread can see or change something:
the demuxer is made or there is none (`Enter`), the name is read (`ReadFileName`), the open fails
or succeeds, the thread leaves. While a session plays, its streams end in any
order (`ReleaseRender`), and the last one stops it. A `stop()` that finds a
session is one step: what happens inside is `MediaSession`'s subject.

`hasty` marks a command given during an open, `cut` a session stopped between
the ends of its streams, `orphaned` a session whose thread objects the next one
has overwritten; the properties say what holds without them. `started`, `answers` and
`silent` count the entrance threads, the calls of `openFinshType()` and the opens without a
demuxer, so that `PlayIsAnswered` asks for as many answers as opens and an earlier answer
does not count for a later open. A codec that does not open is left out: `openFileSuccess()`
then takes later decoders for earlier streams and `m_decoderVec.at()` throws for the last
one, on the entrance thread, which ends the process (`mediafunction.cpp:136`, `163`).

### WebPlayer

JavaScript runs one event handler at a time, to its end, so an action is a
handler: a command of the user, the answer of the demuxer's Worker (answers come
in the order of the requests), the poll of the decoder (`CheckData`), the answer
of a renderer (`Render`, any frame it holds: they sleep until they are due), or a
packet from RTSP. The methods of `StreamController.js` are functions of the
stream's record and nest as the calls do: `FrameRendered` is `convertFrame` then
`decodePacket`. `Decode` is the C++ thread's turn. A file is read on request, a
live stream is pushed: `Sources` says which of them the user may play.

A `seek()` is stored in the demuxer (`seekInfo`) and copied into every request
(`posted`); the Worker carries out the copy and answers `seekfinished` before
the packet, which clears what is stored then. `scaleInfo` travels the same way
and is left out.

Abstractions: the Workers are loaded; files have the streams in `Streams`, with
at most `MaxPackets` packets each; processing in the demuxer's Worker and its
answer are one step, which FIFO order justifies; `checkData()` is a timer, never
called from a handler (`Decoder.js:129` calls it as soon as the packet is handed over; that the
thread has an answer by then, and the handlers nest, is left out); a discarded frame counts as shown. Both streams' `isStop`
and the player's are one variable: `WebPlayer.stop()` and `init()` set all three in one handler.

### RtspSession

Every `play()` opens a WebSocket; all later commands use the last one, while
older sockets still deliver. `sendRequest()` is a chain of awaits: an action is
what runs between two of them, taken by whichever chain polls first
(`Waits`). Answers carry no number the client looks at: `rtspResponseQueue`
holds as many references to one `RtspResponseContext` as answers have come, so
the model keeps their number (`queued`) and the last content (`response`). An
answer that arrives in parts is parsed with its first part already, which resets
the status, or, when the part holds the whole header of an answer with a body, sets the
new status without the body (`AnswerBegins`). The server answers a socket in the order of its
requests, or refuses, or challenges once (the second challenge is a refusal). Data
may come as soon as it has answered PLAY; `lost` records data of a known channel
that had no handler. The interval timer of each play reads the one `timeoutFlag`.

Abstractions: RTP reassembly, time stamps, digest and SDP syntax; every SDP has
`Tracks` media; an RTP message arrives whole.

### MSEController

The page appends the init segment, then each media segment, then the end, and
attaches the element at any time, as `remuxer.html` and `ffmpeg-demuxer.js` do.
The browser opens the source some time before the event `sourceopen` arrives,
finishes appends, refuses a second `SourceBuffer` and refuses a segment when
`Capacity` are held; playing makes room (`Evict`). `slipped` marks the case that a
call of the page falls between `readyState` and the event, `full` that the last
append was refused. An event that comes when the source has ended already sends its first
segment to the end of the queue (`OnSourceOpen`), which is `slipped` as well.

## Runs

| run | instance | shows |
|---|---|---|
| `queue` | 2 producers, 2 consumers, 2 forcers, capacity 2, 4 pushes, 2 forcewakes, symmetric | FIFO without loss, at most one empty-handed return per forcewake, no lost wakeup, refinement |
| `queue_live` | 1 + 1 threads, 2 forcers, capacity 1, 3 pushes, 2 forcewakes | every value is delivered, a sleeper is released |
| `worker` | 2 callers, 3 instances | silence after stop and wait, restart not lost, `m_isRunning` true, a restart runs |
| `worker_start` | 1 caller, 2 instances | **violated**: `start()` without `wait()` may start nobody |
| `session_file` | 2 streams, 2 packets each and the end, queues of 1, codec delay 1 | completeness and order, no early finish, the end is reached |
| `session_live` | 1 stream, live, 3 packets, queues of 1, 2 commands | `stop` returns, `resume` wakes the demuxer |
| `session_user` | 1 stream, 2 packets, cache on, time stamps jump, 2 commands of any kind | nothing lost but by stop and seek, at most one held frame leaked per stop of a renderer, `stop` leaves nothing but threads it overlooked |
| `web` | 2 streams, a file or a live stream, 4 packets each, queue 2, codec delay 1, 2 commands out of pause, resume, seek, stop | bounded queues, order, nothing lost, stop is quiet, one request, a seek carried out once, packets consumed, shown to the end |
| `web_again` | 1 stream, 2 plays, 1 stop | **violated**: a decode under way at the second play blocks the decoder |
| `rtsp` | 2 tracks, credentials, 1 play, 3 commands | answers match, player ready before the data, no false alarm, quiet after stop, handshake ends, silence noticed |
| `mse` | 5 segments, a buffer of 2 | order, end after the last segment, all appended, end carried out |
| `open_close` | 2 files of 2 streams, 5 commands | what plays was asked for, leaks bounded, playFinsh is the end, stop holds, every open answered |

**Bounds.** Queues of one or two with more packets than places make every queue
fill up and run dry; two producers and two consumers are the fewest for which
`notify_one` can choose wrongly (the player has one of each per queue, two when
`clearPacket()` joins). Three instances are what two overlapping starts and a
restart need. Two commands reach pause-resume, pause-seek, seek-stop and
toggle-anything. Two streams are needed for the renderers' race on
`m_releaseIndex`, for the end packet's way through all queues and for
`OneRequestAtATime`; where one stream suffices a run has one. Larger instances
were run by hand with the same result: three commands for `web` (543 thousand states),
two plays and one command for `rtsp` (23.8 million, safety only), three streams and six
commands for `open_close` (380 thousand); two streams for a user with one command were
searched for 15 million states, not to the end. Five commands reach two
complete lives of a session and a play that comes during an open. Two tracks make the
SETUP loop go round; three commands stop, pause and resume within one handshake.
Five segments fill a buffer of two twice. The types of `BlockingQueue`,
`WorkerThread`, `OpenClose`, `RtspSession` and `MSEController` are in no run because
they are proved.

**Deadlock** checking is off where the instance ends: sessions and plays stop, the
bounds on commands, instances and packets are used up.

**Fairness** is weak and per thread. The operating system runs every thread that
can run; `wait()` polls; notified threads get the mutex eventually; timers fire,
Workers answer and sleeps end. Nothing obliges the user, the network or a forcer
to do anything, except that a command once begun goes on. In `FairSpec` of
`MediaSession` the guard `~crashed` is part of each fair action, so that behaviours
that crash are not excluded. Liveness properties that `forcewake()` may defeat by its
unlocked notify say so (`\/ missed`), and those that an overlooked thread may end in a crash, `\/ crashed`.
In `OpenClose` the threads run and an open
ends, but a file need not. In `RtspSession` intervals fire and a server answers
while its socket is open; data and connects are not owed. In `MSEController` the
browser delivers its events; the page and playback owe nothing.

`StopCompletes`, `ResumeReachesDemuxer`, `AllShown`, `PacketsConsumed` and
`SilenceIsNoticed` are stated for the cases in which the code keeps them; Known limits lists the others.

## Findings

1. `worker_start`: `CBaseThread::start()` (`cbasethread.cpp:25`) does nothing
   while the last thread is leaving, though `cbasethread.h:14` says it starts
   the thread. Pause and Resume in quick succession, or the cache switch, meet it.
2. `web_again`: `Decoder.initDecoder()` (`Decoder.js:26`) replaces the worker but
   not `isRunning`; with a decode under way no packet is decoded again,
   against `StreamController.js:165`.

## Proofs

All statements hold for every value of the constants under the named assumptions.

**`BlockingQueueProofs`** (assumption `QueueAssumption`): `TypeCorrect`,
`Fifoness`, `OneRelease`, `WakeupsArrive`, `Refinement`. None of the properties
is inductive alone, because each depends on who holds the mutex. `Ind` joins the
types; `Mutex`, one thread at most in `commit` or `park`; `Looked`, what such a
thread saw of the predicate still holds (in `park` of the queue only: the
unlocked `forcewake()` may have set the flag since); `Numbered`, `FifoNoLoss`
element by element; and `OneReleasePerForcewake`, which counts empty-handed
calls and the pending flag against the calls of `forcewake()`. `WakeupsArrive`
(`NoLostWakeup`) adds `Sides`, the counting argument that makes `notify_one`
enough: while somebody of a side sleeps, at least as many threads of that side
are on their way as there are items (or free places), and each commit moves both
numbers by at most one. The refinement maps a commit to `Put` or `Get`, a refused
call to `Refuse`, the forcer's first step to `Force` and everything else to a
stutter.

**`WorkerThreadProofs`** (`WorkerAssumption`): `TypeCorrect`, `Silence`,
`Restart`, `Truthful`. `Ind` ties `m_isRunning` to the holder of the mutex
(`RunningIsTruthful` itself); a quiet worker has its stop flag set and nobody in
the body; `wait()` settled a worker only when nothing was alive and no `start()`
was under way; an owed restart has an instance before the body, or still has
nothing alive that could make `start()` return without spawning one.

**`OrderedPaths`** (no assumption) holds what the two pipelines share. A stream's
items are one sequence, the *path*, whose segments are what its stages hold. An item
that goes on moves from the head of a segment to the end of the one before it, which
leaves the path as it is (`MoveHead`); a new one comes at its end; one that is thrown
away leaves an ascending path (`Loses`). `Accounted` says that the path ascends
and that with the items taken out by name it makes up `1..n`.

**`MediaSessionProofs`** (`QueuesAssumption`, `SessionAssumption`): `Invariance`,
`Completeness`, `CountingHolds`, `FinishTrue`, `TypeCorrect`, `StopClean`, for any number
of streams and renderers, queue sizes and commands.

- `Ind` is the inductive core: the types; what a thread holds at its place in `run()`
  (`DemuxHolds`, `DecodeHolds`, `RenderHolds`: a decoder drains its codec with the end
  packet in hand only, and an end never stays in a codec); `EndsRead`; and `Paths`, the account
  of the path from the demuxer's hands to the screen. Without what the threads hold
  a step that takes "the head of what it holds" could take nothing, or two items.
- `NothingLost` follows from `Ind` and `Uninterrupted`: before a seek, a stop or the
  end nobody wakes a queue, so no `push` is refused. Frames leaked are counted by `Leaks`: a
  renderer that is stopped with a frame in its hands, which takes a jump of the time stamps,
  leaks that one frame when it leaves, so leaks and frames still to be leaked are never more
  than the stops (`renderStops`).
- `FinishAfterAll` cannot follow from the count alone, which two renderers read and write
  in two steps. `OneEnd` says that one end of a stream at most is past its codec,
  because a decoder stops for good with it; so a renderer meets its end once and
  `Counting` bounds the index, and every value read of it, by the renderers that
  are past theirs. A lost update only makes the count smaller: `playFinsh` may be missed,
  but is never early. The bound on the index in `TypeOK` is this one, too.
- `StopLeavesNothing` rests on the order of deletion in `stop()` (`Deleted`):
  demuxer, decoders, renderers, each after its thread has ended, so nobody fills a queue
  whose consumers are gone, and what is cleared last stays clear. A thread that was spawned
  and had not entered when its object was deleted is counted in `spawned` and named in
  `overlooked`; it crashes before it touches a queue (`FlagTypes`, `Deleted`), and
  the property says that no other thread outlives `stop()`.

Where two `stop()` calls meet, the model crashes and stays as it is; the invariants
are true of those states as well.

**`WebPlayerProofs`** (`WebPlayerAssumption`): `StopHolds` by the invariant that
each method leaves a pair of empty queues alone or is not called after stop;
and for `MaxPlays <= 1`:

- `OneRequest` by `Turns`: before the answer to `initdemuxer` all streams are as
  they were made, so no frame can ask for a packet; afterwards a request is
  outstanding only while `demuxer.isRunning` is set.
- `OnTheWay` and `TypeCorrect` by `Flow`. Every method of a stream keeps it `WellFormed`,
  keeps its path and, but for a packet pushed, makes it no fuller (one lemma per method; the actions compose
  them as the handlers nest the calls). `Rooms` makes the size of the queues
  a consequence of who asks: while a request is outstanding every stream has
  `HasRoom`. The packet asked for by `startPlay()`, which looks at no queue, has room
  because its decoder is idle and takes it at once; that is why a queue of size 0 is
  no exception.
- `SeekTrue` by `SeekKept`: the newest seek is in `seekInfo`, or in the one
  `demuxpacket` under way, or done; `seekfinished` may clear a newer one only
  if that was given while the copy was under way (`overrun`).

The assumption is needed: a second play posts its `initdemuxer` behind whatever is
outstanding, and takes packets, frames and seeks of the first one for its own (see Known limits).
With `MaxPlays = 2` TLC finds all four properties violated (`TypeOK` with a queue of 1).
`StopHolds` needs no such assumption. Of a packet's answer there is one at most
(`TypeOK`), so `Frames` asks whether an answer is no frame instead of filtering a sequence.

**`OpenCloseProofs`** (`OpenCloseAssumption`): `TypeCorrect`, `AskedIsPlayed`,
`LeaksBounded`, `FinishTrue`, `StopLasts`. Without haste at most one entrance
thread is on its way, only while no session exists, and the name it has read is the
one asked for (`AskedInv`); a demuxer without session and open was left by an open
that failed, so it counts as leaked already (`LeakInv`). Unless a session was cut or
orphaned, the ends counted and the streams still playing add up to all streams
(`EndsInv`, `CountInv`), so the count is full at the end of the last one.

**`RtspSessionProofs`** (`RtspAssumption`): `TypeCorrect`, `AnswersAreRight`,
`ReadyInTime`, `StopIsFinal`, `NoFalseAlarm`. The heart is `MatchInv`: in an
undisturbed session the first play, until the player has its streams, either waits
for an answer that is not queued, with its own request on the wire or dropped
(`Asked`), or has just that answer queued and nothing on the wire (`Told`), or waits
for nothing (`AtRest`); and the server is not playing. Every step of client and server
moves from one to the next, so the player has its handlers before data can come.
`StopIsFinal` needs that no handshake is under way (`QuietInv`), `NoFalseAlarm` that
one timer alone clears the flag (`AlarmInv`).

**`MSEControllerProofs`** (`MSEAssumption`): `TypeCorrect`, `SegmentsInOrder`,
`EndAfterAll`. `Ind` numbers what is buffered and what is pending (`OrderInv`); says that
there is no `SourceBuffer`, and nothing in it, before the source is open (`SourceInv`),
that an idle one leaves nothing pending unless it refused a segment (`IdleInv`), and
that an end is pending or carried out only after the last segment (`EndInv`).

Every invariant and every action property that a passing run checks is a theorem. Only
model-checked are the liveness properties, which the prover cannot treat:
`EveryValueDelivered`, `ForcewakeReleases`, `RestartRuns`, `StopCompletes`,
`ResumeReachesDemuxer`, `HandshakeEnds`, `SilenceIsNoticed`, `AllBuffered`, `EndComes`,
`PlayIsAnswered`, `PacketsConsumed` and both `AllShown`. No module declares a
RECURSIVE operator.

## Known limits of the code, met while modelling

These are states the models reach, so properties exclude them by their scope or
their wording rather than claim their absence. Native player:

- A `forcewake()` or a `resume()` in the gap between a thread's predicate and
  its sleep is lost; `stop()` then waits for ever (`blockingqueue.h:46`,
  `playcontrolparam.h:50`). Without `\/ missed` both liveness properties fail.
- A thread that was started and has not locked its mutex yet is overlooked by `wait()`
  (`cbasethread.cpp:62`): a `stop()` right after the open, a `Resume()`, a `Seek()` or the cache
  switch deletes its object under it (`mediafunction.cpp:459`, `466`, `479`, `493`). In a
  `Seek()` the overlooked demuxer may run past its stop flag and leave just when `start()` looks
  at `m_isRunning`: then nobody is restarted and the playback ends.
- After a seek the demuxer's `clearPacket()` may sleep on its own queue, or
  pop null and call `Release()` on it, when a decoder takes the last packet
  between `isEmpty()` and `pop()` (`mediafunction.cpp:350`).
- Two `stop()` calls at once (user and last renderer, or two renderers that both
  see the full `m_releaseIndex`) use objects the other deleted (`mediafunction.cpp:443`).
- A stop while the codec is being drained at the end of the file hangs if the frame
  queue is full: the loop ignores the stop flag and one forcewake releases one
  push (`decodethread.cpp:47`).
- A seek after the end of the file finds decoders that stopped themselves; the
  packet queues fill up and nothing is shown. A seek while paused waits for a
  demuxer that sleeps in `waitPause()`.
- With the cache on, renderers stopped because one queue ran dry are started when
  one is full; with two streams everything can be blocked before that. The
  switch also restarts renderers that a pause or a stop has just stopped.
- `m_releaseIndex` is not reset by `stop()`: the next file is stopped when its first
  stream ends (`FinishIsTheEnd` excepts it by `cut`); a subtitle stream is counted but has no
  renderer, so such a session never finishes.
- A renderer stopped while it holds a frame for a time-stamp jump neither
  shows nor releases it (`renderthread.cpp:142`): `NothingLost` bounds how many.
- A command during an open: `Stop()` is lost but clears the name, `PlayFile()` is
  ignored but changes the name that the open may still read
  (`mediafunction.cpp:432`); two `PlayFile()` in a row start two entrance threads,
  and the second session overwrites the threads of the first, which nobody stops
  any more. After that nothing is claimed of the orphaned session.
- A failed open leaves its demuxer to be overwritten by the next one. An open for which
  the factory has no demuxer ends without `openFinshType()` (`mediafunction.cpp:64`), and one
  with a codec that does not open ends the process (`mediafunction.cpp:163`).

Browser player:

- A packet of the old file, asked for before a restart, is pushed for the new
  one, and two chains of requests run; the old `DecodeWorker` is never released.
- The frames the codec keeps back at the end are never asked for, and
  `callPlayFinish()` is commented out (`WebPlayer.js:261`).
- If `packetQueueSize` packets in a row give no frame nobody asks for another
  packet (`StreamController.js:174`), so `AllShown` is checked with a codec delay
  below the size of the queue; a read error ends the chain of requests as well,
  until a frame is rendered.
- A `seek()` while an earlier one is under way is forgotten with it; one after the end
  of the file is never sent; one that fails is tried again with every packet. A
  play that overlaps an old request may carry out a seek twice.
- `stop()`, `pause()` and `resume()` throw before the first `PlayRtsp()`, because the RTSP
  session has no socket (`PlayerController.js:152`).
- A command or a silence alarm during the RTSP handshake shifts the answers by one;
  its timer tears down for want of data although the handshake is not over yet. Two
  plays share the timeout flag, and after one lost socket no timer gives up again.
- A segment or an end that the page gives between the opening of the source and its
  event may be lost or displaced (`mse-controller.js:115`); after a refused append nobody tries
  again before the next segment, and `endOfStream()` then cuts off what is pending.
- A file without audio or video never starts, `checkMediaLoadState()` waits for both.
- The queue of packets from RTSP has no bound. Frames in the renderer are still
  drawn after stop.

## Not modelled, and the plan

Next, in this order:

1. `RenderSync`: `renderparamcontrol.cpp`, two renderers, `seekIndex` with `==`, auto speed.
2. `DecodeWorker`: mutex, condition variable and destructor of
   `decode_worker.h`; abstracted by the lists in `WebPlayer`.
3. `ResourceRefs`: counts of packets and frames along the paths of the session, with
   decode errors.
4. A third, subtitle stream in `MediaSession`.
5. Scale and the browser's clock (`autoSpeed()`) in `WebPlayer`; RTP reassembly as a
   function over fragments.

Theorems worth proving after that: for `WebPlayer` with several plays, how many requests
can be outstanding and what a second play keeps of the first; that `StreamQueues` in
one step per call is what `BlockingQueue` allows; the join of `DecodeWorker`.

Not planned: ffmpeg wrappers, WebGL and OpenAL output, factories and callbacks,
QR code filter, destruction of the native player: one call each, or not this program's
logic. Most of the repository's lines are vendored: boost and ffmpeg headers, libqrencode, URI and
SDP libraries, build scripts. The program itself has some twelve thousand lines, and
the modules model the parts of it that decide anything about order, time or sharing.
