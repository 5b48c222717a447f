# wifi_audio in TLA+

wifi_audio turns an ESP32 board into a network microphone: it reads audio from
an I2S device, compresses it with a codec and multicasts it as RTP packets to
the clients that asked for it over RTSP. This directory holds TLA+ models of
its concurrent core, configurations that check them with TLC, and theorems
about them that TLAPS checks for every value of the constants.

Line numbers below are those of the files under `src/` of the repository.

## 1. The system

### Threads

| thread | code | what it does |
|---|---|---|
| reader ("i2s") | `_Reader::run`, utils.cpp | fills two buffers in turn from the audio source and queues them |
| encoder ("encode") | `audio_copy`, utils.cpp | takes a block, encodes it, sends the packet to every playing client |
| server ("rtsp") | `_server`, server.cpp; `rtsp_server` | runs the socket server; when it returns, shuts the rest down |
| one per connection | `RtspClient::run`, rtsp_server.cpp | receives requests, parses, answers and carries them out |
| socket server | panglos `SocketServer` | accepts connections, deletes a connection whose thread has ended |
| main / CLI | main.cpp, server.cpp, status.cpp | command line (`rtp`, `codec`), LED in the idle loop |

### Components

| component | state | operations | what makes it correct |
|---|---|---|---|
| RTSP request parser (rtsp.cpp `Parser`, `LineParser`) | none between requests | one request to a status code and a command | a refused request is no command; no input reads a null pointer |
| RTSP session (rtsp.cpp `Session`) | `state`: INIT, READY, PLAY, DEAD | `allowable`, `process` | PLAY needs a SETUP and a PLAY that were granted; only TEARDOWN and KILL end it |
| RTSP handler and connection thread (rtsp_server.cpp) | `rtp_client`, `socket`, receive buffer and `idx` | setup, play, pause, teardown, terminate, disconnect, destructor | the state told to the peer and the engine's list agree; each `RTP_Client` is deleted once, when nobody uses it |
| RTP engine (rtp.cpp) | `playing` (intrusive list), `mutex`, block pool, `packet_seq`, `timestamp` | play, remove, send, get_client, get_free / put_free | a packet reaches exactly those on the list when it starts; no freed node is visited; the mutex is always released |
| audio pipeline (utils.cpp) | two buffers, `idx`, queue of two, `*dead` | acquire, read, audio_copy | frames reach the codec whole, in order, none lost, while the encoder keeps up; both threads obey the flag |
| lifecycle and CLI (server.cpp) | threads, engine, codec, the names in `Objects` | start, kill, join, delete; `rtp`, `codec` | shutdown ends; nothing is deleted while used |
| network and start-up (main.cpp, network.cpp, esp32/init.cpp, targets/) | what exists and is registered, the WiFi interface | devices, network, board, application, `net` | a start that stops half way meets no ASSERT later; a board that can serve does |
| status LED (status.cpp) | `state`, `done`, `toggle` | on_state (any session), on_idle (main) | the LED ends up showing the last state |
| codecs (audio_codec*.cpp) | encoder state | init, encode, sizes | sizes agree with the engine's blocks and the reader's buffers |
| WAV and raw files (wav_file.cpp) | file, bytes written, position | open, write, close, delete; open, read | header agrees with the data; a file cut short by a failure still plays, to its last byte |
| I2S driver (esp32/i2s.cpp) | the channel, counters | init, read, destructor | an enabled channel has an object; a read that fails is seen by the reader |

### How they interact

* A connection's thread calls the parser, which calls the handler, which calls
  the engine; `Session::process` changes its own state only after the handler
  has returned. Responses are flushed **before** the command acts.
* The engine's mutex is shared by the connections (`play`, `remove`), the
  encoder (`send`, over the whole visit of the list and a socket send per
  client) and the CLI (`get_client`).
* Reader and encoder share buffers by pointer through a queue; no lock covers a
  buffer's contents. `*dead` is polled by both.
* What is made at start-up is found by name in `Objects`: the board and
  `_server` register names, `rtp_init` and the CLI's commands take them, and
  nothing removes one.
* A session's end runs in three steps of two threads: `terminate` takes the
  client off the list, the thread ends, the socket server's thread deletes it.

### What is hard

Interleaving of connections with a visit under way; the time between an answer
and its effect; sequences of legal requests nobody tested (PLAY twice, SETUP
twice); what the CLI does with a pointer after the lock; buffers reused two
frames later; shutdown of threads that block without a timeout; short reads;
names that outlive what they stand for; a start, or the closing of a file, that
stops half way.
`PROJECT.json` lists each of these hazards at its line, with the properties
that cover it.

## 2. The modules

| module | models | code |
|---|---|---|
| `RtspRequest` | how a request line is answered: status, command, next state. Constant level, shared by three others | rtsp.cpp 41-74, 425-667; rtsp_server.cpp 298-358 |
| `RtspTransport` | a SETUP's transport specs, option by option. Constant level | rtsp.cpp 175-423, rtsp_server.cpp 195-217 |
| `RtspSession` | one session as its peer sees it, request lines and headers, with the history of what was granted | rtsp.cpp 360-676 |
| `RtspReceive` | the receive buffer of a connection, from the byte stream to requests | rtsp_server.cpp 386-470, rtsp.cpp 80-114 |
| `RtspServer` | connections, socket server, engine, encoder, CLI, heap | rtsp_server.cpp, rtp.cpp, server.cpp 108-125 |
| `Multicast` | abstract specification: what the engine promises its listeners | - |
| `Codecs` | the codecs: settings, validators, construction, sizes. Constant level | audio_codec*.cpp |
| `RtpStream` | packets: block pool, sizes, sequence numbers, timestamps | rtp.cpp, utils.cpp 163-198 |
| `AudioPipe` | reader, queue, encoder and shutdown | utils.cpp, server.cpp 54-91 |
| `WavFile` | a recording whose every stdio call may fail, its opening, which may fail, and its playback by one thread | wav_file.cpp, utils.cpp 75-98, 163-201 |
| `Lifecycle` | power-up to shutdown: what is made, registered, used and deleted | main.cpp, network.cpp, esp32/init.cpp, esp32/i2s.cpp, targets/, server.cpp |
| `StatusLed` | the LED's callback between the sessions' threads and the idle loop | status.cpp |
| `RtspSessionProofs`, `RtspReceiveProofs`, `RtspServerProofs`, `RtpStreamProofs`, `AudioPipeProofs`, `WavFileProofs`, `LifecycleProofs`, `StatusLedProofs` | theorems about the module of that name, see 4 | - |
| `MCRtspSession`, `MCRtspReceive`, `MCRtspServer`, `MCRtpStream` | sets of inputs and symmetry for TLC | - |

Definitions marked `\* variant` are deliberately wrong versions of the
definition that follows them: a dropped guard, a missing removal, a deletion
too many. No specification uses them; substituting one for its original makes
TLC reject a property, which shows what the property is sensitive to.
`PROJECT.json` ("mutants") pairs them.

### RtspRequest, RtspTransport and RtspSession

A request is a record of the method word, the version word and `ok`, whether
the headers satisfy the method (a usable transport for SETUP, SDP accepted for
DESCRIBE). `LineCode` is the code the first line earns, in the order of the
code, where the version check overwrites what came before; `HandlerCode` is
what `RTSP_Handler::command` adds; `Reply` is the response sent, where the
`switch` of `Parser::parse` overtakes a computed 501 with 400. `Command` is the
command reported to `Session::process`: `C_UNKNOWN` after any error. `Faults`
is a null pointer read: by `strcmp`, for a line without a version
(rtsp.cpp:542), and by `rlut`, for a line without a word (rtsp.cpp:513-515,
method `blank`; `none` is a request without any line).

`RtspSession` reads a request a step at a time: `Line`, then for SETUP and
DESCRIBE any of `Accept`, `NoNumber` (a CSeq or Session header without its
number), `TransportHeader`, `TransportSpec`, then `Answer`. `hdr` is the
`RtspHeader` being filled; once `reading` is false nothing more is read, and
the request is answered with what there is, as the code ignores the result of
`read_headers`. `Readings` is the transport after each of a spec's options, in
their order; `ReadSpec` the one after those up to an option that the parser
does not know or cannot read. A mode of any spelling is read; only the bare
word PLAY is found usable, and `mode="PLAY"`, quotes and all, is one of the
`mode=other`. `OffersUdp` is the reference: what the spec as a whole says, the
bare word being asked for there as in the code. Ports, addresses and session
numbers are abstracted away.

### RtspReceive

The buffer is an array of characters of five kinds (text, space, CR, LF, NUL)
each labelled with the request it came in. `NoBlock` and `Process` receive a
piece of any length, with and without a blank line found; `Ends` is `strstr`,
which reads on to the first NUL, past the piece. `Parsed` is what the parser
leaves: NULs in the blanks and line ends of the lines it got to. Which lines
it got to depends on the request (`LastLines`). `AfterRequest` is the end of a round of the
loop: the session goes on, or the request was a TEARDOWN after which the loop's
condition fails (rtsp_server.cpp:408) or a KILL, which breaks out of it before
`idx` is reset (442-447). Which it was is the session's affair and any of them
may happen after any request; nothing is received then. `ragged` records that a piece
was of two requests or only a part of a later one. `BlankLinesAssumption` says
what a request is to its sender: characters whose only blank line is at their
end. Only one too long for the buffer, never to be processed, may do without.

### RtspServer

A connection's thread is at one of these places (`pc`):

    idle -Accept-> recv -Receive-> work -SetupClient.. -> post -Post-> recv
                    |                                        \-Post-> exit
                    \-Disconnect-> exit -Terminate-> ended -Reap-> deleted

`Receive` is the request read, parsed and answered; an answer without further
effect (refusals, OPTIONS, DESCRIBE) leaves the state as it was and is no step.
`work` is the time between the answer and its effect, `post` between the
handler's return and the session's change of state. Where the effect needs the
engine's mutex it is a step guarded by `Unlocked`.

`playing` is the list as a set; `looped` records that a node was pushed while
it was on it, after which a visit never ends and a removal does what the node's
place makes it do (a nondeterministic choice). `live` is the set of allocated
clients: addresses are reused, so a stale pointer may be anybody's. The encoder
is `wait` (for a block), `encode`, `visit` (holding the mutex, `todo` the
clients still to be sent to). `held` is the pointer the CLI got. A failed ASSERT or a null read stops
everything (`crashed`).

External, modelled from the calls made on them: panglos `Mutex`, `List`,
`Queue`, `Socket`, `SocketServer`. In particular `SocketServer` is taken to run
a thread per client, to delete a client only after its `run` returned, and to
stop accepting after `kill`.

### Multicast

Listeners come on the air, leave, or leave for good; a packet is due to exactly
those on the air when it starts and to each once; nobody joins or leaves in
the middle of one. The refinement maps a connection to *on the air* when its
client is on the list, to *due* when the visit has still to send to it, to
*gone* when its thread has ended. Every command, the heap, the mutex and the
session states are hidden.

### Codecs and RtpStream

A codec is the record of the numbers the engine and the pipeline ask it for.
`MakeCodec` builds the one that a board's stored settings give, or none where
the code stops at an ASSERT; `EncodedSizes` is the set of sizes `encode` may
return when told of a given room, empty where it stops. libopus and libcodec2
are external: `OpusSizes` is from one byte to what the format (1275 bytes per
20 ms and a header) and the room allow. The bit rate is no limit: `make_encoder`
sets it and leaves VBR on, so that a packet may be larger than its share.

`RtpStream` follows the encoder from a block of audio to the packet: `Heard`,
`GetFree` (the pool), `Encode`, `Send` or `TooLong` (the ASSERT of
`RTP_Engine::send`). Listeners come and go at any time; `got` is the header of
the last packet each has got since it came.

### AudioPipe

A frame is the audio of one packet, read in `Parts` reads, labelled modulo
`Frames`; `buf` holds the label each part of a buffer is of, so an overwritten
part is visible. `got` is what the codec has read of the block it was handed.
`onTime` is history: the encoder has so far met every deadline, that is, had
taken the block before and done with it when the reader had the next one ready.
Nothing in the code enforces it, and properties that need it say so. Labels are
kept up only as long as it holds. `ReadNothing` is a source that returns 0 (the
I2S driver on an error, a file at its end), `TakeUnheard` a block dropped
because `has_clients` is false or the block pool is empty. `Kill`,
`JoinEncoder` and `JoinReader` are the server thread after `rtsp_server` has
returned.

### WavFile

The sink is opened, written, closed and deleted in the ways its callers may;
each call of stdio may fail. `CloseWith` chooses `done`, how many of the calls
of `close` succeeded, and follows from it what the file holds, what was
returned and what the pointer is: null, still open, or `dangling` after an
`fclose` that failed. `Lost` is the file after buffered output was lost: cut
short, its header perhaps with it. `Delete` is the destructor, which closes
without patching the sizes; closing a dangling pointer is `undefined` and the
model stops there. `header` has the fields of `struct WavFileHeader`.

`OpenSource` checks what `WavSource::open` checks (`Accepted`), the sizes not
among it; `SourceFails` is `stat`, `fopen` or the reading of the header that
fails. Then `Check`, `ReadPart` and `Take` are `audio_copy` polling the
source itself, without queue or reader thread: one read of `acquire`'s loop at a
time, `feof`, the call of `on_done` that sets `dead`, and the block that is
taken whatever the last read left in it.

### Lifecycle

`boot` is where `app_main` is, `rtsp` where `_server` is; `objects` the names
that `Objects` knows, `heap` what became of the codec, the I2S, the engine and
the reader (a second deletion is a value outside the type), `rthread` and
`ethread` the two audio threads as far as their ends. `halted` is the ASSERT
that stopped the board, by what it was about: `NotCreatable` is `make_codec` at
one of its own (audio_codec_opus.cpp:268, which a stored bit rate of 5000
meets), `OutOfMemory` the engine's unchecked `malloc` (rtp.cpp:88) or the
reader's ASSERT (utils.cpp:57). Objects made with `new` are taken to be made.
`InitLeaves` is the I2S channel
after some of `init`'s calls, `DestructorLeaves` after the destructor of an
object that could not be initialised. `Network` lets the interface come up and
drop at any time; `network_running` looks once.

The CLIs (UART, telnet) give commands once `run_cli` runs; `rtp` and `codec`
take what the names lead to, until `CmdDone`. `devices` is what the target's
table lists, an LED strip (`rgb`), a GPIO (`led`) or both (`Boards`): a strip
that fails is `F_CAN_FAIL` and is registered all the same, a GPIO that fails
ends `start_app`, and `board_init` asserts a strip where one is listed.
External, modelled from the calls made: `Objects`, the
INIT event handlers, `run_cli`, the WiFi interface.

### StatusLed

Sessions report their states by `OnState`, without a lock, while the idle loop
goes through `Check`, `Blink`, `Compare`, `Note`, `PaintState`, each of which
reads the shared state afresh; the second read of `done = state;
set_state(state)` may be folded into the first by the compiler, so both values
are possible. `raced` is history: the state changed where the loop cannot
notice it, or noticed nothing since it had changed back.

## 3. The runs

| run | question | bounds |
|---|---|---|
| `session` | do granted requests follow the state machine, do refusals change nothing, is a SETUP with one Transport header, read to its end, granted exactly if a spec in it can be served? | 2 specs, 2 Transport headers, all sequences of 3 options |
| `receive` | is a request handed on as it was sent, however cut up, whatever is left in the buffer, and answered if it fits and none before it ended the session? | buffer of 10, 4 shapes, 3 requests |
| `receive_stale` | finding: an old blank line completes a new request | 10, 4, 2 |
| `stream` | are packets consecutive for each listener, is the pool whole, does a codec whose audio is no longer than a packet meet no ASSERT, whatever sizes Opus returns? | 2 listeners, 2 buffers, some 126 settings |
| `server` | do list, heap and session states agree in every interleaving, for peers that SETUP again, cut lines, sockets that fail? | 3 connections, 3 addresses |
| `server_live` | for peers that SETUP once and do not PLAY while playing: is whoever plays sent to, do commands complete, are ended connections deleted, does the server implement `Multicast` with its liveness? | 2 connections, 2 addresses |
| `server_play_again` | finding: a PLAY while playing blocks every other client | 2, 2 |
| `led` | does the LED agree with what was painted last and settle on what was reported last? | 2 connections |
| `pipe` | with an encoder on time, is every frame whole, in order and taken; on time or late, does a pipe with a block under way shut down? | 2 buffers, 2 reads, 5 labels |
| `pipe_shutdown` | finding: shutdown may wait for ever | 2, 2, 5 |
| `wav` | does the header agree with the data, does a recording that was cut short open again if it can be read, is every byte of it taken? | 2 opens, 15 bytes, blocks of 4 |
| `lifecycle` | does any thread run on what is deleted, does a half-made start meet an ASSERT, what stops the board and when, does a board that can serve come to serve? | 2 CLIs, the three kinds of device tables |

**Bounds.** In `RtspServer` each connection is used once: a connection's whole
life is in the model and a new one is another element of `Conns`. Two
connections give every race of one removal with one visit; the third adds one
whose client reuses an address freed by another while a visit is under way.
`Objs` bounds the addresses; `HeapBound` stops a SETUP being sent when none is
left for it, a bound of the model and not of the code. Two buffers are what
`Reader::create` asks for (utils.cpp:136); two reads per buffer are the least
that can be torn or cut; `Frames = NBlocks + 3` labels tell apart all frames
that can be about at once. `MaxTransports` is 3 in the code; two specs are
enough for one to be usable beside one that is not, and `MaxHeaders = 2`
enough for a second Transport header to write over the first. The receive
buffer is 2048 in the code; of ten cells a request with a header takes all, one
of a line or after a blank line leaves a remainder, and an eleven character one
does not fit; three requests let what two of them left be found
by the third. `SeqMod` (2^16) and `StampMod` (2^32) are scaled down to 4 and
1024, so that both wrap, and not at the same packet. `NumBuffers` is 4 in the
code; with one encoder thread never more than one is out. `SomeSettings` takes
bit rates about each limit of the validators and ASSERTs with every packet rate
that is valid and one that is not, at three sample rates and both numbers of
channels, so that there are blocks shorter and longer than a packet, and blocks
that are no frame. Two connections suffice for the LED: what it shows depends only
on the last two reports. In `wav` a body of up to 15 bytes in writes of 1, 4 and
6 ends on a block's boundary and within one; `Wrap = 50` stands for 2^32, so
that the longest does not fit the header's sizes; a second open shows what
`written` counts on with. `Lifecycle` has no bound but the number of CLIs.

**Switches.** `Repeats` says which requests a peer may repeat (PLAY while
playing, SETUP when set up), `UdpFails` whether `Socket::open_udp` may fail,
`Requests` which lines may come, `SourceFails` whether the source may return
nothing.

**Deadlock** is not checked where a model has legitimate ends (all connections
used and deleted, the process stopped by an ASSERT, the session ended, the
threads joined, the file played, the server down, no more requests to send). What must not stop is stated as a
liveness property. `StatusLed` has no end and is checked.

**Fairness.** The encoder is scheduled and audio keeps coming (`WF(Encode)`,
`WF(Encoder)`, `WF(Reader)`: threads of priority High on their own cores, a
source that delivers a block per period). A connection's thread gets the mutex
when the encoder lets go of it again and again (`SF(ThreadStep)`): FreeRTOS
and pthread mutexes wake their waiters, and after each packet the encoder
blocks for the next frame with the mutex free. The socket server deletes what
has ended (`WF(Reap)`). What a peer has sent arrives and its thread runs (`WF`
of the receive steps). The main thread is idle again and again (`WF(OnIdle)`:
its event loop polls the callback). The thread that plays a file runs on
(`WF(Playback)`), the main thread boots and the server's thread starts what it
starts (`WF(Boot)`, `WF(Starting)`): calls that return. Nothing obliges a peer
to send, to leave or to KILL, the CLI to be used, the network to come up, or a
sink to be closed.

## 4. What is proved

Eight modules hold theorems, each about every value of its component's
constants: any sets of connections, addresses, requests and listeners, any
numbers and sizes of buffers, any moduli. Each safety invariant that a run
checks is a theorem, each action property too, and so is the safety of
`Multicast` as what the server implements. What a theorem assumes beyond the
named assumptions of its module is in the table.

| module, theorem | assumes | says always |
|---|---|---|
| `RtspServerProofs` `TypeCorrect` | - | `TypeOK` |
| `VisitsAreCurrent` | - | `VisitIsCurrent`: the mutex keeps removals out of a visit, whatever peers send |
| `Invariance` | no PLAY while playing | `IInv` |
| `Safety` | the same | `NoUseAfterFree`, `VisitIsCurrent`, `OwnedByOne`, `OnlyPlayIsOnTheList` |
| `OnlyPlayersAreSentTo` | the same | `OnlyPlayIsOnTheList` |
| `NoCrash` | the same, whole lines, sockets open | `NoAssertFails` |
| `PoliteSafety` | neither PLAY nor SETUP is repeated | `NoLeak`, `PlayIsOnTheList` |
| `PlayersAreSentTo` | the same | `PlayIsOnTheList` |
| `Refinement` | no PLAY while playing | `Spec` implements `Multicast`'s safety |
| `RtspSessionProofs` `TypeCorrect` | - | `TypeOK` |
| `GrantsInOrder` | - | `SetupComesFirst` |
| `RefusalsChangeNothing` | - | `RefusalIsHarmless` (of every step) |
| `EndsForAReason` | - | `EndsOnRequest` (of every step) |
| `SetupsAreFair` | - | `SetupIsFair`: of a SETUP read to its end, with one Transport header of at most `MaxTransports` specs, for any number of options, the bare word PLAY being the mode that counts |
| `RtspReceiveProofs` `TypeCorrect` | - | `TypeOK` |
| `RequestsAreFramed` | - | `Framed` |
| `NothingIsLost` | - | `NothingDropped`, until a request ends the session |
| `RtpStreamProofs` `TypeCorrect` | - | `TypeOK` |
| `PoolComesBack` | - | `PoolIsWhole` |
| `SoundCodecs` | - | `SoundCodecsStream`, for every setting that may be stored; the ASSERTs are for blocks no longer than a packet |
| `Consecutive` | - | `Continuous` (of every step) |
| `AudioPipeProofs` `TypeCorrect` | - | `TypeOK` |
| `FramesInOrder`, `FramesAreWhole` | more than one buffer | `InOrder`, `NoTear` |
| `WavFileProofs` `TypeCorrect` | - | `TypeOK` |
| `HonestHeader` | - | `HeaderIsHonest` |
| `Accepts`, `Copies` | - | the safety halves of `PlaysBack` and `CopiesAll`: no good recording that can be read is refused; a copy that is over is of the whole file |
| `LifecycleProofs` `TypeCorrect` | - | `TypeOK` |
| `ThreadsAreSafe`, `StopsForAReason` | - | `ThreadsUseLive`, `StartIsWhole` |
| `StatusLedProofs` `TypeCorrect`, `LedAgrees` | - | `TypeOK`, `AgreesWithDone` |

`NBlocks > 1` is needed: with one buffer the reader fills the block that is being
encoded, and a frame that is ready when the encoder has gone finds the queue
full. `Reader::create` asks for two (utils.cpp:136).

### The arguments

Hardly one of these properties is inductive. What each needs beside itself:

**RtspServer.** That no deleted client is visited depends on where its owner's
thread is, and that on the session's state. `IInv` adds that every connection
not yet deleted has a live client (`HoldsLive`) which is no other's
(`NoSharing`); that a node on the list has an owner whose thread has not ended
(`Owned`), and that this owner is in PLAY or between its PLAY's push and the
state change (`Listed`); that a thread carrying out PLAY found the session
READY (`Phase`: so the push is never of a node already there) and with a client
(`SetUp`); and that outside a visit nothing is due, and what is due is on the
list (`VisitLocked`: the mutex). `Phase` is where the precondition enters: with
a PLAY while playing the push meets the same node and the list loses its end,
as `server_play_again` shows. `VisitLocked` is inductive alone, which is why
`VisitsAreCurrent` needs no precondition. `PoliteInv` adds to `IInv` where a
connection can be while it plays, and needs that a SETUP finds no client.
`RemoveSound` and `PlayFromReady` are the lemmas that carry most steps. The
refinement goes action by action: PlayClient to Join, RemoveClient and
SetupClient to Leave, Terminate to LeaveForGood, EncLock to Packet, EncSend to
Send, all else to stuttering.

**RtspSession.** `GrantInv` ties the state to the history of grants; `AnswerStep`
is the lemma of what an answer may do. `SetupIsFair` compares what the parser
made of the options, one after the other, with what the spec means to its
sender, who looks at the last option of each kind. `LastSaid` is what the two
have in common: `ReadingsSay` shows by induction on the options that the
parser's transport says what was said last, `LastOfIs` that the sender's
reading does. `HeadersInv` then follows the headers read so far: as long as
the reading has not stopped, each slot below `idx` holds the reading of a spec
that was sent.

**RtspReceive.** `ReceiveInv` lays out what is in transit: there is a function
`start` giving where in `wire` each request begins, at or below the front for
one already received in part, and every cell in transit is the one that its
request has at that distance (`Layout`). Until the first request is processed
the buffer is its first part and nothing but NULs (`First`), so strstr finds no
blank line but its own (`NoEarlyEnd`) and finds that one at the first piece
that completes it. After it, as long as pieces are whole requests, the next one
is at the front of the wire and goes to the front of the buffer (`Later`); its
own blank line comes before anything an earlier one left (`WholeRequest`).
`Later` is for a session that goes on: after one that a request ended nothing
is received. `NothingDropped` is then a sum (`TotalAppend`).

**RtpStream.** The pool lacks at most the block the encoder has (`PoolInv`).
`Made` says what `make_codec` can make of any settings, the validators and
ASSERTs taken together; `OpusSizesFit` that libopus keeps to the room it is
told of, which is `rx_bytes`: what was encoded fits a packet if that does.
`LastInv` says that the packet a listener
got last was the one before the next, modulo the two moduli.

**AudioPipe.** `OrderInv`: an encoder on time leaves at most one block in the
queue, or two when it has stopped and the reader finishes its frame; the labels
of what was taken last, what is queued and what is being read follow each
other. `ContentInv` adds that the buffer being filled is not that of the newest
block and that each block about holds its own frame as far as it was read.

**WavFile.** `RecordInv`: what was written over all openings is bounded by the
openings and, in the first one without a failed write, is the file's length; a
close that returned true leaves nothing that could change the file behind it. A
header is written whole or lost whole, and patching its sizes keeps its format.
`SourceInv`: position, bytes taken and bytes in the block add up, and only the
last block may be short.

**Lifecycle.** `ServerInv` says between which of the server thread's steps the
codec, the engine and the reader exist and the two audio threads run; `BootInv`
what the main thread has registered by the time it or another asserts it, for
each table of devices;
`CliInv` that a command runs only when `rtp_init` has added it.

**StatusLed.** `RoundInv`: what a round of the idle loop found at each look is
still so at the next, unless a report came in between.

**Data.** What a recursive function computes is proved by induction on its
argument, as a least element of the set of counterexamples (`SetInduction`,
from the well-foundedness of < on the naturals); the functions are defined over
intervals so that their defining equation can be shown to hold
(`ReadingsRecur`, `TotalsRecur`).

**Only model-checked**: liveness (`CommandsComplete`, `EndedIsDeleted`, the
fairness of `Multicast` in `ImplementsMulticast`, `Answered`, `AudioFlows`,
`BusyPipeShutsDown`, `PlaysBack`, `CopiesAll`, `ServerComesUp`, `Settles`),
which with fairness and ENABLED is beyond the proof system.

## 5. Findings

With a run each:

1. **PLAY while playing** (rtp.cpp:135, `server_play_again`): the node is pushed
   twice, the list loses its end, the visit of the next packet never ends and
   keeps the mutex.
2. **Stale blank line** (rtsp_server.cpp:415, `receive_stale`): the search for
   the end of a request reads on into what the last request left, so that half
   a request is processed.
3. **Shutdown** (server.cpp:86, `pipe_shutdown`): the encoder waits for a block
   without a timeout; if the reader stops first, `join` never returns.

Also seen; the models contain those marked *, and no run is spent on them:

* *SETUP again (rtsp_server.cpp:246): the old client is unlisted but never
  deleted. If it was playing, the session stays in PLAY with a client on no list.
* *The `rtp` command (server.cpp:118) reads a client after the mutex is
  released; its connection may have ended and been deleted in between.
* *A request line without a version is answered 400 and its null version then
  compared (rtsp.cpp:542); likewise a line without a word (rtsp.cpp:512, where
  a `return` is missing).
* *`mode="PLAY"`, the form of RFC 2326 12.39, keeps its quotes (rtsp.cpp:285)
  and is compared with the bare word (rtsp_server.cpp:204): such a SETUP is
  refused with 461.
* *The 501 computed for unsupported methods is overtaken by 400 (rtsp.cpp:559).
* *A short read is queued and encoded as a full buffer over its stale rest
  (utils.cpp:90); `block.bytes` is never looked at.
* *What follows a request in the same piece is lost (rtsp_server.cpp:449), as
  the comment there admits.
* *A second Transport header writes over the first one's specs but keeps their
  ports (rtsp.cpp:397).
* *Codec2 is told of the room the audio takes and asserts that it is the size
  of its output: the board stops at its first block (utils.cpp:195).
* *Opus is told of the room the audio takes, not of that in a packet, which is
  1275 bytes (audio_codec_opus.cpp:199). Its bit rate is an average, so that a
  block that is longer (10 ms in stereo, 20 ms and more, the default of 60 ms
  among them) may be encoded to more than that and meets the ASSERT of
  rtp.cpp:187; a frame of 20 ms can be 1275 bytes and its header, one of 40 or
  60 ms several of these.
* *Bit rates from 5000 to 5999 pass the validator and stop the board at an
  ASSERT each time it boots (audio_codec_opus.cpp:293, 268; `NotCreatable`).
* *The memory for the packets is not looked at (rtp.cpp:88), that for the
  reader's blocks is asserted (utils.cpp:57): a board without enough of it
  stops as the server starts.
* *Frames are reckoned at 48 samples per ms
  whatever the sample rate (audio_codec_opus.cpp:253); the PCM settings are
  read and not used (audio_codec_pcm.cpp:131).
* *One client's end darkens the LED while another plays, and a change that is
  undone within a round of the idle loop is not seen (status.cpp:67).
* *After a shutdown, or when the port is taken, `rtp` and `codec` still find
  the deleted engine and codec by name (server.cpp:110, 154); an `rtp` command
  before the server thread has registered the engine stops the board at the
  ASSERT of server.cpp:111.
* *A network that comes up after `board_init` has looked never gets a server
  (init.cpp:104); a device that fails stops the board at `ASSERT(app)`
  (main.cpp:256), not where the failure was.
* *The I2S channel is kept when the driver will not disable it (i2s.cpp:55).
* *A sink opened again counts on with the bytes of its last recording
  (wav_file.cpp:139); an `fclose` that fails is tried again on the same pointer
  (wav_file.cpp:181, 144); the header's sizes wrap at 4 GiB (wav_file.cpp:237).
* A failed I2S read ends the reader while PLAY is still granted (utils.cpp:103);
  without a clock a read never returns (i2s.cpp:160).
* Channels and frequency of the I2S are set apart from the codec's
  (init.cpp:119).
* A Transport header of fewer than four characters is searched far past its end
  (`strlen(ss) - 4`, rtsp.cpp:367).
* RTP-Info announces `seq=1;rtptime=0` to every listener (rtsp_server.cpp:260).
* A Content-Length header stops the board (rtsp_server.cpp:430, a TODO).

## 6. Not modelled

* The text of requests and responses, numbers and addresses in headers, SDP.
* Errors of `fread` while a source plays; objects made with `new` that are not.
* A request with a body (Content-Length): see above.
* RTP header layout and byte order: sequential bit-packing.
* Decoders (used by tests) and the signal processing of codecs: third-party.
* Access points, mDNS, the file system, the LED strip's bits, pins, clocks and
  slots of the I2S: calls and register settings of the ESP-IDF, one after the
  other, without state of this code's own.
* What is compiled only with `CLI_TEST`.
* The links of panglos's `List`: the list is modelled by the effect of its
  operations, as `playing` and `looped`. Its code is not in this repository.

## 7. Plan

Done, in order: request and session; the server with its engine; `Multicast`;
the audio pipeline; the server's proofs; transport selection; the receive
buffer; codecs and packets; the LED; WAV files; start-up and shutdown; the
proofs of all their safety properties.

Next: what `Multicast` promises, as theorems of its own that the server
inherits (who has left for good hears nothing again; a packet goes to each
once); `IInv` for peers that PLAY while playing, as far as it holds; what holds
of a Transport header after another one; what the step properties say of
several steps (the packets of a listener counted, not only the last).
