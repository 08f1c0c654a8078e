# Universal Protocol Runtime in TLA+

A specification of the core of Universal Protocol Runtime (UPR): how bytes and
frames move - what crosses threads, processes and the kernel, what is cut into
pieces and put together again, what is leased, retried and timed out - how
messages are laid out, built, found and decoded in three languages, and how
the schemas that describe them are read.
Each module is translated from the source, most of which is C++. TLC checks it on small
instances; TLAPS proves theorems about it for every value of its constants.
`PROJECT.json` maps definitions to source lines and lists every run, mutant,
theorem, finding and hazard.

    tlc -config LocalShmRing.cfg MCShmFrameChannel.tla  # check a module
    tlapm ShmFrameChannelProofs.tla                     # check its proofs

## The system

UPR describes a binary protocol once and then encodes, moves, frames and
decodes its messages. Schemas come in two formats, are loaded into one
definition and compiled (`SchemaLoader`, `ProtocolCompiler`). Bytes go down and
up this stack:

    application
      |  DecodedMessage / MessageEncoder / generated bindings
    StreamRuntime (poll)                 UprSession (handshake)
      |  framers, ByteRingBuffer           |
      |                                  FrameChannel (send, acquire, release)
    ITransport  <------- IByteStreamTransport ---------------+
      |            |              |              |           |
    SpanTransport  sockets, fds   IoUringStreamEngine   LocalShmRingTransport

Components call each other directly. The only concurrency inside the library
is between the two endpoints of a shared-memory ring and between a thread and
the kernel that works on its io_uring requests; between programs there are the
two ends of every transport. Programs also share a kernel: the numbers of
descriptors and the paths of listeners are common property.

### Inventory

| Component | State it keeps | Operations | What is hard | What makes it correct | Model |
|---|---|---|---|---|---|
| LocalShmRingTransport | shared `head`, `tail`, slot lengths and payloads, two eventfds; per endpoint the slot being read and the lease flag | read, write, acquire, release, two waits, close | two threads without a lock, wake-ups that may be lost, zero-copy leases | frames whole, in order, once; a held slot never changes; no one sleeps beside work | `LocalShmRing` |
| ByteRingBuffer | `head_`, `tail_`, `storage_` | spans, commit, consume, linearize | wrap, full against empty | holds exactly the unread bytes | `ByteRingBuffer` |
| Framers | none | try_frame | zero, limits, widths | cut where the bytes say | `Framers` |
| StreamRuntime | the ring, `end_of_stream_`, a linear scratch buffer, counters | poll | frames split by pieces and by the wrap, the end of the stream inside a frame | every frame once, nothing reported too early | `StreamRuntime` |
| FrameChannel | `stream_buffer_`, its offset, scratch buffers | send_frame(s), receive, acquire, release | partial writes, timeouts half-way, leases into a moving buffer | what arrives is what was sent, up to the first damage | `FrameChannel`, `ShmFrameChannel` |
| UprSession | none of its own: two handshakes and the channel | client_handshake, server_handshake, payload frames | lost and late answers, refusal by one side only | both sides speak of one session | `UprSession` |
| IoUringStreamEngine | the ring, tags, the open flag | read, write, writev, two waits, shutdowns, close | completions of other requests, signals, failed submissions, poll and timeout in either order | a call reports its own request and leaves none behind | `IoUringStreamEngine` |
| Socket and fd transports, listeners | a descriptor, `open_`, ownership; a listener's path | connect, accept, adopt, read, write, writev, close, move | who closes what, on every path that fails; paths taken over; writes that stop half-way | one owner closes once; results say what happened | `StreamTransport` |
| PluggableStreamEngine | an engine | forwards every call | - | - | not modelled |
| ProtocolCompiler | struct states, id maps | compile | recursive structs, sizes, dispatch prefixes | refuses what it cannot lay out; its sizes are true of every frame | `SchemaCompiler`, `StructCompiler` |
| ProtocolDecoder, DecodedMessage | a message borrowing a frame | decode_any, decode_as, field access | offsets that depend on earlier fields, views that decode again when asked | finds what decodes; what decoded can be read | `MessageDecoder`, `DecodedMessage` |
| MessageEncoder: two builders | a scratch buffer, segments, field states, the next field | set, attach, finalize, copy out | the order of calls, checksums patched in at the end, two kinds of room | both build the same; what is built decodes to what was put in | `MessageBuilders`, `MessageProcess` |
| Python codec | none | encode, decode | the same layout in a second language | accepts the same frames, reads the same values | `ValueCodec` |
| TypeScript codec | a growing buffer while it writes | encode, decode | a buffer replaced under a view of it, 32-bit shifts | the same again in a third language | `TypeScriptCodec` |
| Python and TypeScript framing | an accumulating buffer | feed | an error in the middle of a batch | same frames as FrameChannel | `FrameDecoder` |
| Schema loaders | parser position; the files loaded and under way | load a text, load a file with its imports | texts cut off anywhere, two formats for one thing, imports in circles and through links | what is declared is loaded, once, in either format | `UprParser`, `YamlSchema`, `SchemaFormats`, `SchemaLoader` |
| Checksum registry | a table | compute | - | - | one checksum, a sum |
| Generator, discovery, workbench, editor tools, examples | none that outlives a call | write text | - | - | not modelled |

How they interact: `StreamRuntime` owns a `ByteRingBuffer`, pulls from an
`ITransport` and hands frames to a `ProtocolDecoder`; `UprSession` drives a
`FrameChannel`, which drives an `IByteStreamTransport` and, for a transport
that keeps frame boundaries, forwards leases to it; every socket-like transport
and the io_uring engine are such transports. The schema loaders hand a
`ProtocolDefinition` to the compiler, whose layouts the decoder, both builders
and the code of the other languages work from.

## Modules

| Module | Role | Extends or instantiates |
|---|---|---|
| `FrameFifo` | abstract: a bounded queue of frames | - |
| `LocalShmRing` | one direction of the shared-memory pair | - |
| `MCLocalShmRing` | refinement mapping | `LocalShmRing`, `FrameFifo` |
| `ShmFrameChannel` | FrameChannel composed with the ring | `LocalShmRing` |
| `MCShmFrameChannel` | instances of both | `ShmFrameChannel`, `MCLocalShmRing` |
| `ShmFrameChannelProofs` | theorems about the ring and the composition | `MCShmFrameChannel` |
| `Framers` | the two framers as operators | - |
| `FrameSource` | abstract: the frames of a byte stream, each once | `Framers` |
| `ByteRingBuffer` | the byte ring | - |
| `StreamRuntime` | poll() over a transport | `ByteRingBuffer`, `Framers` |
| `MCStreamRuntime` | refinement mapping, instances | `StreamRuntime`, `FrameSource` |
| `StreamRuntimeProofs` | its theorems | `MCStreamRuntime` |
| `FrameChannel` | sender and receiver over a byte stream | - |
| `FrameDecoder` | the Python and the TypeScript reader of that stream | `FrameChannel`, `FrameSource` |
| `MCFrameChannel` | refinement mapping, instances | `FrameDecoder`, `FrameSource` |
| `FrameChannelProofs` | theorems about the channel and the other readers | `MCFrameChannel` |
| `UprSession` | the handshake | - |
| `UprSessionProofs` | its theorems | `UprSession` |
| `IoUringStreamEngine` | the engine and the kernel below it | - |
| `IoUringProofs` | its theorems | `IoUringStreamEngine` |
| `BytePipe` | abstract: one direction of a byte stream | - |
| `StreamTransport` | sockets, descriptors and listeners, and who owns them | `BytePipe` |
| `MCStreamTransport` | instances | `StreamTransport` |
| `StreamTransportProofs` | theorems about the transports | `MCStreamTransport` |
| `SchemaDefinition` | the definition both formats build, and type words | - |
| `UprParser` | lexer and parser of .upr | `SchemaDefinition` |
| `YamlSchema` | a YAML tree read as a schema | `SchemaDefinition` |
| `SchemaAuthor` | how an author writes a protocol in either format | `SchemaDefinition`, `YamlSchema` |
| `SchemaLoader` | loading files with their imports, however one is parsed | `SchemaDefinition` |
| `SchemaLoaderProofs` | theorems about the imports | `SchemaLoader` |
| `SchemaFormats` | loading texts in both formats | `SchemaLoader`, `SchemaAuthor`, `UprParser` |
| `MCSchemaLoader` | disks, instances | `SchemaFormats` |
| `WireFormat` | bytes, integers, checksums, text on the wire | - |
| `SchemaCompiler` | a definition compiled to layouts, given its compiled structs | `WireFormat` |
| `StructCompiler` | structs compiled depth first | `SchemaCompiler` |
| `MessageDecoder` | decode_as and decode_any, given how nested layouts decode | `SchemaCompiler` |
| `DecodedMessage` | nested layouts, what the accessors return | `MessageDecoder` |
| `ValueCodec` | the Python codec | `DecodedMessage` |
| `TypeScriptCodec` | the TypeScript codec | `ValueCodec` |
| `MessageBuilders` | the contiguous and the segmented builder | `SchemaCompiler` |
| `MessageProcess` | a process that builds, sends and receives messages | `MessageBuilders`, `MessageDecoder` |
| `MessageProcessProofs` | theorems about the builders, dispatch and sizes | `MessageProcess` |
| `MessageCodec` | what it sends and receives, decoded in three languages | `MessageProcess`, `TypeScriptCodec`, `StructCompiler` |
| `MCMessageCodec` | protocol definitions, instances | `MessageCodec` |

`FrameSource` is implemented by four readers: `StreamRuntime` with either
framer, the receiving half of `FrameChannel`, and, until they raise, the
decoders of Python and TypeScript; so all of them agree on where frames end.

Operators whose names end in `_Something` after a definition's own name
(`Succ_NoWrap`) are faulty variants. No specification uses them; they stand in
for the definition once each to show that a property notices the fault.

### LocalShmRing

Program counters `wpc` and `rpc` say where each thread is inside a call. Every
access to shared memory or an eventfd is a step: `WriteClaim`, `WriteCopy`,
`WriteLength`, `WritePublish`, `WriteNotify` are the body of `write()`;
`ReadBegin`, `ReadCopy`, `ReadAdvance`, `NotifyWritable`, `CheckEmpty`,
`DrainReadable` that of `read()`, whose last three steps
`release_receive_buffer()` shares. The waits look and then poll, in two steps.
The early returns are actions of their own. `head` and `tail` are stored by one
thread each, with release order, and loaded with acquire order, so
interleaving the steps covers the executions of the code. A frame is its
number and length: its bytes influence nothing. `sent`, `taken` and `seen` are
history. Creating the mapping and moving an endpoint happen outside any
concurrent use and are left out.

### ShmFrameChannel

`FrameChannel` forwards to a transport that keeps frame boundaries, and the
composition takes that path with the ring below it. `send` and `recv` say where
each side is in a call of the channel; the steps of the ring's own calls stay
steps. `SendFrame`, `CallWrite`, `Written`, `CallWait`, `Waited` are the loop of
`write_fully()`; `ReceiveFrame`, `AssignFrame`, `ReleaseFrame` are
`receive_frame()`. Between two calls of the channel either side may also call
the ring directly (`DirectWrite`, `DirectRead`), since the application owns it.
An empty frame ends the loop of `send_frame()` before its first write: the send
is "ok" and nothing is sent.

### Framers, ByteRingBuffer, StreamRuntime

`ByteRingBuffer` has the code's indices and spans; `linearize` is the content
in order. `StreamRuntime` has one action per way a round of `poll()` can go:
`DecodeFrame` (the decoder may accept or refuse any frame: the frame is
consumed either way), `RejectFrame`, `Finish`, and the five results of
`fill_buffer()`. `stream` is chosen at the beginning and arrives in pieces of
any size; the transport may announce the end with the last bytes or after them.
The counters of `RuntimeStats` and the failure policy only report and are left
out.

### FrameChannel

`SendFrame` lays out prefix and frame as the two spans; `Writev`,
`WritevError`, `NothingLeft`, `Writable`, `WaitFails` are the loop of
`write_spans_fully()`, with every partial write. `Acquire`, `RefuseLength`,
`ReadSome`, `ReadNothing`, `ReadError` are the rounds of
`try_acquire_frame()`, each with the compaction `fill_stream_buffer()` does
first, and `Release` is `release_frame()`. `receive_frame()` is an acquire, a
copy and a release. The sender may go on after a failed send. `sent` and
`damaged` record which frames went out whole before the first that did not.
A lease is released once, as every caller in the repository does. The path for
transports that keep frame boundaries is in `ShmFrameChannel`.

### FrameDecoder

`reader` chooses who reads the stream that the sender of `FrameChannel` writes:
the C++ channel, or the `FrameDecoder` of Python or TypeScript. `Feed` appends
a piece to the buffer and begins a scan, and each turn of the loop is a step
(`ScanFrame`, `FeedReturns`, `FeedRaises`). The
TypeScript decoder scans the piece itself when its buffer is empty, compacts and
grows its buffer, and keeps what is left; offsets are the code's. `raised` says
whether a call has raised: the frames that call had found are lost with it, and
in TypeScript the bytes of a piece that was scanned directly. So the refinement
of `FrameSource` (`ReadersFrameAlike`) holds until the first raise and
`DecoderKeepsUnread` unless bytes were lost.

### UprSession

Each side's call is none, waiting, ok or one of the failures; a frame is its
size, its magic and its fields. Each call carries a session id of its own, so
that an answer to an earlier call can be told apart. The channels are queues of
whole frames, which is what `FrameChannel` gives without a failed send. A
deadline can pass at any time, and a call that failed may be repeated.

### IoUringStreamEngine

A call submits requests and takes completions; the kernel's part is
`CompleteRecv`, `CompleteSend`, `CompleteNotif`, `CompletePoll`,
`TimeoutFires` and `TimeoutRefused`, modelled as far as the engine relies on it
and marked external. `own` in `outcome` records whether the completion belonged
to the call. Constants switch zero-copy sends, failed submissions, signals, and
whether the build keeps the timespec of a timeout beyond the block it is
declared in: reading it later is undefined, so without `TimespecKept` the
timeout may be the one asked for, one that never comes, or one the kernel
refuses.

### StreamTransport

`sys` is the part of the kernel the transports rely on, marked external: a table
of descriptors (a new one gets the lowest free number, as POSIX says), the two
ends of each connection with the bytes under way, and what a path leads to.
A transport is a descriptor, `open` and whether it owns; the calls that create
one (connect to addresses in turn with a timeout, accept, adopt a descriptor,
open a device, make a pair), that configure it and may fail half-way, move it,
shut it down and close it are actions, and so are a listener's calls. The
writes of the default `writev()` stop at the first that is short. `Plans` says
which groups of calls an instance makes, so that each can be taken to its end.
`own_handle = false` lends a descriptor: it is the one case in which a failure
leaves a descriptor to the application (`OneHolder`). `alone` records that no
other listener was opened at a path: `close()` removes the path whoever has
bound it since, and `PathsAreOwned` speaks of listeners that were alone.
`Pipe(e)` is `BytePipe` for one direction of a stream; one step moves at most
`SendRoom` bytes, as many as a stream holds.

### SchemaDefinition, UprParser, YamlSchema, SchemaAuthor, SchemaFormats, SchemaLoader

A word of a schema is a string that is never taken apart; tables say what
`to_lower()` and the reading of type words make of it. A .upr text is a sequence
of symbols, which `tokenize` turns into tokens and the parser into a definition: a
parse function takes an index and returns the index it leaves and what it read,
and an error goes through all later steps as an early return does. YAML begins
with the node tree, which yaml-cpp (external) builds. `SchemaAuthor` writes one
protocol in both formats, which is what the properties compare with. Loading a
file with its imports is a state machine: `pc`, a stack of `load_recursive()`
frames, the files loaded and under way, and a disk of files and links. It is
`SchemaLoader`, and works however one text is parsed: `Parse` is a constant there,
which the configuration sets to `load_protocol_definition_impl`, the two parsers
of `SchemaFormats`, where the properties stand that compare formats.

`Wide` and `Divergent` name where the two formats differ (below, under
findings), `HasDollar` the texts on which the lexer does not return.

### WireFormat, SchemaCompiler, StructCompiler, MessageDecoder, DecodedMessage, ValueCodec, TypeScriptCodec

These hold no state: compiling and decoding are functions of their input, and
are operators here. A definition is a record of structs and messages, each a
sequence of fields; names have become positions. `compile_structs` walks the
structs depth first as the compiler does and refuses a struct inside itself;
`CompileLayout` refuses a size, count, tag or gate that comes from a later
field, and computes sizes, dispatch prefixes and first-byte candidates. The walk
is recursive, so `SchemaCompiler` has it as a constant, `CompileStructs`, which
the configuration sets to the one of `StructCompiler`. `AssignFromLayout` goes through the fields
in order with the offset so far and reports which failure comes first;
`DecodeAny` tries candidates and then the fallbacks. A nested layout is decoded
by the same walk: `MessageDecoder` has that as a constant, `DecodeNested`, which
the configurations set to `decode_nested` of `DecodedMessage`. `View` is what a caller
sees through the accessors: lazily decoded structs, elements and variants are
decoded again from their bytes, as the code does. `ValueCodec` is the Python
codec in the same terms, sharing only what is on the wire; where the TypeScript
decoder goes the same way it is the same operator with another `language`, and
`TypeScriptCodec` has what differs, above all encoding into one `ByteWriter`
whose buffer grows: a writer has a capacity, and a float is written where the
view taken before the growth ends. Layouts nest: of these modules
`StructCompiler`, `DecodedMessage` and the two codecs are recursive, and what
theorems need of the first two are assumptions that `message_codec` evaluates.

The data is small: a byte has `ByteBase` values, a scalar one or two bytes, the
checksum is a sum. Every comparison, limit and order of checks is the code's.

### MessageBuilders, MessageProcess, MessageCodec

One operator per call of each builder, from builder record to builder record:
the field that is due, gates, constants and reserved bytes filled in on the
way, padding, room in buffer and segment table, the error that sticks.
`MessageProcess` makes every call to both builders, in any order, valid or not,
sends what they built, or receives any frame whatever. Decoding changes nothing,
so it is in the properties, which speak of every frame the process holds:
dispatch and sizes in `MessageProcess`, the rest in `MessageCodec`.

What some properties leave out is in the model and named by a condition:

* `Portable` (schemas on which all three languages agree) excludes rules between
  fields, which only C++ checks; constants of signed fields; a leading constant
  that is padded or gated; two gates on one field and gates on a field that may
  be absent; checksums of absent fields; two cases of one tag.
  `PortableTo("typescript")` also excludes sizes and counts in gated fields,
  which read as NaN when absent, and presence bits past the 32 a shift knows.
* `CanBeWritten` (`LanguagesAgree`): what was decoded can be written again, which
  a value C++ only looks at lazily need not be. A float TypeScript cannot write
  (`range_error`) is the finding below.
* `NestedDecodesAlone` (`AccessorsTotal`) excludes elements of one size that
  hold text, constants, rules or checksums, which `decode_as()` counts and does
  not decode; and structs whose checksum goes to `frame_end`, which is the end
  of what is left when decoding and of the struct's own bytes afterwards.
* `PrefixIsPlain` (`DispatchComplete`) excludes leading constants that are
  gated or aligned: the dispatch prefix joins them without their padding.
* `SumsSettle` excludes a checksum over itself or over a later one.
* `Content` (`TranscodeStable`) leaves checksums out of the comparison: padding
  is not read by any decoder and is written as zeros, so a checksum over it
  comes out anew.

## Runs

States are distinct states; the longest run, `shm_ring`, takes about three
minutes on two workers.

| Run | Instance | What it shows |
|---|---|---|
| `shm_ring` | 3 slots of one byte, 4 writes, through a channel with frames of at most 2 bytes or directly (347,163 states) | all interleavings of the two threads: order and wholeness, stable held slots, no lost wake-up, refinement of `FrameFifo`; what the channel's calls return is true; published frames are consumed and sends end |
| `shm_channel_send` | 2 slots, 3 writes; the peer may stop reading | *violation*: a send over a full ring never times out |
| `stream_runtime` | 1023 streams of at most 9 binary bytes, 3 usable slots, two-byte big-endian prefix (19,725) | ring content, no frame overlooked, full means full, the end means all, refinement of `FrameSource`, every frame comes |
| `frame_channel` | 6 bytes on the wire, frames of 0 to 3 bytes, limit 2, two-byte prefix, reads of at most 2 bytes, feeds of at most 4; readers in three languages (264,762) | frames intact up to the first damage, leases still, bounded buffer, what a send's result means, all readers refine `FrameSource`, an exception keeps the unread bytes, every undamaged frame arrives |
| `upr_session` | 2 calls a side, 2 versions, codecs and limits (34,813) | what both sides of a session agree on and how they come apart |
| `io_uring` | 2 calls, 2 bytes, queue of 2, every fault possible, a timespec that may be lost (201,918) | until a fault happens, results are own and nothing stays behind; a wait never takes another's completion for its own; calls return |
| `io_uring_zero_copy` | | *violation*: end of stream while the peer is there |
| `stream_transport` | 3 descriptors, 2 transports, 2 listeners, a path, 2 streams, 2 addresses, 3 bytes, 8 plans (207,328) | every descriptor has one holder and its blocking mode, results of writes are true, a listener is reached at its path, the end is final, refinement of `BytePipe`, connects return |
| `schema_loader` | one-file disks in both formats, texts with one symbol changed or cut off, short texts of any symbols, three files and a link that import each other in every way (55,811) | what is declared is loaded, formats agree, the parser stays inside its tokens, circles are refused, files are merged once and in order, calls return |
| `message_codec` | 10 protocols that compile and 2 that do not; byte of 4 values, frames of at most 5 bytes, buffer of 5, 9 segments (33,667) | both builders alike, built frames decode to what was built, dispatch loses nothing, sizes are true, accessors answer, C++, Python and TypeScript agree and transcode |
| `codec_alignment` | one byte, then an aligned one | *violation*: a builder does not pad before the field the caller sets |
| `codec_languages` | bytes of any number, then a float | *violation*: TypeScript cannot write a float for which its buffer has to grow |

The deadlock check is off in `upr_session`, which stops when both sides have
used up their calls, and in the codec runs, which stop once a frame is at hand:
one frame is all a process of `MessageProcess` holds.

Why the bounds are enough. *Ring*: four writes over three slots pass the wrap
and reach full, empty and leased states from every position, and a writer that
did not look would reach the slot that is held; the theorems below cover all
sizes. A send that does not end needs one consumed slot and a full ring: two
slots, three writes. *Runtime*: nine bytes are three times the ring, so
prefixes and payloads fall across its end at every offset, and binary bytes
give all lengths from 0 to 3: two that fit, one that the ring cannot hold and
one above the limit. *Channel*: six bytes hold
three empty frames or a frame of each size and a half; a read may take less
than a prefix or more than a frame, and a feed may bring a frame and the
beginning of the next. A one-byte prefix (length 2 written as 0)
is a change of one constant, with the same properties. *Session*: the hazards
need one repeated call and two values that differ. *io_uring*: each hazard
needs one call that leaves something and one that finds it. *Transports*: a
descriptor closed twice does harm when another has got its number, for which
three numbers and two objects of each kind are enough; a connect tries an
address after one that failed; a write stops short of each span of two. The
groups of calls in a plan share something; calls that share nothing are not
mixed. *Loader*: every kind of field, attribute and import in both formats
alone; each position of a text changed or cut; three files give circles of
every length up to three, diamonds, and the same file by two names.
The limits of 32 and 64 bits are scaled down (`U32`, `U64`) so that both sides of
each occur. *Codec*: each
protocol is of one feature (constants and dispatch, floats, gates and reserved bytes,
checksums, structs, collections, variants, rules, text and signed numbers,
unusual gates), with nesting two deep and frames one byte longer than its
longest short message; the run tries *all* frames of up to 5 bytes, so every
wrong byte and every truncation, and a byte of 4 values has an ASCII
character, a valid and an invalid sequence of two, and a sign bit. The buffer
is as long as the longest frame, so messages that just fit, and that just do
not, are built in both builders.

### Fairness

`shm_ring`: weak fairness of the steps inside a call on either side: none waits
for anything but the poll it is in. Strong fairness of beginning a read with
room for a byte and of releasing a lease: the application keeps reading and
gives leases back, although a call of another kind may be in progress from time
to time. The writer need not write. `shm_channel_send` assumes only that calls go
on: the peer may stop reading at any time, as in the tests of the timeout.
`stream_runtime`: the application keeps calling poll()
and the transport hands over what there is. `frame_channel`: the C++ receiver
keeps asking and releases, and the transport hands over what it took; the sender
may stop at any time. `io_uring`: the kernel completes requests it can complete
and its timers fire, and a call that finds a completion goes on; no fairness
of signals, peers or callers. `stream_transport`: each step of a connect call is
a system call that returns, the poll at the latest at its timeout; nothing of
peers. `schema_loader`: a call that was made goes on, which is weak fairness of
`Load` with the states in which it can change anything named (`Underway`): to
ask TLC whether a whole parse is enabled would be to parse once more.

## Theorems

`ShmFrameChannelProofs` proves of the ring, for every `SlotCount` of at least
two, every `SlotSize` and every bound on the writes:

| Theorem | States |
|---|---|
| `TypeCorrect` | `[]TypeOK` |
| `DeliversInOrder` | `[]FifoDelivery` |
| `HeldSlotsAreStable` | `HeldSlotStable`, an action property |
| `ReadableNeverLost`, `WritableNeverLost`, `WakeupsNeverLost` | `[]NoLostReadable`, `[]NoLostWritable`, and both as `[]NoLostWakeup` |
| `RingImplementsFifo` | `ImplementsFifo`, the refinement of `FrameFifo` |

`FifoDelivery` is not inductive: that the next frame is right depends on what
its slot holds. The invariant proved, `IInv`, adds `RingContents` (the slots
from `head` to `tail` hold the frames after the last taken one, in order, with
their lengths, and there are fewer of them than slots), `WriterInv` (what the
slot at `tail` holds at each point of a write) and `ReaderInv` (the reader's
index is `head` while it holds a slot, and what it has seen is that slot's
frame). Its arithmetic is confined to lemmas about the cyclic successor. The two
wake-up invariants are inductive on top of it: the step that could break them
is a publish between look and poll, and the program counter of the other side
then says that the notification is still to come.

And of the channel over it, for the same constants and every `MaxFrameSize`:

| Theorem | States |
|---|---|
| `ChannelUsesRing` | `ChannelSpec => Spec`: with a channel above it the ring behaves as the ring |
| `RingBelowChannel` | `[]NoLostWakeup`, `HeldSlotStable` and `ImplementsFifo` hold below the channel |
| `ChannelCallsAreTrue` | `[]ChannelIsTrue`: what a send and a receive return is true |

The first makes every theorem about the ring one about the channel. The
invariant of the last is `IInv` with two parts: `SendInv` (the ring's call is the
one the send is in, and nothing has been published since the send began until
its write returns "ok") and `RecvInv` (the reader holds the slot of the lease,
and what was copied out is what the slot holds).

`StreamRuntimeProofs` proves for every capacity of at least two, both framers,
every prefix width and byte order and every stream:

| Theorem | States |
|---|---|
| `TypeCorrect`, `RingIsExact` | `[]TypeOK`, `[]RingHoldsUnread` |
| `NothingOverlooked` | `[]NoFrameOverlooked` |
| `FullMeansFull`, `EndIsComplete`, `AnswersTrue` | `[]ExhaustedMeansFull`, `[]EndMeansAllConsumed`, and both as `[]AnswersAreTrue` |
| `RuntimeImplementsSource` | `ImplementsFrameSource` |

The invariant is the conjunction of these with the length of the ring's
content; the work is in lemmas that say what committing a piece and consuming a
frame do to `linearize` on either side of the wrap, and that a framer's answer
on a prefix of the unread bytes is its answer on all of them once it is
"ready". The assumptions are those the modules name: `OptionsAssumption`
(what `create_pair` refuses), the capacity, `FramerAssumption`.

`FrameChannelProofs` proves for every number of byte values, every prefix width
up to four, every frame limit, read size and length of the wire:

| Theorem | States |
|---|---|
| `TypeCorrect` | `[]TypeOK` |
| `FramesIntactAlways` | `[]FramesIntact` |
| `BufferBoundedAlways` | `[]BufferBounded`, which contains `BufferIsUnread` |
| `LeaseStableAlways`, `SendOutcomeAlways` | `LeaseStable`, `SendOutcome`, action properties |
| `ChannelImplementsSource` | `ImplementsFrameSource`, for widths of 1, 2 and 4 |

`FramesIntact` says nothing of the bytes on the wire, so it is far from
inductive. The invariant, `IInv`, adds where every frame sent lies (`OnWire`:
back to back, each behind the prefix that says its length), that behind them
there is what the send in progress has written (`WireInv`), that this send's
spans begin with the prefix of its frame (`SenderInv`), that a lease is the
frame at the start of the buffer (`ReaderInv`), and that the receiver stands at
the start of the next frame sent (`HistoryInv`): what it parses there is then
that frame. Frames whose size does not fit the prefix are covered: they end
what `WireInv` says of the wire and are the damage that `FramesIntact` speaks
of. TLC found no state outside `IInv`, with prefixes that hold every size
and with prefixes that do not.

On top of it, about the readers in other languages, for every feed size:

| Theorem | States |
|---|---|
| `DecoderRunsChannel` | `DecoderSpec => Spec`: whoever reads, the theorems above hold |
| `DecoderKeepsUnreadAlways` | `[]DecoderKeepsUnread` |
| `DecodesAsFramedAlways` | `DecodesAsFramed`, for widths of 1, 2 and 4 |
| `ReadersFrameAlikeAlways` | `ReadersFrameAlike`, for the same widths |

Two lemmas carry it: whichever way `_append()` or `append()` compacts, grows or
places (`PythonAppendKeeps`, `TypeScriptAppendKeeps`), the unread bytes
afterwards are those before and then the new ones. The invariant adds that a
scan sees the whole buffer, or the bytes of a direct scan with an empty one,
and has counted what it cut off. The theorems about refinement exclude a prefix
of three bytes because `LengthPrefixedFramer` refuses that width and
`FrameChannel` does not: there is no framer to agree with.

`UprSessionProofs` proves for every set of offers and every bound on the calls:

| Theorem | States |
|---|---|
| `TypeCorrect` | `[]TypeOK` |
| `SessionsMatchAlways` | `[]SessionsMatch` |
| `OnlyLimitsSplitAlways` | `[]OnlyLimitsSplit` |

The argument is that the server answers once, by the step that makes its call
succeed, and sends nothing before (`AnswerInv`); so a handshake that reaches the
client is that answer, and a client that abandoned no call has sent one
handshake by then (`SoleInv`). Channels that lose frames are covered.

`IoUringProofs` proves for every queue depth, number of calls, number of bytes
and choice of faults:

| Theorem | States |
|---|---|
| `TypeCorrect` | `[]TypeOK` |
| `NothingLeftBehindAlways` | `[]NothingLeftBehind` |
| `ResultsAreOwnAlways` | `[]ResultsAreOwn` |
| `ReadyIsOwnAlways` | `ReadyIsOwn`, the safety half of `CallsAnswered` |

`RingInv` says exactly what the kernel and the completion queue hold at each
point of a call that nothing has disturbed: its requests or their completions,
in either order for a poll and its timeout, and no others. `ReadyIsOwn` needs
none of it: a wait compares tags, so it holds whatever was left behind.

`StreamTransportProofs` proves for any number of descriptors, transports,
listeners, paths, streams and addresses and every plan of the application:

| Theorem | States |
|---|---|
| `TypeCorrect` | `[]TypeOK` |
| `DescriptorsKeptAlways` | `[]DescriptorsKept`: `OneHolder`, `NumbersAreLive`, `BlockingAsAsked` |
| `ReportsAreTrueAlways` | `[]ReportsAreTrue` |
| `PathsAreOwnedAlways` | `[]PathsAreOwned` |
| `EndIsFinalAlways` | `EndIsFinal`, an action property |
| `StreamsImplementPipe` | `ImplementsPipe` |

None of these is inductive: that a failing call closes what it opened, and only
that, depends on what every other actor holds meanwhile. The invariant, `Inv`,
has two halves. `Good(sys, InHand)` is about the table of descriptors while the
descriptors `InHand` are in the hands of listeners and of the connect call:
each other one that is to be closed is the application's or exactly one
transport's, and a stream's end is at one place, in one file or once in one
queue (`Sound`, `PlacesSound`); a reader that was told of the end of a stream
has all of it (`CountsSound`). The rest says what each actor knows between two
of its system calls: the connect call of its socket (`ConnectInv`), a
`writev()` of its transport (`GatherInv`), the listeners of their sockets and
paths (`ListenerInv`, `AloneInv`). Every operation gets a lemma with an
arbitrary `H` in place of `InHand`, so that a call may work on a descriptor it
has just opened; every action is then a few such lemmas one after the other,
and `StepOK`, what a step has to show, contains the action property and the
step of the pipes as well. TLC finds `Inv` in every state of the instance. The
assumption is `TransportAssumption`: descriptors and bounds are natural numbers,
and no path is the mark for "no path".

`SchemaLoaderProofs` proves for every set of disks, with any files, imports and
links, and however a text is parsed:

| Theorem | States |
|---|---|
| `CyclesAreRefusedAlways` | `[]CyclesAreRefused`: a load succeeds exactly when every file needed can be read and none needs itself |
| `MergedOnceAlways` | `[]MergedOnce` |

Both compare the resolver with the graph of imports: what a file needs is the
least set that holds its imports and is closed under importing. The resolver has
a stack and a table of states instead, and the invariant says how they relate.
Files are kept once each and only if they are needed (`Kept`); a frame's file
is needed by all frames below it and has just one frame (`Stacked`); each import
of a frame is still to come, done, or the one being entered (`Pending`); and the
files done are a list in which each follows its imports (`Ordered`). So an
import that is found under way closes a circle, and when the stack is empty the
files done are closed, hence everything needed, and none of them needs itself.
The assumptions: a link leads to what is no link, parsing answers with a
definition, an error or not at all (`DiskAssumption`), and an import is of one of
the three kinds (`ImportAssumption`).

`MessageProcessProofs` proves for every set of definitions, for all payloads and
numbers, every size of the buffers and every order of calls:

| Theorem | States |
|---|---|
| `BuildersAgreeAlways` | `[]BuildersAgree`: as long as the contiguous builder has room, the segmented one gives the same answers and its segments joined are the same bytes |
| `DispatchCompleteAlways` | `[]DispatchComplete`: where the constants a message starts with lie next to each other, `decode_any()` finds a message exactly if `decode_as()` accepts the frame as one, and it finds such a one |
| `SegmentsSufficeAlways` | `[]SegmentsSuffice`: whatever is called and whichever calls fail, at most `2 * MaxFields` segments are used, so the table of `kMaxSegments` is never full and `append_scalar()`, which does not ask, stays inside it; while the contiguous builder has room, no more scratch is used than bytes |
| `SizeBoundsAlways` | `[]SizeBounds`: a frame that decodes as a layout takes `minimum_size` bytes at least, and exactly that many when the layout is fixed, however its structs, collections and variants nest |

`BuildersAgree` does not say where a field's segment is, and that decides what
`finalize()` overwrites. The invariant, `IInv`, has that: the layout is one the
compiler produces (`Fits`), and unless the contiguous builder has failed the two
are `Alike`: segments joined are the buffer, each field written begins in the
buffer where its segment begins (`Located`), a checksum's segment is as wide as
the checksum, and there are at most two segments for each field passed, its
padding and itself. One lemma for each thing a builder does (`AppendSegmentAlike`, `PadRelated`,
`PutRelated`) says that it keeps the two alike or makes the contiguous one fail;
`AdvanceRelated` carries that over any number of fields filled in on the way,
and `PatchAlike` shows that a digest put in place of its segment is a digest
written over the buffer. `FinalizeTogether` does this for one checksum after
the other. Induction over fields and segments is over sets of numbers (`Induction`), since a
theorem with an operator as a parameter cannot be used.

`SegmentsSuffice`, stated beside its proof and in no run, goes on where `BuildersAgree` stops, when the contiguous
builder has failed and the two are no longer compared. Its invariant, `CInv`,
counts (`Counted`): unless the segmented builder has failed it holds two segments
at most for each field it is past, and a failed one takes no more. Within a call
`Appended` says how many segments a step may add and that a refusal fails the
builder for good: one for a field, one for its gap (`PassOverAppends`), two for
each field on the way (`AdvanceAppends`), none for a checksum.

`DispatchComplete` holds however a nested layout is decoded: nothing is assumed
of `DecodeNested`. The invariant, `BInv`, says that the segments of a builder and
the frame at hand are bytes (`HoldsBytes`, `Framed`) and that the compiled
messages have the types of their fields, with the prefix the compiler gives
them (`Typed`). The argument then goes through the decoder. A message that
decodes has gone through its walk without an error (`DecodedIsWalked`); a
constant it accepts is in the frame as the compiler wrote it
(`ConstantIsFound`), because a number read from bytes is written as these bytes
in either order (`ReadThenWrite`); and constants that are neither gated nor
aligned follow each other, so the frame starts with the dispatch prefix
(`DecodedHasPrefix`) and the message is filed under the frame's first byte or
is a fallback (`MatchIsCandidate`). `TryAll` says that going through a list of
candidates finds a message exactly if one of them decodes, whatever failures
came before.

`SizeBounds` compares two walks over a layout: the compiler's, which adds up
what each field takes at least (`MinimumBySteps`), and the decoder's, which adds
up what each field takes. One step of the decoder stays at or behind the
compiler's, and level with it as long as all fields so far are fixed
(`StepIsSized`): a field of a fixed size has it, a nested one has its struct's
(`FieldIsSized`, `CollectionIsSized`; of a variant the case the tag selects, found in the
cases sorted by tag, `CaseIsFound`), an absent one takes none and counts for
none, and alignment keeps the order (`AlignUpMonotone`). That sizes of structs
are true (`Sound`) is proved for one struct after another, those nested in it
first (`StructsAreSound`), by their ranks. The invariant, `SInv`, adds to `BInv` that
every layout takes its size in any frame of at most `MaxFrame` bytes
(`TakesItsSize`), and that the frame at hand is one.

The assumptions are the modules' own: widths of scalars up to eight
bytes (`WireAssumption`), bounds that are numbers (`CompilerAssumption`,
`BuilderAssumption`), and inputs of their types (`CodecAssumption`,
`DefinitionAssumption`). `SizeBounds` alone needs two more, which say of the
constants what the recursive operators behind them do: a definition whose
structs are all accepted has each compiled as a layout is, from the compiled
structs, and its nesting can be ranked, since the compiler refuses recursive structs
(`StructAssumption`); and nested bytes are decoded by the walk itself
(`NestedAssumption`). Both are evaluated by TLC in `message_codec` with the
operators of `StructCompiler` and `DecodedMessage`, over all its structs and all
bytes; they cannot be proved of these, because the prover takes no recursive
operators.

Only model-checked:

* all liveness: `FramesMoveOn`, `EveryFrameComes`, `EverySentArrives`,
  `CallsAnswered`, `ConnectReturns`, `LoadsReturn`;
* `LoadsWhatIsDeclared`, `FormatsAgree` and `ParserStaysInside`, about recursive
  parsers of texts and trees;
* `BuiltFramesDecode`, `AccessorsTotal`, `LanguagesAgree` and
  `TranscodeStable`, about decoders that call themselves on nested layouts: they
  hold of a layout because they hold of the ones nested in it.

## Findings

* `wait_until_writable()` of the shared-memory ring polls an eventfd that is
  incremented for every consumed slot and never drained, so it reports a full
  ring writable; `send_frame()` over it loops between a refused write and that
  wait and never reaches its timeout (`shm_channel_send`).
* A zero-copy send posts two completions and `write()` takes one; the next
  `read()` takes the other for the end of the stream (`io_uring_zero_copy`).
* A builder pads before the fields it fills in and not before the one the
  caller sets, so an aligned field after an odd number of bytes goes where the
  decoder does not look (`codec_alignment`).
* `ByteWriter` in `codec.ts` takes its view before `reserve()` replaces it, so a
  float for which the buffer grows raises a RangeError (`codec_languages`).

Met without a run of its own, in the models unless said otherwise:

* Shared memory: an empty frame is "sent" and dropped (`frame_channel.cpp:141`);
  the reader never learns that its peer has closed, since a ring has no end of
  stream.
* io_uring: the timespec of a wait's timeout is out of scope when the kernel
  reads it (`io_uring_reactor.cpp:326`; `TimespecKept = FALSE` in the run, and
  `CallsAnswered` speaks of calls whose timeout the kernel got); `close()` after
  the end of the stream does not give the ring back (`:292`); a signal that
  interrupts `io_uring_wait_cqe()` leaves a request behind whose completion the
  next call reports as its own (`ResultsAreOwn` says that nothing else does).
* Sockets: `close()` of a listener removes its path even when a newer listener
  has bound it since (`unix_socket_transport.cpp:231`).
* Sessions need equal frame limits on both sides to be accepted by both
  (`OnlyLimitsSplit`); a send that times out half-way damages the stream for
  good (`FramesIntact`).
* Framing: an oversized length raises out of `feed()` in Python and TypeScript,
  and the complete frames found before it are lost with the call; TypeScript
  also loses the bytes of a piece it scanned directly.
* Builders: `append_scalar()` does not ask whether the table of segments has room
  (`message_encoder.cpp:564`); `SegmentsSuffice` shows that it always has.
* Compiler: a variant whose tags span all of `uint64_t` has a lookup table of
  length 0, and the first case is stored in it (`schema_compiler.cpp:810`): a
  crash, in the model a schema that does not compile (`TagsFit`; no instance has
  such tags). `std::sort` leaves the order of cases of one tag open; the model
  keeps the one of the schema, as libstdc++ does for up to 16 cases.
* Languages: an absent gate counts as 0 in Python and TypeScript and not in C++
  (`codec.py:374`); TypeScript wraps what Python refuses in `toUnsigned`, shifts
  presence bits modulo 32 and takes an absent size or count for NaN, and (not
  modelled) rounds numbers above 2^53 and drops a byte order mark from text.
* Schemas: `$` begins an identifier and is no part of one, so the lexer never
  gets past it (`yaml_loader.cpp:602`, `LoadsReturn`); YAML cuts bit offsets,
  widths and presence bits to a byte where .upr refuses them; the type words
  `ascii` and `utf8` exist in .upr only; a struct whose type word contains `_be`
  gets a byte order in YAML only (`FormatsAgree`).

## Plan

Done: the ring, alone and below a channel, the runtime and its parts, the
channel and its readers in three languages, the session, the io_uring engine,
the socket transports, the schema loaders, the compiler, the decoder, both
builders and both other codecs; theorems about the ring, the channel over the
ring and over a byte stream, its readers in three languages, the runtime, the
session, the io_uring engine, the socket transports, the import resolver, both
builders, the choice of the message a frame is decoded as and the sizes of what
is decoded. Next, in this order:

1. What the codec modules leave out: bit fields, field masks and decode plans,
   nested builders, the sizes' overflow, the fingerprint, uniqueness of names.
2. The handshake over two rings, and over a channel that fails half-way.

### Not modelled

* `PluggableStreamEngine` forwards every call to its engine and adds no state.
* Generators, discovery, the workbench, the editor tools and the examples
  produce text from a value and keep nothing.
* Checksum polynomials and the bits of a float: no control depends on them.
  One order-sensitive sum stands in for the registry's table.
* yaml-cpp, the file system and the kernel are external: they are modelled as
  far as the code relies on them, from how it uses them.
* What only reports: statistics, capability masks, endpoint strings, messages
  of errors.
