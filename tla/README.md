# Verification of gr-ambe3000

gr-ambe3000 is an out-of-tree module for GNU Radio: a block that turns the bits
of a D-STAR receiver into audio, one that turns audio into D-STAR voice frames,
and a block that reverses the bits of bytes.  The AMBE vocoder is a USB dongle
on a serial line.  Beside the blocks the repository has a Python tool that
reads Doxygen's XML and writes their docstrings.  This directory has TLA+
models of the parts that keep state, TLC runs that check them on small
instances, and TLAPS proofs that hold for every value of the constants.

## The system

```
 bits --> dstar_decode_bs --> CDStarDecode::Process --+--> CSyncRegister   (last 96 bits, sync patterns)
          (general_work)       readmode, index,       +--> CDStarHeader    (660 bits -> radio header)
                               voiceframecount,       +--> CSlowData       (3 bytes of each frame -> console)
                               audio_ready            +--> CDV3000U        (frame -> 160 samples, serial line)
 samples --> dstar_encode_sb --> framecount --> CDV3000U (160 samples -> frame)
                                                  |
                                  bytes --> (bit_reverse_bb) --> modulator, or a file for dstar_decode_bs

 index.xml, <refid>.xml --> generated classes (build) --> DoxyIndex objects --> swig_doc.py --> docstrings
```

| Component (src/lib) | State it keeps | Operations | What makes it correct |
|---|---|---|---|
| `CSyncRegister` | three 32-bit words | `Push`, three pattern tests, `GetDataFrame` | the words are one shift register; frames leave in the order of arrival; a sync is made of bits that were received |
| `CDStarDecode` | `readmode`, `index`, `voiceframecount`, `buffer`, `audio_ready`, `first_time` | `Process` (96 bits in, 160 samples out) | frames begin and end at the right bit on every path; the numbers of frames keep step with the syncs; no audio is lost; a false sync does not hold it |
| `CSlowData` | `m_headcount`, `m_buffer`, `m_header`, `m_message`, `m_type3` | `Reset`, `SetHeader`, `Add3` | memory is not overrun; header and message once; texts complete |
| `CDV3000U` | the descriptor; during a call the packet being read | `OpenDevice`, `DecodeData`, `EncodeAudio`, `CloseDevice` | an answer is the answer to this question, and is understood; a call returns |
| `CDStarHeader` | path metrics, trellis, bits | constructor, `GetHeader` | inverts interleaver, convolution code and scrambler |
| `dstar_decode_bs`, `dstar_encode_sb` | `device_is_closed`, `framecount`; GNU Radio's buffers around them | `general_work`, constructors, destructors | what they say they consumed and produced; a sync in every 21st frame; each has its own descriptor, and leaves none open |
| `bit_reverse_bb` | none | `work` | the two vocoders see the same octets |

| Component (src/docs/doxygen) | State it keeps | Operations | What makes it correct |
|---|---|---|---|
| `doxyxml/generated` | per object: attributes, children, `content_`, `valueOf_` | `build`, `export`, `factory` | a tag is read by the class it belongs to; nothing twice or out of order |
| `doxyxml/text.py` | none | `description` | the text of a description, complete and in order |
| `doxyxml/base.py`, `doxyindex.py` | `_parsed`, `_error`, `_members`, `_in_category`, `_dict_members`, `_refs` | `members`, `in_category`, `get_member`, `has_member`, `error` | what is kept never shows: the answers are those of a fresh reading |
| `swig_doc.py` | the blocks and names already written | `make_swig_interface_file` | each block, function and class once, or no file and a reason |

The blocks run in the thread in which GNU Radio calls a block's work function;
the vocoder and the radio are the only things that run beside it.  What is hard
here is not locking but sequences: a sync pattern may come at any bit, in any
mode, and seven paths in one loop have to leave the counters so that everything
after is right (`index`, `voiceframecount`, `readmode`, the slow data's
half-filled buffer); and on the serial line answers may be late, cut short or
left over.  The Python tool is one thread as well; its hazards are objects that
parse themselves in the middle of a question and keep what they found, and
exceptions that leave them half read.  `PROJECT.json` lists these hazards one by
one with their lines.

## The modules

Component modules have the code's names for state and operations.  `MC*` modules
give constants their values and nothing else.  A definition that is commented "a
plausible slip" is not part of any model: it is what one would get from a small
mistake in the code, and is there to be put in place of the definition after it,
to see that a property notices.

| Module | Models | How |
|---|---|---|
| `SyncWords` | the data and functions of `CSyncRegister` | operators on a register `d`, three words of bits; a word is a function from bit numbers, since a 32-bit unsigned int does not fit TLC's integers |
| `SyncRegister` | `CSyncRegister` alone | `Push` with any byte, and the bits received as a history |
| `FrameBytes` | `GetData` and `SendData` of `CDV3000U`, `bit_reverse_bb` | the order of the bits of a frame, an octet being a function from bit numbers |
| `SyncPatterns` | the register around a header, and around a frame of the encoder | begins with what is left in the register and feeds the last bits of each pattern, or a whole frame |
| `DStarDecode` | `CDStarDecode` | a step is the start of a call of `Process` (`Call`) or one turn of its loop; one action for each path through the turn |
| `DStarFrames` | the same, observed | history variables that follow bits and calls, never the program's counters |
| `VoiceStream` | abstract specification of `CDStarDecode` | no bits, no `index`: only what parser, vocoder, console and caller are told, in which order |
| `DStarVoice` | refinement | `VoiceStream` instantiated with `DStarDecode`'s state |
| `Relock` | decoder and station | any bits for any time, then superframes |
| `SlowData` | `CSlowData` | one action for each path through `Add3`, `SetHeader`, `Reset` |
| `SlowDataConsole` | the same, observed | what has been printed, and what was on the air |
| `SlowDataStation` | slow data of one transmission | fragments of message and header in turn, heard from the start or from the middle |
| `DStarHeader` | `CDStarHeader` | a step is the descrambler and deinterleaver, a pair of bits in the decoder, a bit in the trace back, or the octets |
| `HeaderPaths` | the same, observed | the station's encoder as a shift register, and what each path through its trellis costs |
| `HeaderOnAir` | a station's header | encoder, interleaver and scrambler in closed forms, and a burst of errors |
| `DV3000U` | `CDV3000U`, the vocoder, the serial line | a step is a `read`, or what is done with its result |
| `VocoderCalls` | abstract specification of `CDV3000U` | no line, no bytes: a device that is opened, called and closed, and what comes of each frame |
| `DV3000UCalls` | refinement | `VocoderCalls` instantiated with `DV3000U`'s state |
| `EncodeBlock` | `dstar_encode_sb` and the slow data `GetData` adds | a step is a call of `general_work`, of any size |
| `DecodeBlock` | `dstar_decode_bs`, `first_time` and the audio of `Process`, GNU Radio's ring of samples | a step is a call of `general_work`, of any size; `Process` is what it hands over |
| `VocoderDevices` | the descriptor in `OpenDevice`, its error paths, `CloseDevice` | the table of descriptors of a process in which others open files |
| `Flowgraphs` | both blocks in one process | composes the three; the encoder's file, or a receiver, is the decoder's input |
| `DoxygenTypes` | the generated classes' fields | one record for each class that an element can bring to life |
| `DoxygenXml` | `build`, `export`, `description` over these | a file grows in the order of its text, is read, described, written and read again |
| `DoxyIndex` | `base.py`, `doxyindex.py` | an operation is an operator from the objects before to the objects after and a value or an exception; a client calls any of them in any order |
| `SwigDoc` | `swig_doc.py` | one turn of one of its loops is a step, after whatever a client has asked |

`DStarDecode` composes the register (it extends `SyncWords` and keeps `sr` as a
variable) with what the decoder calls: in each step `calls` holds the calls of
`CSlowData` and of the vocoder, the lines on the console and what the caller
gets, in their order.  `SlowData` is fed with what these calls can bring:
`expect` is the number that `Process` passes to `Add3`, and it takes the values
`voiceframecount` takes (0 after a header, 1 after a sync, counted on modulo the
period).

How actions of `DStarDecode` and lines of `Process` correspond:

| Action | `src/lib/DStarDecode.cc` |
|---|---|
| `Call` | 56-65: hand over `audiobuffer` or silence |
| `HeaderBit`, `LastHeaderBit` | 68-79, with `continue`: no bit is pushed, no pattern tested |
| `FrameBit` | 80-82, then 134-139 |
| `FrameInOrder` | 83-105: a frame with a sync where one is due, or without where none is |
| `MissingSync` | 93-100, the vocoder, then 109-116 in the same turn |
| `UnexpectedSync` | 88-91, 99-104, then 118-131 in the same turn: the frame is decoded twice |
| `SearchBit`, `HeadFound`, `DataFound` | 108-132 |
| `Finish` (part of the others) | 134-139: the terminal sync |

The vocoder may fail in any call of it; then `Process` returns true, the block
returns `WORK_DONE` and is not called again (`running`).

In `DStarHeader` the trellis of the code is a formula for the states before a
state (`From`) and a table of eight pairs in the order of the code's `metric`
(`Expected`); the interleaver's constants are those of its size and step
(`High` is 672, and 671 and 647 follow from it).  The decoder takes the
constructor as one step (`LastHeaderBit`): nothing else runs while it does.

In `DV3000U` the stage of `initDV3K` is `stage`, and `pc` says which of
`getresponse`'s loops is running.  `read` is modelled as termios has it here
(`VMIN` 0, `VTIME` 1): it gives what is there up to what is asked for, or after a
tenth of a second nothing.  The first loop counts its reads, also those that
gave nothing (`NoStart`); the other two do not.

`Flowgraphs` takes `Process` for a frame at a time, since what the encoder
records begins with a frame; `locked` is `readmode == datamode`, and the rest is
`DStarDecode`'s.  Calls of `general_work` are cut by the scheduler as it likes,
and end early by `WORK_DONE` where the vocoder fails.

In `DoxygenTypes` a class is a table of its tags, because that is all in which
its `buildChildren`, `exportChildren` and constructor differ from any other's;
what the methods have in common is written once, in `DoxygenXml`, with the places
where single classes differ from the pattern (`docParaTypeSub`'s own `content`,
`compounddefType`'s title).

`AnswersAsEager` compares `DoxyIndex` with a second definition of the same
answers, which keeps nothing and parses whenever it is asked (`MembersOf`,
`CategoryOf`, `MemberOf`).  Of the directories both assume what Doxygen writes
(`Consistent`): the index has a compound once, and no two classes by one name; what
is inside a file is in the index, a member (a function, a friend) is no compound, and its name has no `::`.
The classes' names are said to differ by what `make_name` makes of them, since the
prover does not look into strings.  Anything else may be: a missing file, one that is no XML, kinds without a class,
names that come twice.

### What the models leave out

- `voiceframecount` is kept modulo the sync period: the code looks at it only
  modulo 21.  Its overflow after 2^31 frames is not modelled.
- The contents of frames, headers and samples, but for what a property tells
  apart.  Descrambling in `Add3` is a bijection on bytes and has been done when
  `SlowData` begins; a character is NUL, blank, underscore, other white space
  (`Spaces`) or another.
- What `memcpy` does outside its arrays.  A fragment may have any count; one that
  leaves an array leads to `Undefined` (`Overrun`), of which nothing is said.
- Where the loop that trims a text would come to below `m_header`: it stops at the
  key of the fragment in `m_buffer`, which is no white space.
- In `Flowgraphs`, what cannot be done without a vocoder fails; why is
  `DV3000U`'s matter.
- Samples: a slot of 160 is one piece of sound, or silence.
- In `DoxygenXml`, the indentation of what `export` writes (it only adds blanks),
  a text that holds `![CDATA` as characters, and the classes that no file
  reaches: `docParaType` builds none of its possible children.  `exportLiteral`
  and the `find` methods of `index.py` and `compound.py` are called by nothing.
- In `DoxyIndex`, an `index.xml` that is itself missing or bad: the first
  question raises what the file system or the XML parser raises, and after it the
  index answers as if it were empty, as below.  An object's data
  (descriptions, parameters) is only that it needs the parse, and whether there is
  a description, which decides whether a class has an entry.
- In `SwigDoc`, the entries of a class's member functions: the functions are asked
  for, as in the code, but `entries` has those of the index only.  What such an
  entry asks of a function (its parameters) parses that function, which reads no
  file and cannot fail.
- What objects answer after an exception that is none of the library's (a
  missing file, a header that is no XML): `_parsed` is set, and they answer as if
  they were empty.  The model has this (`broken`), and `AnswersAsEager` is not
  stated for it.

## The runs

| Run | Module, cfg | Shows | Instance |
|---|---|---|---|
| `sync_patterns` | `MCSyncPatterns` | `WordsAreLastBits`, `FrameInArrivalOrder`: the carries, and the order in which a frame leaves; `NoStaleSync`: no sync is made of bits from before a header; `SameFrameDecoded`: the octets of one vocoder get to the other, by each of the two ways to make a stream of bits | real patterns, real size; the last bits of each pattern, in bytes with other bits set; three frames |
| `frames` | `MCDStarFrames` | `WholeFrames`, `SyncJudged`, `HalvesAdjacent`, `NoAudioLost`, `NoModeHolds`, `ImplementsVoiceStream` | frames of 6 bits, headers of 8, a sync in every third frame, any bits |
| `relock` | `MCRelock` | `RelockInTime` | frames of 9 bits, headers of 10, every third; two frames of each kind |
| `console` | `MCSlowDataConsole` | `LeftByCountOnly`: no fragment leaves an array but one whose count does not fit it; `RadioHeaderOnce`, `MessageOnce`, `TrimStops`, `TextAsSent` | header of 5 characters, message of 4, fragments of 2 with counts up to 3, in any order, with keys that mean nothing, with NULs, and with white space other than blanks; texts that fill `m_type3` and go over |
| `station` | `MCSlowDataStation` | `ReadFromStart` | header of 3 fragments and a character, message of 3, all characters different |
| `vocoder` | `MCDV3000U` | `AnswerUnderstood`, `ImplementsCalls`, `OpenLeavesNothing`, `CallsReturn` | an answer of 11 bytes, four frames of which three have start bytes in them, one byte lost, two starts of the program |
| `header` | `MCHeaderOnAir` | `LeastMetric`, `TracedIsNearest`, `HeaderRead` | a header of two octets in 38 code bits, rows of 9, a burst of 4 anywhere; 16 headers |
| `flowgraph` | `MCFlowgraphs` | `StreamFramed`, `HeardInTime`, `PlayedBack`, `DeviceStays`, `NoLeak` | a sync in every third frame, 4 frames, calls of any size, a ring of 4 slots, 2 descriptors |
| `doxygen_xml` | `MCDoxygenXml` | `DescriptionIsText`, `SameAgain` | any of the 44 classes as the outermost element, 2 nodes in it, 3 in the classes of descriptions; a blank and a character to be escaped |
| `docs` | `MCSwigDoc` | `AnswersAsEager`, `OneObjectPerRefid`, `EntriesComplete`, `StopsForCause` | 16 directories with one class or three, which are described or not, some functions with an operator's name; two questions of a client before the script, of every kind and to every object |

Each run of a component also checks its `TypeOK`, but for the register's, which
`WordsAreLastBits` includes.  Two runs find what the
documentation says violated; see "Findings".

### The bounds, and why they are enough

- *Sizes of frames, headers and periods.*  The decoder compares counters with
  these sizes and does nothing else with them, so that small ones have all the
  relations of the large ones, and the proofs (below) are for all.  The
  relations that matter are kept: a header is longer than a frame, the data sync
  is shorter than the terminal sync and that than the header sync, no pattern is
  part of another.  A call of `Process` has as many bits as a frame, as in the
  code, and frames begin at any bit of a call.
- *Patterns.*  In `frames` the small patterns come by chance in most behaviours,
  so that every path is taken in every state.  `relock` needs a station whose
  frames have no patterns but where they belong; a frame of 9 bits is the
  shortest for which such frames exist.
- *`Enough` in `Relock`* is the longest the decoder may take: out of a header
  that it found before a frame was out and of the frame after it, or out of a
  superframe that is not the station's, and past the next sync.  The bound is
  tight: with one bit less the run fails.
- *Texts.*  `m_type3` holds several fragments, so that it fills up, is left when
  full, and is cleared by a short one; history variables are cut at its length.
  Counts go up to 3 where a fragment has 2 characters, which is enough to leave
  `m_buffer`, `m_message` and `m_header`; the proofs have any counts.
- *The vocoder.*  One byte is lost anywhere, and frames contain what looks like
  the start of an answer to a frame, to a reset, and one of impossible length,
  so that a lost start byte makes `getresponse` begin within an answer.  The
  program is started twice and stopped anywhere, so that the second finds an
  answer, or part of one, on the line.  More runs could leave more answers: with
  four that wait, each of a run that was stopped before it had read its own, the
  handshake could be answered by old answers.  `OpenLeavesNothing` is a
  statement about one earlier run.
- *Headers.*  38 bits in rows of 9 have long and short columns, and bits at
  the end that belong to no octet, as 660 in rows of 24 have.  A burst of 4
  wrong bits is the longest that the decoder corrects at this size at every
  place: with 5, as long as a column, the run fails, since some bits of the
  burst are then neighbours in the code.  It is also the longest that the
  theorem is about (`Scattered`), as 27 is at the real size.
  At the real size the interleaver is checked by itself, in the assumptions of
  `MCHeaderOnAir`: each bit goes to its place (`RealInterleaver`), and those
  fewer than 27 apart on the air are at least 23 apart in the code
  (`RealSpread`); and the table is a shift register's (`ScramblerRegister`).
- *The flow graphs.*  Four frames have a second sync, at the place where a
  counter that was set back or went on by mistake would miss it; a ring of four
  slots goes around, and is small enough for the first call, which writes two
  slots more than it has room for, to overrun it (`overrun`: `HeardInTime` and
  `PlayedBack` are stated for the rest; GNU Radio's ring has some 204 slots, and
  a scheduler that fills it in the first call does the same).  With two descriptors, the
  number that a block has closed is at once another's: then its second close
  takes that away (`stale`), as the model shows.  `DeviceStays` is stated for the
  processes in which this has not happened.
- *Files.*  The classes look at no more than an element and its children, so
  that two nodes below the outermost show each tag of each class beside each
  other; a description within a description takes three.
- *Directories.*  A class and its header, another header, and two groups, one
  in the other, are the ways by which objects are reached twice; each directory
  has one thing wrong, or two.  Two questions are enough for a parse that goes on
  within another.  The script then asks everything, from every state that they
  leave.
- *Counters* that would grow without bound are cut where nothing looks any more:
  `sent` at `Enough`, `headers` and `messages` at `Many`, `fragments` at a cycle.

`CHECK_DEADLOCK FALSE` is set where the program really stops: a failure of the
vocoder ends the block, a stream of bits in `SyncPatterns` ends, both blocks of
a flow graph are destroyed in the end, and the program is not started again
without end.

### Fairness

`DStarFrames` has `WF_hvars(HNext)`: the runtime calls `Process` as long as bits
come in, and a call runs to its end.  Nothing is assumed about the bits:
`NoModeHolds` names what must keep coming (bits that look like a data sync) to
hold the decoder in frames.

`DV3000U` has weak fairness of `Read \/ Check` (a call that has begun runs on;
an error of `read` is not among what must happen) and of `Transmit` (the line
brings what has been sent).  That the vocoder answers is not assumed.
`CallsReturn` is stated for a run with no byte lost: when the rest of an answer
does not come, the loops for header and payload do not end, and the model has
these behaviours too.

## What is proved

`tlapm` checks the proofs in the `*_proofs` modules and in `FoldSteps`; they use the assumptions of
`SyncWords` and `DStarDecode` on the constants (sizes are positive, no content
of the register passes two pattern tests), of `DStarHeader` (sizes are
positive, the octets fit into the pairs, the scrambler has bits), of
`HeaderOnAir` (headers are octets, and two pairs are left after them), of
`SyncPatterns` and `Relock` (see below), of `SlowData`
(header, message and text have room for a fragment, the period is odd, white
space is neither NUL nor underscore),
`SlowDataConsole` (what a mixture of fragments is) and `SlowDataStation` (a
station's header and message have their lengths; the message, which is filled up
with blanks, does not end in NUL), of `DV3000U` (what the vocoder sends are
bytes, and there are fewer than its length can say), of `DoxyIndex` (what an
index and a file consist of; a name has words) and of
`EncodeBlock`, `DecodeBlock` and `VocoderDevices` (a period of one frame at
least, a ring of two slots, a descriptor), which TLC evaluates in every run of a
module that extends these.  `HeaderReadHolds` has one hypothesis more,
`Scattered`, on how long the burst is; `MCHeaderOnAir` checks it for its instance
and for a burst of 27 bits in the real sizes.

| Theorem | Says, for every size, period and pattern |
|---|---|
| `DStarDecode_proofs!OneShiftRegister`, `FrameIsArrivalOrder` | what `sync_patterns` checks on the words along the patterns |
| `DStarDecode_proofs!NoStaleSyncHolds` | whatever bits come in on top of what the register held, a sync is only seen when it has come whole |
| `DStarDecode_proofs!SameFrameDecodedHolds` | the octets of one vocoder get to the other as they were, for every frame |
| `DStarDecode_proofs!InvariantHolds`, `TypeCorrect` | the decoder's state has its types, no index leaves `buffer` |
| `DStarDecode_proofs!WholeFramesHold` | headers and frames are handed on whole |
| `DStarDecode_proofs!SyncJudgedHolds` | complaints are exactly those about a sync at a wrong distance |
| `DStarDecode_proofs!NoAudioLostHolds` | audio is overwritten only at a sync found in the stream |
| `DStarDecode_proofs!HalvesAdjacentHolds` | the halves of a fragment of slow data are of adjacent frames |
| `DStarDecode_proofs!DecoderImplementsVoiceStream` | every behaviour of the decoder is one of `VoiceStream` |
| `DStarDecode_proofs!RelockInTimeHolds`, `UnderwayHolds` | whatever it was fed before, the decoder is in step with a station after `Enough` bits and stays so |
| `SlowData_proofs!TypeCorrect`, `LeftByCountOnlyHolds` | the parser's state has its types; `memcpy` leaves an array only for a fragment whose count does not fit its key, and until then a text ends within `m_type3` |
| `SlowData_proofs!TrimStopsHolds` | trimming a text changes no message and no header, unless a message ends in white space other than a blank |
| `SlowData_proofs!HeaderPrintedOnce`, `MessagePrintedOnce` | no fragment prints a header again that came before the frames; a message without a NUL, and without white space but blanks, is printed once, whatever the order of its fragments |
| `SlowData_proofs!TextAsSentHolds` | a text without a NUL is printed as it was on the air, but for white space at its end |
| `SlowData_proofs!ReadFromStartHolds` | who hears a station from its start prints its header and message, as they are, exactly once |
| `DV3000U_proofs!PacketNotOverrun` | whatever is on the line, `getresponse` stays within the packet |
| `DV3000U_proofs!ImplementsCallsHolds` | as long as `OpenDevice` leaves nothing on the line, every behaviour is one of `VocoderCalls`: a call gives what the vocoder made of its own frame or fails for good, whatever bytes are lost and whatever is in the frames |
| `DV3000U_proofs!OpenLeavesNothingHolds` | `OpenDevice` leaves nothing where it finds nothing and loses nothing, in every run of the program |
| `DV3000U_proofs!AnswerUnderstoodHolds` | in a first run with no byte lost, every answer, of any bytes and in any pieces, is read to its end and understood, and the frame is the vocoder's |
| `HeaderPaths_proofs!TypeCorrect`, `MetricIsLeast` | no index leaves its array; path metrics are the least of all paths, whatever is received |
| `HeaderPaths_proofs!TracedIsNearestHolds` | the bits traced back are the input of a path that costs what the metric of state 0 says |
| `HeaderPaths_proofs!HeaderReadHolds` | a header is read as it was sent, wherever on the air a burst of wrong bits falls that is shorter than a column of the interleaver |
| `Flowgraphs_proofs!RecordingFramed` | for every period and number of frames, the recording is the sound in its order, with its syncs where a receiver expects them |
| `Flowgraphs_proofs!NoDescriptorLeaks`, `DeviceKept` | for every number of descriptors, none is left open without a block, and a block keeps its own, unless a number was closed twice |
| `Flowgraphs_proofs!TypeCorrect`, `HeardInTimeHolds`, `PlayedBackHolds` | for every size of ring and cut of the stream into calls, each piece of sound is heard once, at its place; a recording is played as it was |
| `SwigDoc_proofs!OneObjectPerRefidHolds` | in any directory, whatever is asked in whatever order and wherever an exception leaves a parse, a compound is one object |
| `SwigDoc_proofs!AnswersAsEagerHolds` | in any consistent directory, whatever has been asked before, an object answers what the files say, by a value or an exception, as long as no parse has been left by an exception |
| `SwigFile_proofs!EntriesCompleteHolds` | in any consistent directory, whatever has been asked before, a file that is written has each block with its make function, each other function and each other class that can be parsed, once, but for classes and blocks of which nothing is said and names with `operator ` in them |
| `SwigFile_proofs!StopsForCauseHolds` | in any consistent directory, whatever has been asked before, the script ends without a file just where the directory gives it a reason to |

*The register.*  `WordsAreLastBits` is inductive with the types: one lemma says
what `ShiftIn` does to a word (`ShiftInWord`), and bit 0 of words 1 and 2 is the
old top bit of the word below.  `FrameIsArrivalOrder` follows by arithmetic on
octets and words.  For the two theorems of `SyncPatterns`, `FedInv` says which
bits the register holds: the old ones that are left (`Kept`) and then those fed
so far (`Fed`).  A sync seen too early would have to begin with old bits
(`SeenEarly`), which `OverlapAssumption` rules out for patterns and old bits
alone, without a register: TLC evaluates it for the patterns of
`SyncRegister.cc`.  `FrameAssumption` is about sizes, and about the octets of
`GetData` and `IsDataSync`, two places that have the same sync.

*The decoder.*  Types alone are not inductive: `index + 1` stays in range only
because a turn that fills a frame or a header sets it back, or ends the block.
`IndexOK` says so for each mode (0 in nullmode).  `AudioOK` says that while
there is audio to hand over, the frame at hand began in this call (`index <
inp`): since a call has as many bits as a frame, the call ends first and the
next one hands over.  That is why no frame in its order overwrites audio, and
why `VoiceStream` can have `~owed` as a guard of `Frame`, `Lose` and `Relock`.
`IInv` is the types and these two; `StepInv` has a step for each action.  The
same module shows the refinement: `phase` and `number` are functions of the
decoder's state, and each action is one of `VoiceStream`'s from a state with
`IInv`.

*The history.*  `HInv` adds that the history and the program agree: `since =
index` outside nullmode, and `voiceframecount` is one more than the frames since
the last sync, or 0 when a sync is due.  `WholeFrames` and `SyncJudged` are then
what an action does from such a state.  Lemmas say which names each action tells
(`HeaderTells`, `FoundTells`, ...), since the properties speak of `calls`.

For `HalvesAdjacent`, `half = index` between the halves says that nothing but
the second frame has been read since the first (`HalfOK`).

*The station.*  `RelockInTime` says where the decoder is after `Enough` bits; an
inductive invariant must say where it can be before, and how many bits it still
has.  `RInv` names six places (`Underway`): in step (`Locked`); in search
(`Searching`); in a header, which it took for one when less than a frame was out
(`InHeader`), or in the frame after it (`AfterHeader`); in a superframe that is
not the station's, while there is time for two more (`Early`), or whose own next
sync is due no later than the station's (`Awaited`).  All but the first come with
a bound on `sent` and on the bits to the end of the station's next sync (`Left`).
Each has a lemma that says where a bit leads from there (`FromSearching`, ...).
They rest on what the register shows: `OnAir` says that its newest bits are the
station's, `BitHeard` that one bit more makes them one more and which of the
three tests can pass then.  In a header the register is left alone (`HeadKept`),
so that the frame after it begins on top of the header sync (`HeadThen`).
Two things are assumed of the air.  `StationAssumption`: frames have bits, and
none of the patterns within two frames in a row but the data sync where it
belongs; nothing in the decoder could tell a pattern in the sound from a sync.
`LeftOverAssumption`: less than a terminal sync's bits on top of a header sync
do not make one; for the patterns of `SyncRegister.cc` that is part of
`NoStaleSync`, which `sync_patterns` checks.

*Slow data.*  A second half comes only after a first: even numbers come after odd
ones only, because the period is odd and begins with a sync (`HalfKept`).
`LeftByCountOnly` is inductive with this and the types.  A text stops short of the
last byte of `m_type3` (`Terminated`), and the test for room leaves place for a
full fragment and for this byte, so that a fragment that is copied beyond an array
has a count that does not fit (`MessageFits`, `HeaderFits`, `OverrunUnfit`); this is
kept, since nothing is done after it (`UnfitLeft`).  For `TrimStops`, the last byte
of `m_message` is never a blank (`NoBlankLast`), since the fragment that brings it
also has the blanks replaced: where it is not other white space, the loop stops
there, and a text leaves the message and the header as they were (`TextSpares`).
For the console, `ConsoleInv` says that a header that was set is past its last
character, and that a message that has been printed keeps its last one, if it is no
white space (`Plain`, `LastPlain`).

`TextAsSent` is about a text that is heard fragment by fragment and printed at
its end.  `HeardInv` says what `m_type3` is on the way: it spells what has been
heard of the text (`Spelled`), or there is no room, or a NUL has come.  That it
grows right is a lemma on strings in arrays (`SpelledOn`), that the trimming
leaves what was sent another (`TrimmedSpelled`).

For `ReadFromStart`, `StationInv` follows the cycle of fragments: `place` and
`fragments` say where it is, and with them how many fragments `m_header`
and `m_message` have got, each as the station has it up to there (`Spells`), or
that they are complete and have been printed (`HeaderHeard`, `MessageHeard`).
Both halves of a fragment come one after the other, and the first is still in
`m_buffer` with the second (`FragmentOnAir`).  The message is printed once since
its last character stays; the header, since `m_headcount` does not go back.

*The vocoder.*  `header.length` is whatever two bytes say; that it is in range
while `getresponse` reads what follows is a type, and `Room` adds what is left of
each loop: nothing is read before the start byte, no more than three bytes after
it, and less than the length while the last loop runs.

`AnswerUnderstood` is about the bytes themselves.  `Flow` says that what has been
read of an answer, what waits on the line, and what the vocoder has still to
send (`Coming`), put together, are the vocoder's one reply to the question that
was asked last, or what is left of that reply at this point of `getresponse`.
A byte that goes from the vocoder to the line, or from the line into the packet,
leaves the whole as it was (`TransmitFlow`, `ReadOn`); the two bytes of the
length are the length (`LengthRead`); and when three bytes, or as many as the
length says, have been read, they are the header or the rest of that reply and no
others (`SamePrefix`).  The model's small bytes and four frames do not matter to
this.  It is stated for a first run with no byte lost.

After a loss, bytes of a frame may look like a packet.  `ImplementsCallsHolds`
rests on counting them.  A call that begins with nothing on the line can get no
more bytes than its own answer has, and `CheckData` wants all of them: what has
been read from a start byte on, what waits and what is still to come is together
too short for an answer to a frame (`Short`), or it is the vocoder's reply, whole
(`Flow`); `Own` is the invariant.  A lost byte makes it too short (`LosesIt`), and
nothing in a call makes it longer (`KeepsShort`).  So when the answer is taken, it
is the reply, and nothing is left for the next call.  What begins this is
`OpenLeavesNothing`, and this is a hypothesis: control packets are told by their
type and their `field_id` only, and frames of an earlier run that nobody has read
may have in them what looks like the answers to all four questions, so that for
some values of the constants it does not hold.  `OpenLeavesNothingHolds` says
where it does: if the device is opened with nothing on the line, and no byte is
lost while the questions are asked.

*The header.*  `costs` holds the end and the cost of every path of the encoder.
`LeastMetric` is inductive with the types: two lemmas say that the two entries
of the decoder's table for a state are just the encoder's steps into it
(`TrellisIsEncoders`, `EncodersAreTrellis`, by cases over the states), so that
the lesser of two sums is the least over all paths that are one pair longer.
Nothing is assumed about the bits, not even that a station sent them.  Of the
path that is traced back the decoder has only pieces left: the metrics of the
last states, a bit of memory for each state, the bits read out.  `Remembered`
says that there are metrics for every number of pairs (`Metrics`) and a sequence
of states (`Traced`) that these are the pieces of.  The bits read out are then
the input that makes the encoder go through those states (`PathEncoded`), and
were its wrong bits not what the metrics say, there would be a first pair after
which they are not (`PathCost`, by the least number principle).

`HeaderReadHolds` puts encoder, interleaver, scrambler and decoder together, in
four parts.  First the interleaver: a place in the code is a row and a column,
`AirPlace` takes places to the air one to one (`AirOnce`, `AirOnto`), and
`NextSlot` goes to the place that is next on the air (`AirNext`), so that the
deinterleaver's table is what the interleaver undoes (`SlotIs`,
`Deinterleaved`).  Second, bits of a burst shorter than a column are a row apart
in the code, less one where the burst goes over to the next column (`Spread`):
with rows of nine and more, wrong bits are at least eight apart (`Apart`), and so
at least four pairs.  Third, the decoder: `Behind` bounds by how much any path is
behind the station's in cost, given how the two states differ, how long ago the
last wrong bit was, and whether the inputs have parted.  It is a table that no
step can get below (`BehindStep`, by cases): a wrong bit takes two from what the
path is behind, and until the next it has lost more than that again, or has
joined the station's.  A path whose input is another is then behind by one at
least when it ends in state 0 (`PathLags`); it costs more than the station's, so
the nearest path is the station's (`CheapIsSent`).  It matters here that two zeros
follow the octets (`AirAssumption`), which is what brings the encoder back to
state 0, and it does not matter in which state it begins.  Fourth, octets are
their bits (`OctetRead`).  `Underway` is the invariant: the station's path is one
of those that `costs` has, with as many wrong bits as there were on the air
so far.

*The flow graphs.*  That the recording is framed needs that, while the encoder
works, `framecount`, `taken` and the length of the stream are one number; a call
that fails breaks this, and ends the encoder (`EncoderInv`).  For the
descriptors, `NoLeak` and `DeviceStays` are inductive together with the types and
with what a block is that is not built yet: it has no number and has closed none
(`DeviceInv`).  Of the lowest free descriptor only that it is free is used
(`LowestIsFree`); each lemma is about one of the calls that change the table, for
either block.

For what is heard, `RingInv` says that the slots between the listener's index and
the block's are the pieces still to hear, in their order (`RingOK`), and that the
audio waiting for the next call is the last piece (`AudioOK`).  A call writes at
places that follow each other modulo the size of the ring; that it has room keeps
them apart from those not heard yet, which is arithmetic on remainders
(`PlacesApart`), and that of two writes to one slot the last one counts needs the
least number principle (`LastWrite`).  `FileOK` says that a decoder that plays a
recording has taken as many frames as it has counted and is in step.

*The objects of the documentation.*  Each step of `SwigDoc` is a whole operation,
with loops in loops that call other objects.  They are folds (`FoldLeft`), and the
library defines a fold by a function on sets of places.  `FoldSteps` proves that
there is such a function, that its values are one turn after another
(`LoopTurns`), and from this the rule of a loop (`LoopKeeps`); `SwigDoc_proofs`
uses it once for each loop, with the turn and what the loop keeps as parameters of
an instance.  Then there is a lemma for each operation of `base.py`,
`doxyindex.py` and `swig_doc.py`, with the name of the operation: from objects
that are in order (`HeapOK`) it leaves objects that are in order, none of those
before is another than it was (`Extends`), and what it returns is what its callers
rely on (`Outcome`, `Listing`, `NamesOf`, `OneObject`): objects that exist, with
`None` only among all members.  In order means the types, and that `_refs` has
just the objects that have a refid, each by that refid (`RefsOK`), from which
`OneObjectPerRefid` follows.  It must be kept by every operation that raises as
well, since a client may ask again afterwards.

For `AnswersAsEager` what is inductive is `Good`: while `broken` is empty, what
each object has kept (its members, its error, its categories, its dictionaries)
is what the files say of what it stands for.  The answers alone are not inductive,
since an answer is made of what other answers have left behind.  An operation has
a lemma that ends in `Says`, about what it returns, next to the one about what it
leaves; the two are paired, turn by turn, with the loop of the second definition
by the same rule of a loop.  Three places need more than that.  While a file is
read `_parsed` is already set and the members are incomplete, so that `Good` holds
of the others only, and nothing asks this object before the parse ends.  A
dictionary has `Duplicate` for a name exactly where the second definition finds it
at two places (`DictSo`), which holds of each beginning of the loop.  And
`swig_doc.py` tells a block by asking `has_member` for a friend, which raises
`Duplicate` where there are two: that does not happen, since of a file's members
only the first of each name is taken (`FirstOfName`).

`EntriesComplete` and `StopsForCause` (`SwigFile_proofs`) are about what the script
makes of the answers.  They say something only of a script that has ended, so what is inductive
is its `Story`, at each of its stages: what is written is just the entries of the
blocks, functions and classes that are behind it (`SoFar`), each once, what is ahead
of it is the rest of its loop (`Ahead`), and a script that has stopped has a cause.
Both run over what objects stand for and not over objects, which come to be while
the script asks.  Three things make it hold.  A lookup by a path either finds the
only member of that name or raises `NoSuchMember` or `Duplicate` (`MemberIsSure`),
so that an entry of a block is left out for no other reason, and a function is
either one that makes a block or is in the second loop, and never both (`MakeIs`).
What `make_entry` leaves out is said of each thing by itself (`BlockTold`,
`MakeTold`, `ClassTold`, `NoOperator`), of a block by what three lookups tell.  No
two members of the index are one thing (`IndexReadHas`, for which a compound must be
in the index once), and no two classes have one name (`ClassesDiffer`): two blocks
of one name would share their make function, which would be written twice.  And the
later loops look at the names of objects that were there before they began
(`LeftAhead`), for the index has been read by then (`CategoryThere`).

### What is only model-checked

`OpenLeavesNothing` after a run that has left bytes on the line, or with a byte
lost while the device is opened: this holds for what the vocoder's answers are, not
for all constants.  Bursts in a header that are longer than one bit where rows are
shorter than nine.  The generated XML classes, which build an element out of its children: `DoxygenXml`
has recursive operators for this.  The two liveness properties are out of the
prover's reach.

## Findings

The code and what is written about it disagree in two places that a run shows.

| Run | Written | What the run shows |
|---|---|---|
| `text_printed` | `examples/README:15`: the block prints slow data | the fragment that ends a text finds `m_type3` full, and the text is not printed; it stays there, so that no text is until `Reset` |
| `header_once` | `examples/README:15`: the header is printed once per transmission | twice, for a receiver that comes in in the middle of it |

The models have more that a reader of the code should know: `examples/README:13`
says the data sync is only reported where there was no header, and
`DStarDecode.cc:122` reports it after one, too, when a sync comes unexpectedly;
a sync at an
unexpected place is handed to `Add3` as slow data (`UnexpectedSync`); a receiver
that comes in in the middle of the message prints an incomplete one and never
the right one (`Message`, when the last fragment comes first); a message that ends
in a tab or a new line loses its end to the next text of white space only
(`TypeThree`), and is printed again when it next comes; a fragment whose count says
more than five characters, or of a message a fifth part or a later one, has `memcpy`
leave its arrays (`Overrun`), which bit errors are enough for; a class without a
description has no docstring, while its functions have; and the comment
in `dstar_decode_bs.h:33` that slow data is ignored is out of date.

## Not modelled

- `build_utils.py` and `build_utils_codes.py`: helpers of older GNU Radio build
  files, straight lines of string substitution that nothing here calls.
- The SWIG, GRC and CMake files, the empty `qa_` tests, and the flow graphs of
  the examples but for what they connect (`Flowgraphs`).
- `dump` of `CDV3000U` (debugging), `exportLiteral` and the unreachable generated
  classes (see above), and the `get_`, `set_`, `add_` and `insert_` methods of the generated
  classes, which read or set one field.
- The calls of `DStarDecode` and the fragments of `SlowData` in one state
  space: the decoder's state times a buffer of texts is beyond TLC for any size
  at which a header is a header; the numbers that pass between them are argued
  in "The modules" and `HalvesAdjacent` is about their order.
