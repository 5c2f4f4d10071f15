# Verification of the zonekey MCU

The repository holds mediastreamer2/oRTP (third party) and, under `src/zonekey`,
a multipoint conference server, its media filters and its Windows clients. This
project models the server side, `zonekey_mcu` and the filters whose state the
server changes while they run, and the XMPP user agent the clients talk to it with.

## 1. The system

| part | state | operations | threads |
|---|---|---|---|
| `Server` (`zonekey_mcu/Server.cpp`) | `conferences_`, `next_id_`, the licence | the XMPP commands, `Server::run` | XMPP callback threads, the main loop; one mutex `cs_conferences_` |
| `Conference`, `FreeConference`, `DirectorConference` | sources, streams, sinks, `graphics_`, `idle_`, `reg_notify_tokens_` | `add*`/`del*`, `run_once`, destructors | callers hold `cs_conferences_` |
| `Source`, `Sink`, `Stream` | RTP session, event queue, time last heard, `death_` | `run` | oRTP queues events from the tickers |
| publisher filter (`zonekey_publisher`) | `rtp_sessions_`, `pendings_` | `add_remote`, `del_remote`, `process` | control thread and ticker; one mutex per list |
| video mixer filter (`zonekey_video_mixer`) | channels, `zorder_`, `x264_`, `fifo_`, request events | `get_channel`, `free_channel`, `req`, worker loop, `process` | control thread, worker, ticker |
| director mixers (`DirectorConference`) | pins and channels of the streams, layouts | `add_/del_` audio and video stream, `v.desc`, `v.zorder`, exchange of positions | control thread |
| audio mixer filter (`zonekey_audio_mixer`) | per-pin buffers and sums | `process` | ticker |
| XMPP user agent (`xmpp/zkxmpp_ua.cpp`) | `_conn_map`, `conn`, `id_cb_map`, `mse_map` | login, logout, delete, id handlers, commands, stanza callbacks | application thread, libstrophe thread; two mutexes |
| signalling client, client helpers, renderers, codecs, ActiveX controls, SOAP service, earlier servers, tests | | | |

A command arrives in `Server::callback_command`, takes `cs_conferences_`, calls a
conference, and a response goes to the command's token. `Server::run` takes the
same mutex twice per loop (100 ms): to call `run_once` of every conference and to
delete those marked idle. A conference links filters into graphs that tickers run;
adding a sink calls the publisher of a source, a stream or a mix while its ticker
may be inside `process`. Adding a video stream detaches the mixer from its ticker,
but not the mixer's worker, which goes on drawing.

What is hard here:
 * steps of the ticker between two critical sections of the control thread
   (publisher), and of commands between the two halves of `Server::run`;
 * flags, events and pointers shared without a mutex (`has_pending_`, `x264_`,
   `evt_req_`, `evt_res_`);
 * silence timeouts that race queued RTCP and late passes;
 * lists kept by different classes that must agree; array scans that rely on an
   end mark; objects deleted from two places;
 * tokens that must be answered exactly once;
 * pins and channels that one class hands out, another links and a third counts;
 * an agent looked up under a mutex and used after it, while it is being deleted.

`PROJECT.json` lists every component and, under `hazards`, each of these at its
line with the properties that watch it.

## 2. Modules and the code

`Publisher` - `zonekey.publisher.cpp`. `rtp_sessions_` is the function `sending`
(occurrences of each session), `pendings_` a set; `ports` and `arrived` are what
`TryRecv` knows and what the sockets hold. The control thread's removal is three
steps (`del_remote_sending`, `del_remote_pending`, `free_sink`, the destruction of
the Sink that owns the session), the ticker's pass `process_begin`,
`dispatch_all`, `chk_pendings`, one `TryRecv` per receiver, `try_recv_end`,
`erase_recved`, with `cs_pendings_` held from `chk_pendings` to the end. `life`
and `erased` are history.

`Conference` - one conference of either class, from creation to destruction. Each
command is an action named after its method; `Drop` is what `del_source`,
`del_stream` and `del_sink` do to `graphics_` and to the publishers' lists
(`watch`), `Destroy` the destructors, `run_once` and `reap` the two halves of
`Server::run`. `age` is the clock the code keeps (time since the last RTCP it has
read, or since the last sample of a stream's packet counter); `quiet`, history, is
the time since the client last sent: the timeout properties relate the two. oRTP reads
the RTCP of a source or stream whenever the ticker asks for a packet (`packet`), that of
a sink only when something is sent to the sink (`arrives`, `sendm`, `unread`). A client
that names a payload and a source that does not exist meets an assertion of `add_sink`:
`addSink_asserts` ends the process, and `addSink_fails` is what happens where assertions
are compiled away.
A Graph left in a vector after its deletion is freed memory, so what a later
comparison finds is a free choice (`Destroy`).

`Server` - the list of conferences, the licence, the tokens of commands and of
`reg_notify`, `run_once` and `reap` over all conferences. Of a conference only the
numbers of its sources and streams, `idle_` and its tokens are kept; when members
die and when 120 s have passed is a free choice here and worked out in
`Conference`. A command and its response are one step: the response is sent after
the mutex is released, but nothing in between touches it. Commands that change
nothing the server looks at are `other_command`; those that take no mutex are
`query`. `fc.list_sources` with a source never returns and keeps the mutex (its
loop also fills memory; either way there is no response): variable `stuck`, and `spins`
is what the system does from then on. Assertions inside a conference are left to
`Conference`.

`VideoMixer` - `zk.video.mixer.cpp`, `InputSource.cpp` and the parts of
`DirectorConference` that drive them. Control thread: `add_video_stream`, `employ`,
`get_channel`, `get_encoder`, `req_returns`, `resume_video`; `del_video_stream`,
`free_channel`, `resume_video`; `set_zorder` and `encoder`, which wait for the
worker; `uninit`, `join`. Worker: `start`, `has_req`, `serve`, `reply` (two steps,
one per event), `one_step`, `push`, `pending`, `finish`. Ticker: `channel_process` (with `save_pic`),
`drain`, `clear`. `zorder_` is the array itself, its end mark included, and `up`,
`down`, `top`, `bottom`, `Push`, `Remove` give what the loops compute. A picture is
the stream it shows; `fifo_` is whether it holds a frame. `served` is history.
`DrawingOrder` is what z-orders promise, a sequence of windows in which a command
moves only its own; `Order` in `VideoMixer` maps the array to it (`Drawn`).

`Director` - the pins and windows of `DirectorConference.cpp` and the audio mixer
filter `audiomixer.c`. A command holds `cs_conferences_` and detaches the audio mixer
from its ticker, and a tick runs to its end, so both are one step.
`add_audio_stream` takes the first pin without an output (`FreePin`), links the
decoder, which `ms_filter_link` may refuse (`link_input`), and a sender if the stream
has one; `resume_audio` attaches the mixer, or ends the process when nothing is linked
to it. `mixer_process` is one tick: each linked pin reads a block from its bufferizer
(`channel_process_in`) and purges it (`Left`). A block is represented by its speaker;
`channel_process_out` computes a sample for any assignment of samples to speakers.
Video: `add_video_stream`, `del_video_stream`, `sp_v_desc`, which takes any stream's
number for a channel, and `vs_exchange_position`. Windows are cells of the default
grid or places a client chooses. The threads of the video mixer stay in `VideoMixer`.
`refused`, `asked`, `displaced` and `turns` are history.

`UserAgent` - `zkxmpp_ua.cpp`: one agent, the thread of the application and the thread
of libstrophe. Each critical section is one step: `login`, `register_conn`; `logout`,
`clear_conn`; `delete`; `handler_add`, `send`; a callback is its `lookup` under
`_mutex_4_conn` and then `on_connect`, `cb_stanza`, or `erase_iter` and
`on_disconnect`. Using a deleted agent and erasing a stale iterator are undefined:
the first is a crash, the second may be one. A query makes its id from the jid of `conn`,
which it reads without a mutex, and an iq that no handler takes is refused through `conn`:
both are a crash when `conn` is NULL by then. A crash in a callback is "crashed", one in
the application's thread "failed". `raced` and `overtaken` record the two interleavings
that the code does not exclude. An application whose connection is lost may go on for a
while before it takes that in.

`TokenService` - what the server promises the XMPP library: a token is handed over
once and responded to at most once, and only while it is owed. `Server` implements it
(`ServesTokens`): a token is owed while its request is sent, queried or held.

`ConferenceLife` - what `Server` and `Conference` rely on of each other: the life of one
conference as far as both see it, that is its counts of sources and streams, `idle_`, the
two halves of `Server::run`, and the end of the process. `Conference` implements it with
objects and timeouts (`LivesAsServed`), `Server` for each cid (`ConferencesLive`); so the
free choices of `Server` allow what a conference really does, and `Conference` is given
the steps that `Server` takes.

`ChannelPool` - places handed out to streams: the first free one, one each, kept until
the stream goes. `VideoMixer` implements it although get_channel and free_channel run
beside the worker and the ticker (`HandsOutChannels`); `Director`, in whose steps a whole
command is atomic, implements the same (`HandsOutPins`), for channels and audio outputs.
That is why `Director` may treat a channel as taken and freed in one step.

External, and marked so in the map: the client's commands and datagrams, libstrophe's
connections and stanzas, and the clock. The XMPP library and the tickers of
mediastreamer2 appear as the code uses them: a token is answered once, detaching a filter
waits for the pass under way. Of oRTP only when it reads RTCP is modelled.

Definitions whose comment describes a defect (`..._unchecked`, `..._no_reset`, and
so on) stand before the definition they vary. They are alternatives a mistake in
the code would give, used to see that a property notices it; no specification
uses them.

## 3. What is checked

| run | instance | shows |
|---|---|---|
| `publisher` | 2 sessions, bursts of up to 2 packets; 19,936 states | no receiver is sent to twice (`SentOnce`), forgotten (`NoLostReceiver`), put back after its removal from the sending list (`RemovedSenderStaysOut`), dropped by somebody else's removal (`LeavesOnlyByRemoval`); sockets of freed sessions are not read (`PeekOnlyLive`); a receiver heard on both ports is promoted if the source keeps sending (`EventuallyPromoted`) |
| `publisher_removal` | 1 session | violated: a removed receiver may stay in the sending list |
| `conference` | 1 source, 1 stream, 1 sink, both classes; 207,257 states | the lists agree (`Inductive`: sources and Graphs, sinks and publishers); publishers feed live sinks, each sink once (`WatchersLive`); Graphs deleted once (`GraphDeletedOnceByDirector`); nobody is timed out unless its client is silent or, of a sink, its RTCP lies unread (`DeathOnlyAfterSilence`), and nobody is kept of whom nothing is read any more (`SilentRemoved`); the reaper spares what the last pass saw (`ReapSparesSeen`) and frees what stays empty (`EmptyReaped`); the server's view of a conference holds (`LivesAsServed`) |
| `conference_reap` | the same, `Timeout` 1 | violated: a source added between `run_once` and the reaper is deleted |
| `server` | 4 commands, 2 conferences at a time, 3 in all, 1 source and 1 stream each; 5,704 states | the licence (in `Inductive`), each token answered once or kept by one live conference (`TokensKept`), the abstract token service implemented (`ServesTokens`), with handlers that never return included |
| `server_list` | 3 commands, 1 conference | violated: `fc.list_sources` never returns |
| `video_mixer` | 4 streams for 3 places, 4 channels, operations up, down, top, streams symmetric; 207,252 states | `zorder_` lists exactly the employed channels (`ZOrderExact`) and implements the abstract drawing order (`DrawsInOrder`); channels are handed out as `ChannelPool` says (`HandsOutChannels`); no picture of a channel's former user is drawn (`NoStaleFrame`); the encoder exists whenever it is used (`EncoderReady`); the assertion on a free channel holds (`FreePinFound`); `req` returns only on its own answer (`ServedBeforeReturn`) |
| `video_mixer_live` | 2 streams and channels, all operations; 36,300 states | every request is answered (`RequestAnswered`); frames do not get stuck although `has_pending_` is unprotected (`FrameSent`) |
| `video_mixer_bottom` | 3 streams, all operations | violated: `bottom` loses a stream |
| `director` | 3 audio and 2 video streams, at most 3 live, 3 pins, bursts of up to 2 blocks, `purgeoffset` 1 block; streams symmetric; 156,277 states | counter, pins, links and channels agree (`Inductive`); the assertion on a free pin holds (`FreeAudioPin`); a stream loses its input only to a stream without a sender (`RefusedByPublisher`), and the process ends only when all have (`AbortedOnlyUnlinked`); each output is the clipped sum of the others for every sample (`MixMinus`); a departed stream is heard under the next of its pin for at most `purgeoffset` (`DepartedSoonSilent`); windows are the ones asked for (`WindowAsAsked`) |
| `director_attach` | 2 audio streams and 1 video stream | violated: the mixer is attached with no source around it |
| `user_agent` | 2 logins, 1 query, 1 command, 2 replies each; 74,298 states | a query's handler runs once and is known before its reply (`AnsweredOnce`); only a logout in the middle of a callback, or a login in the middle of a disconnect event, can make a callback use what is gone, and only such a login or a lost connection the application (`CrashOnlyRaced`); only such a login loses the session (`SessionAgrees`); a login hears of its connect unless that comes before its registration (`ConnectTold`) |

Bounds. Two sessions let one be promoted while the other is removed; sessions
interact in no other way. A conference with one object of each kind has every
pair of lists that must agree; objects of one kind do not interact (`Drop` and
`run_once` treat each alone). The code tests only whether a clock is past its
limit, so `Timeout` 0 with `IdleTime` 1 has every combination of fresh and expired
clocks, because clocks restart at different times; the invariants were also
checked with 1 and 2 (1,080,895 states), and the proofs hold for every value. Four
commands suffice for create, add or register, delete, and one command more. Three
streams in the drawing order are the fewest for which moving one can disturb the
order of two others; the fourth meets the limit `MAX_STREAMS`, and as in the code
there are more channels than streams. In `Director` three audio streams are the fewest
of which one is refused behind another while a third goes on; the limit `MAX_STREAMS`
of nine pins is three here, and every pin can be taken. `PurgeOffset` (8 blocks in the
code) of one with bursts of two has both a block left over and a purge; `MaxSample` 1
already leaves the range of a sample when two speakers agree; one place besides the
grid tells a chosen window from a default one. In `UserAgent` a second login is what
meets the events of the first, and a second reply what meets an erased handler.
`MaxId`, `MaxMembers`, `MaxBurst`, `MaxLive` and `MaxReplies` bound counters.

Operation `bottom` is left out of run `video_mixer`: it breaks `zorder_` (below),
and lists broken once go on to break every property of the order. With two streams
`bottom` is right, so the liveness run has it.

Fairness. `Server::run` and the mixer's worker loop for ever, the tickers too once
they run a filter, time passes, and every mutex is released after bounded work (but in
`fc.list_sources`): weak fairness of these steps and of the rest of a command that has
begun. No client has to send a command, a datagram or a packet, and no source has to send:
`process_begin`, `packet`, `arrives`, `sendm`, `send` and the commands have none, and
`EventuallyPromoted`, `SilentRemoved`, `EmptyReaped`, `FrameSent` state what they
assume of clients in the formula. In `Server` a command that was sent is handled
(the XMPP thread blocks only on `cs_conferences_`). In `UserAgent` the libstrophe
thread goes on with a callback it has begun, and every attempt to connect ends in a
connect or disconnect event; the application and the server have no fairness.

Deadlock is checked in `conference`, `server`, `director`, `user_agent` and the runs of
`video_mixer`; a publisher may stop when it is destroyed and its sinks are gone. An
ended process, a deleted agent and a handler that loops for ever stutter explicitly
(`Aborted`, `Stopped`, `spins`).

## 4. Disagreements found

1. `zonekey.publisher.cpp:83` - `del_remote` looks in the sending list, then in the
   pending list. If the ticker promotes the receiver in between, it is found in
   neither, its session is freed and packets are still sent through it.
2. `Server.cpp:69` - `idle_` is set under one hold of the mutex and used under the
   next; a source added in between is deleted with the conference.
3. `Server.cpp:436` - the loop of `fc.list_sources` advances the wrong iterator.
4. `zk.video.mixer.cpp:439` - `bottom` copies the array forwards over itself:
   [0,1,2] with 2 to the bottom gives [2,0,0]. Stream 1 is no longer drawn, and
   freeing its channel then takes nothing out of the list.
5. `DirectorConference.cpp:136` - the pin of a stream added with a publisher and no
   sender looks free, so the next stream gets the same pin and its decoder is not
   linked. When the first is deleted one stream is counted, none is linked, and
   attaching the mixer is fatal (`msticker.c:149`).

Noted without a run:

* `FreeConference.cpp:15`: the destructor deletes the Graphs without clearing
  `graphics_`, and `del_source` then looks at them again (`GraphsLeft` models it;
  `GraphDeletedOnceByDirector` leaves the case out).
* `rtpsession.c:916`: a sink that waits for its promotion, whose source has gone or sends
  nothing, is removed after 60 s although its client sends RTCP all the time; the comment
  at `Sink.cpp:47` speaks of a minute without the other side's RTCP.
  `DeathOnlyAfterSilence` names this case, and says that there is no other.
* `DirectorConference.cpp:188`: `addSink` with an explicit payload does not look for its
  source, and `add_sink` asserts that it exists (`addSink_asserts`).
* `Server.cpp:804`: tokens of `reg_notify` are answered only when the conference ends,
  where `Server.h:57` promises an answer at every change. `Server` shows it: no action
  but `Delete` responds to a held token.
* A stream's packet counter is sampled once per 60 s, so a stream may be silent for
  almost 120 s before it is removed (the comment at `Stream.cpp:341` speaks of 60 s).
* `dc.add_stream` on a free conference reaches an assertion. A speex stream with a
  publisher calls methods of the encoder it has not created (`SpeexStream.cpp:14`).
* `zkxmpp_ua.cpp`: a logout between a callback's lookup and its end lets the callback
  use an agent that the application then deletes, or erase an iterator twice; a login
  that overtakes a disconnect event has its connection cleared, and may enter NULL in
  `_conn_map`. `CrashOnlyRaced` and `SessionAgrees` say that nothing else does.
  `xmpp_ua_get_unique_string` (264) reads the jid of `conn` without the mutex or a check,
  so a query after the connection was lost ends the process; so does the error reply of
  `_cb_iq` (238) when `conn` is NULL. A connection that comes up between lines 506 and
  509 of the login finds no entry: its connect event is dropped, no stanza handler is
  added and the application is never told (`ConnectTold` names the case).
  `mse_map` is never emptied (line 384), handler lists keep a dangling tail after the
  removal of their last element (467), and line 595 releases the wrong mutex.
* `zksignal.cpp:517` returns with the mutex held; 519-524 free a source that stays
  linked.

## 5. What is proved

Eight modules prove, for all constants that satisfy the named assumptions of the
modules, `Spec => []Inductive` and from it the safety invariants and action properties
listed under `theorems` in `PROJECT.json`. None of the invariants is inductive by
itself.

* `PublisherProofs`: `SentOnce` alone does not survive a promotion, because `TryRecv`
  pushes without looking. `Inductive` says where a session is at every point of
  both threads: a session that waits and has not been visited in this pass is not
  in the sending list; one visited with both ports known is, unless its removal has
  begun; a live one that is neither waiting nor being removed is there once
  (`SessionInv`); and one that `del_remote` took out can only wait if the pass
  under way will erase it (`ErasedInv`). No assumption on the number of sessions.
* `ConferenceProofs`: `Inductive` adds to types and list agreement that the code's
  clock of an object of which nothing waits, in its queue or unread in its socket, never
  runs ahead of its client's silence, from which
  `DeathOnlyAfterSilence` follows for every `Timeout`; that `idle_` is set only
  between the pass that saw nothing and the reaper (`ReapSparesSeen`); and that a
  sink on a mix is of the mix's medium, without which `del_sink` would miss it.
  Lemmas `DropLists` and `DestroyStep` carry the two operations that touch every
  list. `LivesAsServedHolds` is the refinement of `ConferenceLife`. It counts objects,
  so it carries the further invariant that finitely many are up (`Counted`), which
  holds for infinite sets of ids too; `EnterCounts`, `DeleteCounts` and
  `DestroyCounts` say what each command does to the counts.
* `ServerProofs`: only listed conferences hold tokens, members or `idle_`, cids have
  been handed out in order, and a handler that never returns has not answered.
  `CapStep` and `DeleteStep` are the facts about cardinality and about the tokens of
  deleted conferences; they cite `FiniteSetTheorems`. `ServesTokensHolds` proves the
  refinement: lemma `RespondServes` for the steps that respond, `StepServes` for all,
  using `TokensKept` to show that only owed tokens are responded to.
  `ConferencesLiveHolds` does the same for `ConferenceLife`, once per cid: `Inductive`
  gives that cids below `next_id_` which are not listed are gone and that only listed
  conferences are idle, and `DeleteLives` that a deletion concerns only its own.
* `VideoMixerProofs`: a request is in exactly one place. `HandshakeInv` relates what
  the control thread waits for to the two events and to the worker's place: signalled,
  being served, answered and not yet signalled, or answered; `WorkerInv` says when the
  encoder exists; `ChannelInv` that a cache shows its channel's user, that
  `video_stream_cnt_` counts the employed channels, give or take the command under
  way, and hence that one is free below `MAX_STREAMS`. `HandsOutChannelsHolds` is the
  refinement of `ChannelPool`; it needs `PoolInv`, that an employed channel has its
  stream and that the stream about to get a channel has none.
* `ZOrderProofs`: if "bottom" is not used, `zorder_` lists the employed channels, each
  once, up to its end mark. The scans of the code are `CHOOSE`s; `PosFinds` and
  `UsedFinds` say what they find in a list of that shape and `PushLists`,
  `RemoveLists`, `SwapLists`, `TopLists` that each operation gives such a list again.
  `DrawsInOrderHolds`, under the same hypothesis, is the refinement of `DrawingOrder`:
  `PushDraws`, `RemoveDraws`, `SwapDraws` and `TopDraws` say which sequence of windows
  each operation on the array leaves, and `StepDraws` joins them.
* `DirectorProofs`: `PinsInv` says which stream an output and an input belong to,
  `refused` included, without which unlinking could free a pin that is in use.
  `FreeAudioPin` is a pigeonhole: were every output taken, the counter would be at
  least the number of pins. `DepartedSoonSilent` needs `BufInv`: what a pin holds of a
  stream no longer linked to it lies within the first `PurgeOffset` blocks, less one for
  every tick since the next stream came (`ResumeBuf`, `LeftShift` and `TickBuf`), for every
  `PurgeOffset` and burst. `WindowAsAsked` needs `ChannelsInv`. `HandsOutPinsHolds` is the
  refinement of `ChannelPool`. `MixInv`, that the pins in the sum are those whose input
  is not silent, and that these are linked, is there for the next module.
* `MixProofs`: `MixMinusHolds` and `SumFitsHolds`, for every number of pins and every
  sample. The sum over a set of pins (`Total`) is a fold, a recursive function that the
  library leaves to `CHOOSE`. `SumsExist` and `SumsUnique` show that there is one such
  function on the subsets of a finite set; `TotalFirst` and `TotalRemove`, that taking
  one pin's contribution out of the sum gives the sum of the others, whichever pin the
  fold would have taken first; `TotalBounded`, how large it gets. Each is an induction
  over finite sets, done as the smallest counterexample (`SmallestSet`): strict inclusion
  is well founded, so of the sets for which a statement fails there is a least one, and
  it has an element to remove. Samples range over the whole of int16, -32768 included,
  which `saturate` itself never returns. `SumFits` is stated here only: that the sum
  of 32 bits cannot overflow depends on the size of the numbers and not on the
  interleaving.
* `UserAgentProofs`: `RequestsInv` says where an id is; `SessionInv`, as long as no
  login has overtaken a disconnect, which connection `_conn_map`, `conn` and a callback
  under way may hold, given where the application is. From it follow `CrashOnlyRaced`
  and `SessionAgrees`, for every number of connections, requests and replies.

The refinements `ServesTokens`, `DrawsInOrder`, `LivesAsServed` and `HandsOutChannels` are
proved for all constants and checked by a run. `HandsOutPins`, `ConferencesLive` and
`SumFits` are proved only; TLC agrees with the first two on the instances of the runs
(with `ConferencesLive` one cid at a time).

Only model-checked: the liveness properties `EventuallyPromoted`, `SilentRemoved`,
`EmptyReaped`, `RequestAnswered`, `FrameSent` and `ConnectTold`, and the violated ones.
The prover has no rule for fairness and `ENABLED`. Every invariant and every action
property of a passing run has a theorem.

## 6. Not modelled

* The signalling client (`zk_signal`): every function builds or decodes one stanza and
  hands it to the user agent, which is modelled; of its own it has one list behind one
  mutex. Its defects (section 4) show in a single call.
* Within the user agent: the lists of persistent handlers (set up before login),
  `get_userdata`, the escaping of options.
* Codec choice per payload, logging, option parsing and `main` (no state of their
  own); the client helpers and ActiveX controls, camera, display, recording and codec
  filters (device and file I/O); the SOAP service and its generated code; the earlier
  servers (`ZonekeyMCU`, `AudioConferenceServer`, `VideoConferenceServer`), which
  `zonekey_mcu` replaces.
* mediastreamer2, oRTP, gSOAP, Detours, the bundled codecs and `nowebcam.c` are other
  projects' code or generated; they make up most of the repository's lines. What the
  server relies on (linking and unlinking filters, attaching them to a ticker) is
  modelled where it is used.
* Within modelled parts: `waitEvent` and `chkCastNotify` (nothing calls them), the
  wrap-around of ids after more than 10^9 creations, statistics, pixels, the gain and
  activity of audio channels (nothing sets them).

## 7. Plan

Done: `Publisher`, `Conference`, `Server`, `VideoMixer`, `Director`, `UserAgent`, the
abstract `TokenService`, `DrawingOrder`, `ConferenceLife` and `ChannelPool`, and the
proofs of section 5.

1. `UserAgent` implementing an abstract session: what an application may expect between
   its login and its logout.
2. `Publisher` implementing an abstract set of receivers, up to the promotion that
   `publisher_removal` shows.
3. The lists of persistent handlers in `UserAgent`, and `zk_signal` on top of it.
