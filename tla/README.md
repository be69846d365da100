# NeoTorrent in TLA+

A model of NeoTorrent (`src/`): a macOS app in Swift that adds, shows and controls torrents, a Rust core that wraps
librqbit and fetches metadata over WebRTC, the FFI between the two, and the scripts that release the app. The modules
are checked with TLC on small instances; the most important of them are proved about with TLAPS.

Paths: `App/` is `src/apps/NeoTorrent/NeoTorrent/`, `core/` is `src/crates/neotorrent-core/src/`, `ffi` is
`src/crates/neotorrent-ffi/src/lib.rs`.

## 1. Inventory

| component | state | operations | what is hard | what makes it correct |
|---|---|---|---|---|
| `SessionHolder` (`App/NeoTorrentApp.swift`) | session, pre-start queue, pending entries, saved URIs | start, retry, add, cancel, resume at launch, reconcile with polls | every `await` lets another main-actor job in; the process may die anywhere | the saved list is what is being added; a cancel leaves nothing and removes nothing else; one add per magnet |
| FFI (`ffi`) | abort handle per add | add_torrent, cancel_add, remove, pause, ... | spawn and registration are two steps; abort lands at an await | a cancelled call returns and its torrent is removed |
| `Session` (`core/session.rs`) | librqbit's table, next id | add (check, list, insert), remove, pause, resume, files, select, rate limits, shutdown | concurrent adds of one torrent; ids across restarts | an id denotes one torrent |
| `TorrentStore` (`App/TorrentStore.swift`) | rows, refresh generation, removing, notified, ratio-paused, sleep assertion, badge | refresh, apply, pause, resume, remove, notify, enforce ratio | refreshes overlap; lists are stale when applied | rows converge to the engine; each completion is announced once; ratio pause once |
| file selection (same file) | files shown | setFile | a change is computed from what was shown last | the engine downloads what the user chose |
| playback (same file) | playing row, player process | toggle, remove, quit, termination handler | a replaced player ends late | one player, and its row tells the truth |
| `PosterStore` (`App/NeoTorrentApp.swift`) | images, in flight, attempts | wantsPoster, ensure, generate, remove | frames are made while refreshes and removals go on | one frame at a time, nothing left of a removed torrent |
| engine (`core/engine.rs`) | offer pool, answer slots, tracker and peer tasks, result and cancel channels | fetch_from, run_tracker, run_peer | bounded channels in both directions, tasks that are cancelled, aborted or dropped | nothing outlives the fetch; "exhausted" is true |
| tracker client (`core/tracker.rs`) | WebSocket task, command and event channels | connect, announce, answer, shutdown, receive; JSON with binary strings | the task is detached; ids are bytes in a text | it ends with its owner; a signal arrives as it was sent |
| peers (`core/peer.rs`) | connection, data channel, chunks | offer, answer, open with timeout, recv, close | close against data still in the channel | close comes last |
| wire protocol (`core/wire.rs`) | decoder buffer | handshake, encode, decode, pop | frames cut into any chunks; lengths written apart from what they measure | what is said is heard, in order, none lost or left in the buffer |
| metadata exchange (`core/extension.rs`) | assembler: size, pieces | encode, decode, start, record, verdict, path checks | peer repeats itself, lies about sizes; data right behind a header; names that are paths | arithmetic in range, an honest peer delivers, files stay in their folder |
| bencode (`core/bencode.rs`) | index, depth | value_end | lengths that overflow, nesting | agrees with the grammar |
| magnet links (`core/magnet.rs`) | link | parse, Display, ws_trackers | base32 across byte boundaries | a link means one hash |
| `Preferences` (`App/SettingsView.swift`) | rates, ratio, folder, switches | observers that clamp, store and apply | an observer that sets what it observes | the engine has the rates shown |
| `AppDelegate` | - | quit, reopen | shutdown against a timer | quitting is answered, no player is left |
| `notarize.sh` | elapsed time, failures, status | submit, poll, verdict | failed polls, late answers | exit code 0 means accepted, in bounded time |
| release scripts and workflow | tags, releases, disk images | build, sign, publish | re-runs after a partial failure | what is published is what was notarized |
| views, formatting, default-app helper, bindings generator | - | rendering, one-off calls | nothing | - |

Interactions. The views call `SessionHolder` and `TorrentStore` on the main actor. `SessionHolder.add` awaits the FFI,
which spawns a task of `Session::add` on the Rust runtime. The poll loop of `TorrentStore` lists the engine off the main
actor, publishes on it, reconciles the pending entries of `SessionHolder` and asks `PosterStore` for posters. The
metadata engine is a library of the core: one fetch owns its tracker tasks, which own their peer tasks; each tracker
task talks to a WebSocket task through two bounded channels. `PROJECT.json` lists, under `hazards`, each place where
these interactions can go wrong and the properties that cover it.

## 2. Modules

| module | models | composed with |
|---|---|---|
| `CoreSession` | librqbit's table as `Session::add`, `remove` and a restart change it, and the tokio task of each add, from await to await | extended by `AddTorrent` |
| `Adding` | what adding promises a user: requests, the torrents they brought, what the next launch takes up; no engine, FFI, ids or polls | implemented by `AddTorrent` (`KeepsPromise`) |
| `AddTorrent` | SessionHolder's adds, the FFI's handles, polls as far as they reconcile, removals, crash and restart; the inductive invariants | `MCAddTorrent`, `AddTorrent_proofs` |
| `TorrentStore` | one torrent in the engine (environment), the overlapping refreshes, the user's requests | `MCTorrentStore`, `TorrentStore_proofs` |
| `FileSelection`, `Playback`, `TorrentRow` | a row's file choice; the player process; `TorrentRow` runs both, a row being playable by the selection shown, until the program is asked to quit and has | `MCTorrentRow`, `TorrentRow_proofs` |
| `Posters` | wanting, making, failing, cooling down, caching and deleting one poster | `MCPosters`, `TorrentRow_proofs` |
| `MetadataFetch` | fetch_from, run_tracker, the WebSocket task and the peer tasks | `MCMetadataFetch`, `MetadataFetch_proofs` |
| `InOrderDelivery`, `PeerStream` | what run_peer is promised; the data channel, buffer and decoder that implement it | `MCPeerStream`, `Peer_proofs` |
| `MetadataExchange` | run_peer's main loop over that promise, with the assembler, against any peer or an honest one | `MCMetadataExchange`, `Peer_proofs` |
| `Bencode`, `UtMetadata` | value_end against a grammar; decode_bounded and the ut_metadata messages that rely on it | `Inputs`, `MCInputs` |
| `Magnet` | MagnetLink::parse, Display and resolve_trackers against what a link denotes | `Inputs`, `MCInputs`, `Inputs_proofs` |
| `Wire` | handshake and messages, byte for byte, from one peer to another, or from a stranger | `Inputs`, `MCInputs`, `Inputs_proofs` |
| `Signaling` | announces, offers and answers as text, through a tracker or made up by one, and parse_event | `Inputs`, `MCInputs`, `Inputs_proofs` |
| `InfoPaths` | the checks of InfoDict::parse against where a joined path leads | `Inputs`, `MCInputs`, `Inputs_proofs` |
| `Preferences` | numbers in the settings: observers, defaults, and the limits of the engine | `Inputs`, `MCInputs`, `Inputs_proofs` |
| `Notarize`, `Release` | notarize.sh against a service that may never decide; `Release` runs it from the jobs of release.yml, each step of which may fail and be run again | `MCRelease`, `Release_proofs` |

`Inputs` holds the readers of what others hand over. They share nothing, so that it runs one of them at a time.
`FoldFacts` holds what `Inputs_proofs` needs to know of the folds that the readers are written with.

State keeps the names of the code (`pendingAdds`, `removingIDs`, `offer_pool` as `offerPool`, ...). One action is what
the code does between two suspension points: a job of the main actor between two `await`s, a task of tokio from await
to await, an iteration of the script. Variables marked "history" in their declaration are read by properties only.
`PROJECT.json` maps each definition to its lines. Operators called "Mutant of X" are plausible bugs: put in the place of
X, they must break the property they are listed with.

The data channel is split off from the exchange at the promise `InOrderDelivery`: `PeerStream` implements it for every
way of cutting the stream, and `MetadataExchange` takes messages one by one, in order. `MetadataFetch` in turn treats a
whole exchange as a peer task that delivers or fails.

### What is assumed of others

- librqbit inserts a torrent and answers in one step, refuses a second torrent with the same hash, and writes
  session.json with every change of its table. UserDefaults is durable when written. Swift Tasks run in no fixed order.
- Tokio: an abort is seen at the next await or not at all if the task ends first; dropping a JoinSet aborts its tasks;
  `timeout` polls the future before the timer; `recv` of an mpsc channel is None when the channel is empty and every
  sender was dropped, and dropping the receiver drops what is in it.
- A data channel is ordered and reliable; its close callback comes after the pending message callback. form_urlencoded
  and serde decode what they should.
- A torrent in error reports itself unfinished; a check reports "initializing".
- The process may die between any two steps (`Crash`, `Restart`); a quit is no more orderly than that for the adds.
- From the request to quit (`.terminateLater`) to the reply, AppKit runs its modal loop: tasks go on, rows take no clicks.
  The reply ends the process; a second one comes too late to matter.
- A tracker passes an offer or an answer on as it is. serde_json writes and reads the same text; what is left out is
  read as None.
- GitHub Actions keeps the artifacts of the jobs that are not run again. `gh release upload` looks at the names of all
  assets before it uploads the first; assets arrive in either order.

## 3. Runs

`tlc -config X.cfg M` with the modules below. Times are on two workers.

| run | module | instance | shows |
|---|---|---|---|
| `adds` | `MCAddTorrent` | two calls, one torrent as magnet and as URL, two launches | `DiskMatchesPending`, `IdsUnambiguous`, `UndoOnlyOwn`, `NoOrphan`; and that all of it implements `Adding` |
| `adds_live` | `MCAddTorrent` | two calls of one magnet, one launch, fair | `CancelledIsUndone`, `ResolvedLeavesPending` |
| `adds_resume_unsaved` | `MCAddTorrent` | two saved URIs, restart | `ResumedStaysSaved` is violated (section 6) |
| `store` | `MCTorrentStore` | one torrent, two refreshes at once, one request, fair | rows are never older than what was shown, removals stay hidden, rows, badge and sleep assertion converge, completions are announced once each, a torrent past the seed ratio stops seeding unless the engine refuses its pause |
| `fetch_shared` | `MCMetadataFetch` | two trackers, one of our offers, one of a peer, event channels of two | an offer makes one peer, peers outlive their tracker, "exhausted" is only said when every connection is over and all that came was looked at, `stopped` is lost in one way only |
| `fetch_live` | `MCMetadataFetch` | one tracker, three peers' offers, one slot, channels of one, fair | nothing outlives the fetch; answers go out |
| `stream` | `MCPeerStream` | four frames: empty, unknown, at the limit and perhaps malformed, over the limit | implements `InOrderDelivery`; nothing complete waits and a close comes last; failures have a cause |
| `exchange` | `MCMetadataExchange` | pieces of 3 bytes, 7 bytes to fetch, five sizes, five messages, a window of two | arithmetic in range, nothing is forgotten, progress is kept, an honest peer delivers |
| `row` | `MCTorrentRow` | two files, another torrent, clicks, three players, a quit at any time, fair | the selection is the wanted one; no stray player; ends are noticed; quitting is answered |
| `posters` | `MCPosters` | one torrent, three attempts, restarts at any time, fair | one frame at a time; a removed torrent leaves none but in the races named in section 6; a torrent that stays gets one and keeps it, or uses its attempts up |
| `inputs` | `MCInputs` | buffers of six bytes, headers with two bytes behind them; info hashes and ids of three bytes; four parameters; two messages, one stranger's frame; two files of two components between them; rates on both sides of every bound | each reader understands what it is given, and no more (section 2) |
| `release` | `MCRelease` | two workflow runs, two images, timeout 2, two failures | decisions are heard, time is bounded, what is published was accepted and has its own checksum |

### Bounds, and why they are enough

- Adds: every race of the code is between two calls (the duplicate check, the id counter, the compensation); two calls
  of one torrent, one by magnet and one by a URL whose hash is known late, give all of them, and two launches give
  resumed and crashed ones. `adds_resume_unsaved` needs four calls. The proofs cover any number.
- Store, posters, files: the code treats torrents one by one. One id is never reused in a launch (`IdsUnambiguous`).
  Two refreshes in flight are the poll loop's and one of `perform`; a third would be stale twice over. The store run
  allows one request of the user at any moment; the engine may change the torrent at will.
- Fetch: the trackers share the offer pool and the slots, for which two are enough. There an event channel holds two, so
  that a connection can be over with an answer or an offer still unread before the end of it; deadlock needs one tracker
  and full channels, so in `fetch_live` the capacities are one. Real ones (32, 64, 4 slots) only make waiting rarer.
- Stream: lengths are scaled (handshake 5, limit 3, prefix as it is); chunks of any size up to 9 cut everywhere,
  inside prefix, body and handshake, or hold several frames. The proof covers all lengths.
- Exchange: sizes of no piece, one short piece, whole pieces, the true size with its short last piece, and one over the
  limit. Indices a peer may send go beyond the last piece.
- Inputs: base 3, depth 2 and a usize of 9 bring overflow, the limit of depth and every mismatch of length within six
  bytes; a header may have 11 bytes, one less than the longest one of a known type, so that the limit itself refuses.
  Digits of 3 bits against bytes of 4 straddle bytes as 5 against 8 do; all texts of both lengths are tried. A byte has
  22 values, so that every message id is one and half of the characters take two bytes; words of two bytes are zero, of
  one byte or of both. Two messages show whether the first takes too much or too little; a stranger's frame is too
  short, just long enough and too long for every kind. A name and two components, of one file or of two, go up, stay,
  and go to the root in every place; two files meet if any do.
- Release: races over the assets are between two runs; two images are what two runs, or a run and its repetition, make.
  The timeout may pass while a call is under way, and failures fall on either side of it. `Release_proofs` covers all
  other values and numbers of runs; `notarize_ends.cfg` (module `Notarize`) shows that the script ends.

### Fairness, and what justifies it

- Adds: FFI futures, main-actor continuations, the engine's deletions and the poll loop go on; resolving metadata, the
  engine's start and the user do not have to.
- Store: refreshes and engine calls end; what the engine does by itself and what the user asks is free.
- Fetch: tasks run, the connection timeout (20 s) and the shutdown grace pass. Not the network, and not the overall
  timeout, so that nothing holds only because everything is given up in the end. The grace timer is needed: a cancelled
  tracker task may wait for room in the command channel while the WebSocket task waits for room in the event channel
  that nobody reads any more, and only the end of the grace resolves that.
- Exchange: run_peer goes on, and the honest peer serves what it was asked for. Nothing is assumed of other peers.
- Row: a report that is due reaches the main actor; a player told to terminate does; a timer fires. The engine's
  shutdown need never return.
- Posters: refreshes go on, once a second. `ApplyRefresh` is strongly fair: a refresh takes far less than the second
  until the next, so not every one is overtaken. A restart may come at any time; `PosterSettles` asks for the time
  after the last one.
- Inputs and Release state safety only. `notarize_ends.cfg`: the script goes on; the service need not decide.

`CHECK_DEADLOCK FALSE` is given where the system may really stop: a bounded supply of calls, messages or requests is
used up and nothing is left to do. The other runs check for deadlock.

## 4. Proofs

TLAPS checks the following for every value of the constants that satisfies the named assumptions.

**`AddTorrent_proofs`** - type correctness; the saved list; no two entries of one magnet; ids denote one torrent; a
cancel leaves no orphan and removes only what its own call inserted. None of these is inductive alone: that a removal
hits the right torrent needs to know who owns an id in every stage of a call. `IInv` adds: `NothingBeforeStart` (a
launch starts empty), `CallHasUri`, `CallHasTask` and `EntryHasCall` (main actor, FFI and task agree about a call),
`OwnerKnown` and `IdsOwned` (which call may have which torrent), `IdsBelowNext` and `PreferredFresh` (the counter is
ahead of every id in use, so an id handed out is new), `TorrentIdsUnique`. One step per action shows that each is kept.
Assumptions: a URI has one hash, sentinels are no values.

The same module proves that adding implements `Adding` (`KeepsPromise`): every step is one step of what the user was
promised, or not seen. Besides `IInv` the mapping needs that a call nobody cancelled has its entry (`CallHasEntry`),
that what is undone was cancelled, that a call inserts one torrent, that the saved list is this launch's once an add
has begun, and that an id a poll has seen is not handed out again (`SeenIsOld`: without it a torrent could arrive
already doomed). Together they are `PromiseInv`. `RequestsAre` then tells the states of a request apart by four facts
about its call, and one lemma per action that `Adding` can see names the step it takes.

**`TorrentStore_proofs`** - no row of a torrent being removed; one pause per ratio; rows never get older; no completion
announced that did not happen; for any number of torrents, refreshes in flight and requests. The invariant adds that
what a refresh holds is no newer than the engine and that the latest of them is no older than what is shown
(`NotBehind`), that an id not used yet is nowhere, that an automatic pause is remembered until the engine has let go of
the torrent (`PausedIsRemembered`), and that a removal the engine has answered removed something or was refused. For
the notices (`NoticesEarned`) only one list in flight counts, the latest refresh's: a refresh that starts has none yet.
Rows, that list and the engine are three looks at a torrent in the order of time, and wherever an earlier one has it
under way and a later one has it complete, a completion has not been announced yet. An announcement uses one up: it
takes a row under way and leaves it finished. Assumption (`IdAssumption`): the torrents are finitely many, so that the
badge can count them.

**`MetadataFetch_proofs`** - for any trackers, offers and capacities, in five invariants. `TypeInv`: the types,
channels within their capacity, every peer task owned by a tracker task. `LifeInv`: cancellation is the end of the
race; a tracker that has not served has no peers; a tracker that stops has seen the cancellation. From it follow that
peers survive their tracker and that a fetch that says "exhausted" has no task left. `HeardInv`: until the fetch is
called off, nothing a tracker said comes before our announce, `closed` is the last event of its connection, and a task
that is past serving has an empty event channel and no connection. So nothing was dropped unread, which together with
the end of all tasks is `ExhaustedIsTrue`. `OfferInv`: whatever can still make a peer of an offer - the pool for ours,
an event on its way for another's - finds the offer unused, and such an event is in one place only; so an offer is used
once. `CmdInv`: a client is handed `stopped`, then Shutdown, then nothing; so what leaves with `stopped` unwritten met
an event that nobody listened to. Assumption (`SourceAssumption`): offers have random ids, so that no offer of ours is
one of another's.

**`TorrentRow_proofs`** - `RowInv`. Files and players share a row and no variable. For the files the invariant
(`SelectionInv`) is about time: a user who waits has one change under way, and nothing that was read before it, shown
or still in flight, looks like what it asks for; so the row does not show it before the engine has it. librqbit is
never asked for an empty selection. For the players the properties are inductive with their types. The same module has
the posters of the rows (`PostersInv`): one frame at a time, attempts within their bound, and nothing left of a removed
torrent. For the last, a torrent that is gone must have no work under way either: no task, no refresh that found its
video (`Clean`).

**`Peer_proofs`** - of the data channel: type correctness; nothing complete is left in the buffer; a close is last; a
failure has its cause; and the refinement of `InOrderDelivery`. The invariant says that the chunks in the channel
continue what was received (`InChannel`), and that `at` stands at the beginning of a frame, with `out` being the known
frames before it (`Progress`). `LayoutAssumption` states that frames follow one another; that the starts increase is
induction over a set of numbers (`StartsIncrease`).

Of the exchange over that promise, for any size and piece length: the pieces tile the size, each byte in exactly one of
them and each of them of a length between 1 and the piece size, so the subtraction for the last one never wraps; a
piece that an honest peer has yet to give is owed or on its way; and progress is kept. The arithmetic is in
`PieceCount` and `PiecesCover`; the induction needs only that an honest peer says one size (`Polite`).

**`Inputs_proofs`** - what five of the readers understand, for texts, links, frames and names of every length:

- `SpeechIsHeard`: what is written with `encode` is read with `pop` as it was said, one message after the other, and
  of a stranger's frame as much as a message of its kind says. `PeerInv`: what was said is what was heard followed by
  what the stream still holds, each message in a frame of its own (`Spoke`). Under it lies, kind by kind, that the
  length in front of a body is the length of it, that a body is read as the message it was made of, and that a body is
  refused only when it is shorter than any message of its kind.
- `SignalsAreHeard`: an offer or an answer that a tracker passes on is heard with the ids and the SDP it was sent with.
  Under it lies that an id and its text, a character of one or two bytes for each of its bytes, determine each other.
- `LinksAreUnderstood`: a link that parses means the number its last info hash writes, in hex or in base32, its last
  name and all its trackers; a link written from that means the same; its trackers are asked once each. `LinkInv`: the
  variables hold what the parameters read so far mean. For base32 the accumulator keeps the bits that are not yet a
  byte: the bits that were read are those that were written and those in it.
- `NamesStayInside`: the files of a torrent that is accepted are below its folder, at different places if their paths
  are different, and a torrent is refused only for what is not a name. The proof follows a joined path component by
  component, and a component character by character.
- `RatesAreKept`: the engine has the rates shown, rounded down to whole bytes and raised to the smallest limit, through
  every edit and launch; it has no limit where none is shown, or less than a byte.

The readers are folds over sequences, and induction over data as the library states it takes a predicate as a
parameter, which the provers cannot instantiate. Here it is done over sets: the lengths at which a statement fails are
a set of numbers, which has no least element (`SetInduction`, from `NatsAreWellOrdered`). **`FoldFacts`** shows, for
any operator, that the recursive function behind a fold exists and that a fold of a sequence with one more element is
the operator's value at the fold of the sequence; it is instantiated once for each operator that is folded. The powers
of two that shifts and masks are made of come from the cardinality of a power set.

Assumptions, as the code justifies them. `InputAssumption`: the widths of digits and characters (a hash of 20 bytes is
40 digits of 4 bits or 32 characters of 5), an even number of values for a byte, and the order of the bounds on rates.
`LinkAssumption`: a link is a sequence of parameters. `SignalAssumption`: an id is an array of bytes, and what a tracker
says is a String, hence UTF-8. `WireAssumption`: the fields of a message are a u32, a u16 or a u8 each, the length of a
message fits its u32 and that of `PROTOCOL` its byte. `PathAssumption`: names are sequences of characters.

**`Release_proofs`** - of notarize.sh: type correctness; exit code 0 means accepted; an acceptance that was read is
never a failure; and the bound on the running time for all tunables: each turn past the timeout is paid for by one more
failure in a row, of which there are at most `MaxPollFailures`. Of the workflow, for any number of runs and images:
`AssetsBelongTogether`. Its invariant says what a run has handed over when it is at a step, however often it was
repeated (`HandedOver`), and that unless two runs raced one at a time puts its image and the checksum of it into a
release that had neither (`OneAtATime`). The script keeps what was proved of it alone, since each call of it starts
afresh.

Only model-checked: all liveness, which needs fairness and ENABLED; and `BufferIsUnderstood`, whose grammar of nested
values is a recursive function of three arguments and whose headers are enumerated: `inputs` tries all buffers up to
its bound.

## 5. Not modelled

- The returns of `fetch_from` before it has any task: no tracker (`core/engine.rs:116`), an offer that cannot be made
  (`core/engine.rs:124`).
- SDP, ICE, DTLS and the closing of connections: inside webrtc-rs. JSON itself, and the dictionaries of BEP 10 and of
  the info dict, are serde's; `InfoDict::total_size` and `piece_hashes` are called by tests only.
- Logging, quarantining a corrupt session.json, the streaming HTTP server. Of the settings, the folder and the
  switches: each is saved as it is set. In `TorrentStore` the seed ratio and the sleep switch are on.
- The FFI's copies of the core's records, and its calls that pass through: they are part of the actions they lead to.
- `release.sh` (run by hand, before the tag exists), `package-dmg.sh` and `ci-*.sh`: one step of a job each, which
  succeeds or fails as a whole in `Release`.
- Views, formatting, default-app helper, generated bindings, build scripts: no state that outlives a call.

## 6. Known divergences

Where code and comment, test or README disagree. The first is a run of the project; those with a `.cfg`
are kept to be run by hand and end in a counterexample; the others are named as exceptions in the properties.

1. **A resumed URI may be lost** (`adds_resume_unsaved`, `ResumedStaysSaved`). `start()` turns the saved URIs into one
   Task each (`App/NeoTorrentApp.swift:290`). The first Task's `persistPending` replaces the saved list with its own
   entry, while the other URIs are in memory only. A process that dies in between has lost them, although they are
   "Magnets still resolving when the app last quit" (lines 286-287).
2. **A stuck entry** (`tlc -config adds_stuck_row.cfg MCAddTorrent`). A poll may show a torrent before its call has
   returned. If the user removes that row before the next poll, no poll lists the id again; the entry stays until the
   program ends, and adding the magnet again is refused with "is already being added" (line 202).
   `ResolvedLeavesPending` names the case as its exception.
3. **Refused in favour of a torrent that goes** (`adds_false_duplicate.cfg`). An add that finds the torrent of a
   cancelled add before its compensating removal is refused with "is already in your list" (line 201); then the
   removal empties the list.
4. **A cancel that does not abort** (`adds_lost_cancel.cfg`). `add_torrent` spawns its task before it stores the abort
   handle (`ffi:215-217`). A `cancel_add` in between finds none ("No-op if it already finished", `ffi:227`), and the
   metadata is resolved for as long as it takes. `NoOrphan` and `CancelledIsUndone` hold all the same.
5. **A second automatic pause** (`store_ratio_twice.cfg`, `MCTorrentStore`). `remove` forgets the automatic pause
   before the engine has removed the torrent; when it refuses, the torrent is paused again, against "at most once per
   launch" (`App/TorrentStore.swift:272-274`). `RatioPausedOnceUnlessRefused` states what holds.
6. **`stopped` is not always sent** (`fetch_stopped_lost.cfg`, `MCMetadataFetch`). A tracker task queues `stopped` and
   ends, which drops the event receiver; the WebSocket task leaves as soon as an event finds no receiver
   (`core/tracker.rs:323`), and the grace for sending `stopped` (`core/engine.rs:47`) does not wait for it.
7. **Two quick clicks** (`tlc -config files_hasty.cfg FileSelection`). A second click before the first shows is computed
   from the old selection and undoes it, and the two calls may reach the engine in either order. `row` therefore has a
   user who waits for a click to show.
8. **A poster left behind.** When a torrent is removed while its frame is being made, or while a refresh that found its
   video is under way, or when the program ends between the engine's removal and the poster's, the poster stays.
   `NoPosterLeft` names these cases (`late`) as its exception.
9. **Two publications at once.** The workflow has no concurrency group: two runs of one version (a pushed tag and a
   dispatch on it) that upload at the same time may leave the image of one beside the checksum of the other.
   `AssetsBelongTogether` names the case (`raced`) as its exception.
10. **A limit that is none.** A rate of less than a byte per second is shown as it is and given to the engine as 0,
    which means unlimited (`App/SettingsView.swift:92`). `LimitsFollow` says so.
11. **A pause that is not retried.** The setting "Pauses a completed torrent once it has uploaded this many times its
    size" (`App/SettingsView.swift:139`). `enforceSeedRatio` notes the id in `ratioPausedIDs` before it asks the engine
    (`App/TorrentStore.swift:280`). When the engine refuses, an error is shown, the id stays noted, and the torrent seeds
    on for the rest of the launch. `RatioEnforced` names the case (`pauseRefused`) as its only exception.

## 7. Plan

Everything above is done. What is left, in this order:

1. `AgreesWithGrammar` for buffers of every length: the grammar's recursion goes down in depth and length together.
2. The quarantine of a corrupt session.json as a fault of `CoreSession`: a restart that finds an empty table. Every
   torrent is then gone at once, which `Adding` would have to allow.
3. `release.sh`, if it is ever run by the workflow instead of by hand.
