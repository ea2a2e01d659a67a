# TLA+ models of CogLink

CogLink is a Lavalink / NodeLink client written in C on top of the Discord
library Concord. This directory holds TLA+ modules that describe its control
logic, TLC configurations that check them on small instances, and TLAPS proofs
of the properties that should hold for any number of guilds, users and tracks.

Run one check with `tlc -config MCPlayerTable.cfg MCPlayerTable.tla`, one proof
module with `tlapm PlayerTableProofs.tla`. `PROJECT.json` lists the components,
the runs, for each modelled definition the source lines it stands for, the
hazards and the theorems.

## 1. The system

One thread runs everything: Concord's event loop dispatches Discord's gateway
events, its IO poller reads the websocket of each node, and every callback of
the application runs inside one of the two. REST requests to a node are blocking
curl calls, made from those callbacks. So there is no preemption; what
interleaves is *whole handlers*, with the events of three parties (Discord, the
nodes, the user commands of the application) in between, and the state they
leave for the next handler.

| component | source | state | operations |
| --- | --- | --- | --- |
| player table | `lib/rest.c:16-39, 101-204` | `players->array`, `players->size` (the block's real capacity is nowhere recorded); per node `session_id`, `stats` | create, get, remove player; add and remove a track; `_coglink_select_node` |
| queue and playback | `lib/websocket.c:108-143`, `lib/rest.c:145-190, 547-565`, `example/example.c:262-304` | `player->queue`; on the node, the track it plays | `.play`, remove from queue, stop, TRACK_END |
| user cache | `lib/rest.c:41-49`, `lib/websocket.c:203-232, 315-333` | `users->array`, `users->size` | three gateway branches write it, `coglink_get_user` reads it |
| voice handshake | `lib/websocket.c:185-315` | `player->voice_data` and the session string in it | VOICE_STATE_UPDATE, GUILD_CREATE (own state), VOICE_SERVER_UPDATE, forward to the node |
| websocket event dispatch | `lib/websocket.c:20-165` | none of its own | READY, PLAYER_UPDATE, STATS, five track events, websocket closed |
| message codecs | `lib/codecs.c`, `include/codecs.h` | none; they allocate what they parse | one parser per message, one free function per response |
| REST calls | `lib/rest.c:206-700`, `lib/utils.c` | none | load, decode, update player and session, stats, info, version |
| JSON builder | `external/jsonb.c` | block, position, `key_state` | set, enter, leave, end |
| life cycle | `lib/websocket.c:335-450` | nodes, websockets, the tables' first blocks, and the blocks of queues and sessions until cleanup | connect nodes, connect node, cleanup |
| request texts | `lib/utils.c:24-60`, the `snprintf`s of `lib/rest.c` and `lib/websocket.c` | none; blocks sized by hand | endpoint, URL, voice PATCH, join and leave payload |
| version parser | `lib/codecs.c:1152-1198` | length left, position, dots seen, start of the part | split a node's version in one pass |
| tablec | `external/tablec.c` | - | vendored; the library only initialises and frees it |
| example bot | `example/example.c` | none | `.play`, `.decodetrack`: the documented way to use the library |

### How they interact

* READY (dispatch) sets a node's `session_id`; only then can the player table
  select the node for a new player.
* `.play` looks the user up in the **user cache**, joins the channel, creates a
  player in the **player table**, loads a track with a **REST call**, adds it to
  the **queue**, and, if the queue was empty, sends the first PATCH, whose body
  the **JSON builder** makes.
* Discord answers the join with two gateway events; the **voice handshake** keeps
  the session of the first in the player's slot and forwards it at the second.
* The node's TRACK_END makes the **dispatch** remove the head of the queue and
  PATCH the next track.

### What is hard, and what makes each part correct

* *Player table.* `size` is counted twice by an append, removal frees in place,
  and the realloc of create may shrink the block. Correct: no player in use is
  lost, moved or renamed; its node has a session; it is found again; lookups stay
  in the block; one player per guild.
* *Queue.* TRACK_END does not compare the ended track with the head, requests
  may fail unseen, the websocket may close and is never reopened, and the reason
  "replaced" is not parsed. Correct: tracks play first in, first out, at most
  once; the node plays the head; a player stalls only when something was lost.
* *User cache.* Entries are appended at each announcement, cleared at the
  first match, and reused by other users' events. Correct: a user in voice is
  found, in a channel that was announced for that user; other users' events do
  not change the answer; a user who left is not found.
* *Voice handshake.* Two events belong together while slots change hands
  between them and keep their `voice_data`. Correct: a session string has one
  owner; what is forwarded for a guild is the session announced last; each join
  completes.
* *Codecs, dispatch, REST.* Some thirty paths with many early returns, each with its own
  list of frees, partly hidden in macros; callers that test for COGLINK_FAILED alone, and
  release rules that do. Correct: nothing is freed twice, read after it was freed or
  followed before it was written, an accepted message leaves nothing behind, a request
  is always released.
* *Life cycle.* Connect counts nodes down from an unsigned `size - 1`; cleanup walks
  the players up to a `size` that may exceed the block, and follows the pointers of
  free slots too. Correct: every node given is connected, cleanup stays in its
  arrays, and what belongs to the players in use is freed once.
* *Request texts.* Each block is sized by hand, and a text that does not fit loses
  its end without an error. Correct: a request reaches the path it is about, and no
  more is sent than was printed.
* *Version parser.* A pre-decremented length, no test for the end of the text, and a
  dash and a plus that change what a dot means. Correct: it reads within the answer,
  and what it fills in is the version's.
* *JSON builder.* The room reserved, the length printed and the separator flag
  are three counts that must agree. Correct: the body sent is the JSON text asked for.

## 2. The modules

| module | models | how state and actions correspond |
| --- | --- | --- |
| `PlayerTable` | player table, node selection, READY | `slots` over `0..capacity-1` is the heap block, `size` is the code's field. `CreatePlayer` scans as the do-while does, then `ReuseSlot` or `AppendSlot` (realloc to `size + 1`, both increments); `AddTrack`, `RemoveTrack` and `RemovePlayer` run on what `coglink_get_player` finds. |
| `Playback` | one player's queue, its node and the websocket between them | `Play`, `RemoveTrack` and `Stop` are the application's calls with the requests they send; `TrackEnd` is the whole handler; `TrackFinishes`, `NodeCleansUp` and `SocketCloses` are external. |
| `TrackFifo` | abstract specification: a player plays first in, first out | refined by `Playback` (`PlaysFifo`). |
| `PlayerStacks` | abstract specification: each guild has a stack of players on two places | refined by `PlayerTable` (`ServesTwoPlayers`); a player in use is a place taken, and the service ends with the second realloc or the first wild access. |
| `UserCache` | user cache | `VoiceStateIn`, `VoiceStateOut` and `GuildCreate` are the three branches; `GetUser` is `coglink_get_user`. |
| `VoiceHandshake` | voice handshake, composed with `PlayerTable` | extends the table: `voice` follows `slots` through every table step; one action for each gateway branch, one for each thing Discord may do. `Patch` takes the session to the node or loses it. |
| `Lifecycle` | from connect to cleanup, composed with `VoiceHandshake` and so with `PlayerTable` | `ConnectNode` is one turn of the loop over the nodes; `Run` is every step of the handshake and the table, now with the blocks behind `player->queue`; `CleanUp` is the loop over the players with all it follows and frees. |
| `JsonBuilder`, `RequestBodies` | JSON builder, bodies of the requests | each builder operation is an operator on (block, position, flag); each request is the sequence of calls the code makes; the intended text is built next to it. |
| `RequestTexts` | endpoints, URLs and payloads | a text is its length; `Snprintf` says what is wanted and what is kept; `PrintRequest`, `PerformRequest` and `SendPayload` are the calls in order. |
| `NodeVersion` | version parser, after the request for the version | extends `RequestTexts`; each iteration of the loop is a step, one action for each kind of character it reads. |
| `Codecs`, `ClientHeap` | ownership in parsers, dispatch, gateway handler, REST calls, free functions | `Codecs` gives each function as its sequence of mallocs, frees, uses and early returns; `ClientHeap` runs messages of all kinds one after another, ended at any early return. The application releases a response by the rule of `include/rest.h`, for every code but COGLINK_FAILED; a handler goes on after COGLINK_PARSE_FAILED where the code does (`Unwritten`). The series ends with the use of a pointer to no block, as what comes after is undefined. |
| `MC*` | instances for TLC | symmetry sets, small inputs. |
| `*Proofs` | TLAPS proofs | section 5. |

Memory the program reads without having written it is a nondeterministic value:
a slot that realloc added (`PlayerTable`: any guild id; `VoiceHandshake`: a wild
`voice_data`), the words past the block that `size` lets a scan reach (the scan
may stop at each), and the reason of a TRACK_END whose "replaced" was not
recognised (`Playback`: any reason). What the program does with such a value is
undefined from then on, so the model stops there with `status = "corrupt"` or
`fault`, and the properties say when that cannot happen.

Definitions named in a comment "Mutants of X" are plausible mistakes in X, each
of which makes some property fail; no specification uses them.

## 3. What the runs show

| run (module, config) | question | bounds | result |
| --- | --- | --- | --- |
| `players` (`MCPlayerTable`) | does any mix of creates, removals and queue operations lose, move or misplace a player in use? | 3 guilds, 3 nodes (one with stats), 2 reallocs, queue of 1 | no; up to one realloc players are found, in bounds, and the array is the stacks of `PlayerStacks` |
| `players_existing` | is an existing player returned? | 2 guilds, 1 realloc | **violated** (finding 1) |
| `users` (`MCUserCache`) | is the cache right about users in voice, and stable? | 2 users, 2 channels, 5 entries | yes |
| `users_left` | is a user who left not found? | 3 entries | **violated** (finding 2) |
| `playback_any` (`MCPlayback`) | can any use, loss or closing make a track start twice or out of order? | 5 tracks, playlists of 2 | no |
| `playback_player` | used as in the example, is the player a FIFO that never stalls by itself? | same, with fairness | yes; a stall needs a loss, and is for good |
| `lifecycle` (`MCLifecycle`) | from connect to cleanup, under any interleaving: is a session owned twice, used after its free or sent twice; does cleanup stay in its arrays and free the players in use? | 2 guilds, 1 node or none, 1 realloc, 3 announcements, 2 events on their way, 3 creates | no; yes up to one realloc, but for the exceptions `CleanupSafe` states |
| `voice_careful` (`MCVoiceHandshake`) | does each join send the right session to the node, in the end? | 4 announcements, 4 events, PATCHes may fail, no failover, fairness | yes; a PATCH that failed is not repeated |
| `bodies` (`MCRequestBodies`) | which bodies are sent as intended? | up to 3 optional fields, 3 tracks | all but the separators that a keyed scalar loses |
| `texts` (`MCNodeVersion`) | which requests keep their path, what does a cut take, what does the version parser make of an answer? | lengths on both sides of each limit; every answer of at most 6 characters; versions of every shape | a path is kept exactly if its ids and a port of four digits fit; cuts spare the session; versions are split as far as `VersionSplit` says |
| `heap` (`MCClientHeap`) | over two messages, ended anywhere: double free, use after free, leak? | 2 messages of 29 kinds, arrays of at most 2 | none, but for the three messages that `Misled` names (a gateway event that does not parse, the release of a response that was never written, `coglink_free_update_player`) and the blocks that `Remains` names |
| `heap_documented` | does releasing as documented leave nothing? | 1 message | **violated** (finding 3) |

### Why the bounds are enough

* *Player table.* Three guilds give a slot that was freed between two in use,
  which is what create, get and the shrinking realloc get wrong if anything; two
  reallocs give the first state in which `size` exceeds the block by two. Three
  nodes, one with stats, are the least for which "first ready node without stats"
  differs from first, last and any.
* *User cache.* Two users and two channels make one user's entry the reused
  entry of the other; five entries allow a move, a leave, a reuse and a
  GUILD_CREATE of two users in one run.
* *Playback.* Five tracks in playlists of two allow a running head, a removal in the
  middle, a second playlist, a stall and a `.play` after it.
* *Voice.* A slot changes hands after two announcements; the third arrives at
  its new owner. One realloc gives the first uninitialised `voice_data`.
* *Life cycle.* Two guilds and one realloc give a table of two slots that the cleanup
  walks past, and a free slot between create and cleanup. Three creates let a guild
  come back after a removal, so that a slot's second queue replaces its first. Two
  events are one join on its way. `SizeWords` (4) is the width of `size_t`, as wide
  as it takes for `size - 1` to wrap around to a bound beyond the nodes.
* *Texts.* A text enters a comparison by its length only, so one length below, at and
  above each limit decides; ports have 1 to 5 digits. The parser's state depends on which of
  dot, dash, plus, digit and other comes next: answers of six characters hold every order
  of them that it tells apart, up to the fourth dot, and a plus after a dash. Versions have
  no, one or two marks in the pre-release, at each end of it too.
* *Bodies.* What becomes of a separator depends on two neighbouring calls only; three fields
  give every pair of neighbours, nested and not.
* *Heap.* A block is owned by one message, except the session, which the next
  READY replaces: two messages are the least for which that shows.

`CHECK_DEADLOCK FALSE` is set in every run: each model has states in which it
stops for a reason (the bound on inputs is reached, the program exited, cleanup
has run, the body was sent).

### Fairness

* `FairSpec` (Playback): weak fairness of `TrackFinishes`, because a track has a
  finite length and a node reports its end or its failure, and of `TrackEnd`,
  because Concord's event loop polls the websocket as long as it is open
  (`lib/websocket.c`, `_IO_poller`). The application is under no fairness: it need
  not play, remove or stop anything. `EveryTrackEnds` excuses a lost request or
  end, because nothing in the code retries one.
* `FairVoiceSpec`: weak fairness of `Handle`, because the event loop hands each
  gateway event to the handler. `JoinCompletes` excuses a program that stopped, and a
  session whose PATCH failed, because nothing repeats it.

### Conditions on the application

`Released` (`ClientHeap`) is the set of calls whose responses the application releases.
Three constants separate what holds for any application from what holds for one
that behaves as the example does: `MinRemove` (it never removes the head of a
queue), `MayStop` (it never destroys a player) and `Hasty` (it creates or removes a
player while that guild's gateway events are pending). `MayFailover` is Discord's:
it moves the voice server of a connected guild. `MayLose` is the network's: a PATCH
to the node may fail, which the code does not look at.

## 4. Findings

1. `players_existing`: `coglink_create_player` stops at a free slot before it
   reaches the guild's own player (`lib/rest.c:113`), although
   `include/rest.h:187` says it returns the existing player.
2. `users_left`: a leave clears only the first of a user's entries
   (`lib/websocket.c:225`), and each announcement appended one, so a user who was
   announced twice in a channel, as at a mute, is still found in it after leaving. After
   a move the first entry is that of the earlier channel, and the user is found in the
   later one.
3. `heap_documented`: `coglink_decode_track` overwrites its response pointer
   (`lib/rest.c:288`), so the track is stored where the caller cannot reach it.

Remarks on the sources that no violated run is about, because no text of the
repository says otherwise or because a passing property states them as they are:

* The keyed setters of the builder reserve one byte too few
  (`external/jsonb.c:42`), so the comma after a keyed value is sent as a NUL unless
  nothing follows it: `ExactUnlessScalarFollowed` says exactly when.
* A node's port of five digits, or ids longer than what is reserved, cut off the end
  of the URL (`UrlWhole`); the voice PATCH always loses its end (`SessionKept`).
* A version without a pre-release keeps no patch, and a `.` or `-` in the pre-release
  overwrites it (`VersionSplit`).
* `include/rest.h:267` asks for the release of a response unless the code is
  COGLINK_FAILED, and `example.c:223-229, 468` does that with a zeroed one. After
  COGLINK_PARSE_FAILED nothing was written, and `coglink_free_load_tracks` reads through
  the NULL data of what it takes for a track (`lib/codecs.c:510-513`);
  `coglink_free_node_info` and `coglink_free_update_player` do alike. The run `heap`
  follows the rule, and `PointersValid` names these releases as an exception.
* A GUILD_CREATE that does not parse goes on with pairs that were never written
  (`lib/websocket.c:289-293`), and a VOICE_SERVER_UPDATE with a NULL token if a slot is
  free; `coglink_free_update_player` frees the track twice (`lib/codecs.c:894-896`):
  `PointersValid` names them as exceptions.
* A cleanup with two players in use walks one slot past the block, and one with no
  node given never got past connect (`CleanupSafe`).
* `lib/websocket.c:268` reads `voice_server_update.channel_id`, a field that
  `include/codecs.h:209-213` does not declare; the model takes the statement as the
  payload it prints.
* Several parsers look up the fields of a nested object at the top level
  (`lib/codecs.c:133-135, 777-780`); contents are abstracted, so the models only
  keep that such a lookup may fail.

## 5. What is proved

Theorems hold for all values of the constants, under the named assumptions of
the modules (`TableConstants`, `CacheConstants`, `PlaybackConstants`,
`VoiceConstants`, `LifeConstants`, `TextConstants`, `VersionConstants`, `VersionGrammar`:
guild and user ids differ from 0 and from junk, there is a node, bounds are natural
numbers, answers are shorter than a `size_t` can say, the numbers of a semantic version
are numerals and its pre-release holds no plus). TLC evaluates each assumption in the
runs. Every property of a passing run is a theorem but the two of liveness.

* **Player table** (`PlayerTableProofs`). `TableInv` is inductive. Its core is
  `SizeCountsAppendsTwice`: `size` is the number of players in use plus the number
  of reallocs; and `SlackIsFree`: what the block has beyond `size` is matched by
  free slots. The realloc happens only when no slot is free, so it cannot cut off
  a player, whatever `size` says. From it: `LivePlayerNodeHasSession`,
  `SinglePlayerInBounds` (now a conjunct of `TableInv`), `LivePlayersFoundWithOneAppend`,
  `NoLiveSlotLost`. None of the four is inductive alone: nothing in them bounds `size`
  from below. `ImplementsStacks` is the refinement `Spec => ServesTwoPlayers`, with one
  step per operation: the slots in use are the players of `PlayerStacks` for as long as
  the array was reallocated at most once. By `SizeCountsAppendsTwice` and
  `SmallTable`, `size` exceeds the block only while both places are taken, so a scan that
  leaves the block, or a second realloc, means that neither is this guild's: the step is
  `Overflow`. A create for a guild that has a player may put a new one on top of it
  (finding 1); the stack says what then happens to the old one: it comes back when the
  new one is removed.
* **User cache** (`UserCacheProofs`). `CacheInv` adds to `NewestEntryIsCurrent`
  that every entry with a user's id holds a channel that was announced for it.
  From it: `LookupPlausible` and the action property `LookupNeverWorsens`.
* **Playback** (`PlaybackProofs`). `OrderInv` (any application) adds that what
  plays was started last and was added before; from it `QueueInOrder` and
  `StartsInOrder`. `HeadInv` (under `FollowsExample == MinRemove > 0 /\ ~MayStop`)
  adds `EventsSettled`: an end on its way is that of a started track, and one that
  will not advance the queue counts as a loss. From it: `PlayingIsHead`,
  `StalledOnlyAfterLoss`, `NoInterruption`, `StallIsPermanent`, and that `Playback`
  implements `TrackFifo` (`ImplementsFifo`), for playlists of any length.
* **Voice handshake** (`VoiceHandshakeProofs`). `VoiceImplementsTable`: each step
  is a step of the player table or leaves it alone, so the theorems of the table
  hold here (`ForwardToReadyNode`). `VoiceInv` adds `FreshStrings` to
  `VoiceDataOwned`: an announcement on its way carries a string that no slot and
  no other announcement has, and `SentIsGone`: a session that was sent, or whose PATCH
  failed, is in no slot and on no way to one. From it: `SessionsOwned` and
  `SessionsSentOnce`, under any interleaving.
* **Careful applications** (`VoiceHandshakeProofs`, under `Careful == ~Hasty /\ ~MayFailover`).
  Neither `ForwardsLastSession` nor `NoFaultInFirstSlot` is inductive: both depend on
  what the events still on their way will meet. `CarefulInv` says it: a server event
  travels right behind its announcement (`ServersFollow`), its guild has a player
  (`JoinedHavePlayers`), and when it comes first, the first slot of the guild holds the
  session just announced (`NextSessionStored`). That the player found is the first slot
  in use of the guild comes from the table's invariant, up to the first realloc.
* **Life cycle** (`LifecycleProofs`). `LifeImplementsTable`: each step is a step of the
  player table or leaves it alone. The handshake's `VoiceInv` holds through the cleanup
  too (`LifeSessionsOwned`). `LifeInv` adds `QueuesOwned`, a queue is reached from one slot
  at most, and `QueuesReached`, what is allocated of queues and not reached from a player
  in use was a removed player's. From it: `CleanupIsSafe` and `CleanupFrees`.
* **Texts** (`NodeVersionProofs`). `UrlsWhole`, `SentIsPrinted`, `SessionsKept`: by
  arithmetic from what each step printed, for every length, where TLC tries the limits.
* **Request bodies** (`RequestBodiesProofs`). None of the three properties of `bodies` is
  inductive. `BodyInv` says that the block holds the text wanted so far cell by cell, with
  a NUL at most where a comma is wanted, then a separator unless an object was just
  entered; that a cell is lost exactly if a keyed value was already followed; and that the
  script is `WellFormed` (one end, in last place and never right after an object was
  entered), which is shown for the calls of every request from the calls of its parts. From it, for all sets
  of fields and any number of tracks: `TextStaysInBlock`, `BodiesButForSeparators`,
  `BodiesExact`.
* **Version parser** (`NodeVersionProofs`). `ParserInv` says that the characters left
  and the characters read make the answer, so `left` reaches 1 before the position
  reaches the end, and the copy of a pre-release, which takes `left` characters from a
  start not beyond the position, stays in the answer (`ParsesWithin`).
  `SplitInv` says of a version what the parser knows at each position: in which part
  it is, how many dots it counted, where the piece began that it is in, and what it has
  set. In the pre-release this goes by the marks read: `Piece` gives the place after the
  last, and the patch as the number after the last but one. From it, for versions of any
  length: `VersionsSplit`. What `atoi` computes is recursive, and no induction over it is
  needed: `LeadingNumber` takes `Value` of the leading digits, so `AtoiPiece` (a piece
  followed by no digit is the number of that piece alone) follows from which digits lead.
* **Ownership** (`ClientHeapProofs`). A function of `Codecs` is a sequence of steps, and
  `Runs(c, n, L, s, M)` judges one: from the blocks L each step of s is safe (it frees and
  uses what is there, allocates in the message's arrays, and an early return with its
  undoing leaves no request behind), and M is left. Sequences compose (`RunsConcat`),
  loops over an array run by `FlattenFacts` and `RunsLoop`, and each request, parser and
  event gets a lemma with the blocks it leaves. `HeapInv` says that the steps still to come
  fit the blocks the message has (`Fits`): as long as it succeeds they run to `Settled`
  blocks, which hold no request and are what remains of such a call or what its release
  runs from; after an early return they free each block once; during a release they run
  to what remains. The response of the application needs a part of its own
  (`ResponseStays`): no early return of a call whose unwritten response can be released
  safely frees it before. None of the properties is inductive, for all depend on
  the whole rest of a sequence. From it, for any number of messages and any size of the
  arrays: `HeapTyped`, `RequestsGone`, `SessionStaysLive` and `PointersStayValid`,
  whatever is released. `PointersStayValid` says of each use of a pointer to no block
  that the message is one of the three kinds in `Misled`; nothing is assumed of
  `Released`. `AcceptedLeaveOnlyTheirs` assumes that nothing is released that finding 3
  and the hazards name (`"UPDATED_PLAYER"`, `"DECODE_TRACK"` not in `Released`, as in the
  run). `HeapInv` ranges over all
  sequences, which TLC cannot enumerate: TLC checks the properties that follow from it.
  Induction over the length of an array goes by the least number of a set of naturals
  (`WFMin` on `<`), since a set, unlike an operator, can be a parameter here.

### Only model-checked

* Liveness (`EveryTrackEnds`, `JoinCompletes`): the prover has no rule for
  fairness and ENABLED.
* What `atoi` and the builder's `snprintf` compute for given digits: recursion over data.
  No theorem says more of `Value` than that equal digits have equal values.

## 6. What is not modelled, and why

* **Contents of parsed structs and of REST answers**: copied field by field; no
  control depends on them but what the models keep (the kind of a message, the reason of a
  TRACK_END).
* **Widths of parsed numbers**: `PAIR_TO_SIZET` and its kin copy digits into buffers of
  fixed width. One comparison per buffer, with no state between: a model would repeat it.
* **Headers of the websocket** and the scheduler value that the gateway handler returns
  to Concord: constants of the run, and a number nobody reads here.
* **What a node does with a session**: outside the client; the models keep whether it
  got the PATCH.
* **tablec**: vendored, unused. **Event callback table**: a struct of pointers; the models
  assume that callbacks return and use the library's API only.
* **Responses that hold what was on the stack**: the application zeroes a response before
  the call, as `example.c:223` does. Without that, every release of an unwritten response
  follows whatever was there, not only those of `FollowsUnwritten`.
* **Gateway payloads that do not parse** are modelled in `ClientHeap`, as the end of a
  series of messages; `UserCache` and `VoiceHandshake` take a payload to parse.

## 7. Plan

What is done, and what is left, most important first:

1. Done: the player table, the queue with its FIFO, the user cache, the voice
   handshake composed with the table, and the life cycle composed with both; texts,
   bodies, the version parser and ownership. Every safety property the runs check is
   proved, and so are the refinements.
2. An abstract specification of the user cache: a map from users to channels,
   implemented by the newest entries. `LookupPlausible` and `LookupNeverWorsens` say
   nearly the same.
3. Values copied into responses, if a reader of them appears.
