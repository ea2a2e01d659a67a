------------------------------- MODULE Codecs -------------------------------
(***************************************************************************)
(* What the parsers of lib/codecs.c, their callers in lib/websocket.c and  *)
(* lib/rest.c, _coglink_perform_request (lib/utils.c) and the functions    *)
(* that free a response do with the heap: each is the sequence of its      *)
(* mallocs and frees, of the places where it may return early, of the      *)
(* pointers it hands to the application and of the one the client keeps.   *)
(* The contents of the blocks are left out.                                *)
(*                                                                         *)
(* A block is named for the pointer that holds it, with an index when the  *)
(* pointer is an element of an array.                                      *)
(***************************************************************************)
EXTENDS Integers, Sequences, SequencesExt

Malloc(names, i) == [j \in DOMAIN names |-> [do |-> "malloc", block |-> <<names[j], i>>]]
Free(names, i) == [j \in DOMAIN names |-> [do |-> "free", block |-> <<names[j], i>>]]

(* The application reads the blocks; the client keeps the block.           *)
Use(names) == <<[do |-> "use", blocks |-> names \X {0}]>>
Keep(name) == <<[do |-> "keep", block |-> <<name, 0>>]>>

(* A pointer is followed that nobody has written: it is NULL, or whatever  *)
(* the stack held.                                                         *)
Unwritten == Use({"unwritten"})

(* A step at which the function may return `code`, and what its callers do *)
(* then.                                                                   *)
Check(code, undo) == <<[do |-> "check", code |-> code, undo |-> undo]>>

(* FIND_FIELD, FIND_FIELD_PATH and the switches on unknown names.  Lookups *)
(* with nothing allocated in between are one step.                         *)
Field(undo) == Check("FAILED", undo)

(* The JSON does not parse, or has more pairs than the array on the stack, *)
(* which ends the program unless it is a debug build.                      *)
Json(undo) == Check("PARSE_FAILED", undo) \o Check("EXIT", <<>>)

(* jsmn_parse_auto and jsmnf_load_auto.                                    *)
JsonAuto(code, undo) ==
  Malloc(<<"toks">>, 0) \o Check(code, undo) \o Malloc(<<"pairs">>, 0) \o Check(code, undo)

(* coglink_parse_track, after the two mallocs that precede it everywhere.  *)
Track(i, undo) ==
  Malloc(<<"track", "info">>, i) \o Field(undo) \o Malloc(<<"encoded">>, i) \o Field(undo)

FreeTrack(i) == Free(<<"encoded", "info", "track">>, i)
FreeTracks(n) == FlattenSeq([i \in 1..n |-> FreeTrack(i)])

-----------------------------------------------------------------------------
(* coglink_parse_websocket_data: what an event owns besides its payload    *)
(* and its track.                                                          *)
TrackEvents ==
  {"TRACK_START", "TRACK_END", "TRACK_END_UNKNOWN", "TRACK_EXCEPTION", "TRACK_STUCK"}

EventParts ==
  [READY |-> <<"session_id">>,
   PLAYER_UPDATE |-> <<"state">>,
   STATS |-> <<"memory", "cpu", "frameStats">>,
   TRACK_START |-> <<>>,
   TRACK_END |-> <<>>,
   TRACK_END_UNKNOWN |-> <<>>,  \* a TRACK_END for a guild without a player
   TRACK_EXCEPTION |-> <<"exception", "message", "cause">>,
   TRACK_STUCK |-> <<>>,
   WEBSOCKET_CLOSED |-> <<"reason">>]

Events == DOMAIN EventParts

EventParsed(e) ==
  Malloc(<<"payload">>, 0) \o (IF e \in TrackEvents THEN Track(0, <<>>) ELSE <<>>)
    \o Malloc(EventParts[e], 0)

(* _ws_on_text, the cases of its switch: what each frees after the         *)
(* callback, besides the track and the payload.                            *)
EventFreed ==
  [READY |-> <<>>,
   PLAYER_UPDATE |-> <<"state">>,
   STATS |-> <<"memory", "cpu", "frameStats">>,
   TRACK_START |-> <<>>,
   TRACK_END |-> <<>>,
   TRACK_END_UNKNOWN |-> <<>>,
   TRACK_EXCEPTION |-> <<"cause", "message", "exception">>,
   TRACK_STUCK |-> <<>>,
   WEBSOCKET_CLOSED |-> <<"reason">>]

Session(e) == IF e = "READY" THEN Keep("session_id") ELSE <<>>

(* The callback of the event; none for an unknown player.                  *)
Callback(e) ==
  IF e = "TRACK_END_UNKNOWN" THEN <<>>
  ELSE Use({"payload"} \cup ToSet(EventParts[e])
             \cup (IF e \in TrackEvents THEN {"track", "info", "encoded"} ELSE {}))

Dropped(e) ==
  (IF e \in TrackEvents THEN FreeTrack(0) ELSE <<>>) \o Free(EventFreed[e], 0)

(* Mutants of EventHandled: the event's blocks are freed before the        *)
(* callback; the session goes with its event; the early return for an      *)
(* unknown player forgets the payload.                                     *)
FreedBeforeCallback(e) == Session(e) \o Dropped(e) \o Callback(e) \o Free(<<"payload">>, 0)
SessionFreed(e) ==
  Session(e) \o Callback(e) \o Dropped(e) \o Free(<<"payload">>, 0)
    \o (IF e = "READY" THEN Free(<<"session_id">>, 0) ELSE <<>>)
PayloadForgotten(e) ==
  Session(e) \o Callback(e) \o Dropped(e)
    \o (IF e = "TRACK_END_UNKNOWN" THEN <<>> ELSE Free(<<"payload">>, 0))

EventHandled(e) == Session(e) \o Callback(e) \o Dropped(e) \o Free(<<"payload">>, 0)

(* on_raw may consume the text; a text that does not parse is dropped.     *)
EventWork(e) ==
  Check("CONSUMED", <<>>) \o Json(<<>>) \o Field(<<>>) \o EventParsed(e) \o EventHandled(e)

-----------------------------------------------------------------------------
(* _coglink_perform_request frees what it allocates on both of its ways,   *)
(* the body of the answer excepted.                                        *)
Perform(answer, undo) ==
  LET request == <<"curl", "full_url", "authorization", "chunk">>
  IN  Malloc(request, 0) \o Malloc(answer, 0) \o Free(request, 0)
        \o Check("FAILED", undo)

Answered(undo) == Perform(<<"body">>, undo)
Unanswered(undo) == Perform(<<>>, undo)

(* coglink_parse_load_tracks, by kind of result; `n` tracks in it.         *)
LoadParsed(n, undo) ==
  [LOAD_TRACK |-> Track(0, undo),
   LOAD_PLAYLIST |-> Malloc(<<"data", "playlist_info", "tracks", "array">>, 0)
                       \o FlattenSeq([i \in 1..n |-> Track(i, undo)]),
   LOAD_SEARCH |-> Field(undo) \o Malloc(<<"data", "array">>, 0)
                     \o FlattenSeq([i \in 1..n |-> Track(i, undo)]),
   LOAD_EMPTY |-> <<>>,
   LOAD_ERROR |-> Field(undo) \o Malloc(<<"data", "message", "cause">>, 0)]

LoadWork(n) ==
  LET undo == Free(<<"endpoint", "body">>, 0)
      parsed == LoadParsed(n, undo)
  IN  [k \in DOMAIN parsed |->
         Malloc(<<"endpoint">>, 0) \o Answered(Free(<<"endpoint">>, 0))
           \o JsonAuto("PARSE_FAILED", undo) \o Field(undo) \o parsed[k]
           \o Free(<<"toks", "pairs">>, 0) \o undo]

(* coglink_free_load_tracks.                                               *)
LoadReleased(n) ==
  [LOAD_TRACK |-> FreeTrack(0),
   LOAD_PLAYLIST |-> Free(<<"playlist_info">>, 0) \o FreeTracks(n)
                       \o Free(<<"tracks", "data">>, 0),
   LOAD_SEARCH |-> FreeTracks(n) \o Free(<<"array", "data">>, 0),
   LOAD_EMPTY |-> <<>>,
   LOAD_ERROR |-> Free(<<"message", "cause", "data">>, 0)]

-----------------------------------------------------------------------------
(* The other calls take a response that the application has allocated.     *)
Response == Malloc(<<"response">>, 0)

(* coglink_decode_track overwrites its own pointer to the response.        *)
DecodeTrackWork ==
  LET undo == Free(<<"body", "endpoint">>, 0)
  IN  Response \o Malloc(<<"endpoint">>, 0) \o Answered(Free(<<"endpoint">>, 0))
        \o Check("FAILED", undo) \o Track(0, <<>>) \o undo

(* coglink_free_track, of a response that is as the application made it:   *)
(* its pointers are NULL.                                                  *)
DecodeTrackReleased == Free(<<"response">>, 0)

DecodeTracksWork(n) ==
  LET sent == Free(<<"jsonber">>, 0)
  IN  Response \o Malloc(<<"jsonber">>, 0) \o Answered(sent) \o sent
        \o JsonAuto("FAILED", <<>>) \o Malloc(<<"array">>, 0)
        \o FlattenSeq([i \in 1..n |-> Track(i, <<>>)]) \o Free(<<"body", "toks", "pairs">>, 0)

(* coglink_free_tracks.                                                    *)
TracksReleased(n) == FreeTracks(n) \o Free(<<"array", "response">>, 0)

Filters == <<"equalizer", "karaoke", "timescale", "tremolo", "vibrato", "rotation",
             "distortion", "channelMix", "lowPass">>

(* coglink_parse_update_player.                                            *)
PlayerParsed(undo) ==
  Json(undo) \o Field(undo) \o Track(0, undo) \o Field(undo)
    \o Malloc(<<"state", "filters">>, 0)
    \o FlattenSeq([i \in DOMAIN Filters |-> Field(undo) \o Malloc(<<Filters[i]>>, 0)])

(* coglink_update_player, without and with a response.                     *)
UpdatePlayerWork ==
  LET undo == Free(<<"jsonber", "endpoint">>, 0)
  IN  Check("NODE_OFFLINE", <<>>) \o Malloc(<<"endpoint", "jsonber">>, 0)
        \o Unanswered(undo) \o undo
UpdatedPlayerWork ==
  LET undo == Free(<<"body", "jsonber", "endpoint">>, 0)
  IN  Response \o Check("NODE_OFFLINE", <<>>) \o Malloc(<<"endpoint", "jsonber">>, 0)
        \o Answered(undo) \o PlayerParsed(undo) \o undo

(* coglink_free_update_player: the track is freed twice.                   *)
PlayerReleased == FreeTrack(0) \o Free(<<"track", "state", "filters", "response">>, 0)

DestroyPlayerWork ==
  LET undo == Free(<<"endpoint">>, 0)
  IN  Check("NODE_OFFLINE", <<>>) \o Malloc(<<"endpoint">>, 0) \o Unanswered(undo) \o undo

(* Mutant of UpdateSessionWork: a failed request keeps the JSON text.      *)
UpdateSessionKeepsJson ==
  LET undo == Free(<<"body", "jsonber", "endpoint">>, 0)
  IN  Response \o Check("NODE_OFFLINE", <<>>) \o Malloc(<<"endpoint", "jsonber">>, 0)
        \o Answered(Free(<<"body", "endpoint">>, 0)) \o Json(undo) \o Field(undo) \o undo

UpdateSessionWork ==
  LET undo == Free(<<"body", "jsonber", "endpoint">>, 0)
  IN  Response \o Check("NODE_OFFLINE", <<>>) \o Malloc(<<"endpoint", "jsonber">>, 0)
        \o Answered(undo) \o Json(undo) \o Field(undo) \o undo

(* Mutant of NamesParsed: a loop with <=.                                  *)
NamesParsedOneMore(n, list, name, undo) ==
  Malloc(list, 0) \o FlattenSeq([i \in 1..(n + 1) |-> Field(undo) \o Malloc(<<name>>, i)])

(* coglink_parse_node_info; `n` source managers and as many filters.       *)
NamesParsed(n, list, name, undo) ==
  Malloc(list, 0) \o FlattenSeq([i \in 1..n |-> Field(undo) \o Malloc(<<name>>, i)])

NodeInfoParsed(n, undo) ==
  Json(undo) \o Field(undo)
    \o Malloc(<<"version", "semver", "preRelease", "build">>, 0) \o Field(undo)
    \o Malloc(<<"git", "branch", "commit", "jvm", "lavaplayer">>, 0)
    \o NamesParsed(n, <<"sourceManagers", "managers">>, "manager", undo)
    \o NamesParsed(n, <<"filters", "filterNames">>, "filter", undo)

NodeInfoWork(n) ==
  LET undo == Free(<<"body">>, 0)
  IN  Response \o Check("NODE_OFFLINE", <<>>) \o Answered(<<>>)
        \o NodeInfoParsed(n, undo) \o undo

(* coglink_free_node_info.                                                 *)
FreeNames(n, name) == FlattenSeq([i \in 1..n |-> Free(<<name>>, i)])

NodeInfoReleased(n) ==
  Free(<<"semver", "preRelease", "build", "version", "branch", "commit", "git",
         "jvm", "lavaplayer">>, 0)
    \o FreeNames(n, "manager") \o Free(<<"managers", "sourceManagers">>, 0)
    \o FreeNames(n, "filter")
    \o Free(<<"filterNames", "filters", "response">>, 0)

(* coglink_parse_version; only a version such as 4.0.0-beta+1 has a string *)
(* to keep.                                                                *)
VersionWork(parts) ==
  LET undo == Free(<<"body">>, 0)
  IN  Answered(<<>>) \o Check("PARSE_FAILED", undo) \o Malloc(parts, 0) \o undo

(* coglink_parse_stats.                                                    *)
StatsWork ==
  LET undo == Free(<<"body">>, 0)
  IN  Response \o Answered(<<>>) \o Json(undo) \o Field(undo)
        \o Malloc(<<"memory", "cpu">>, 0) \o undo

(* coglink_free_stats.                                                     *)
StatsReleased == Free(<<"memory", "cpu", "response">>, 0)

-----------------------------------------------------------------------------
(* The gateway events that _coglink_handle_scheduler parses.  It returns   *)
(* early for FAILED only, and goes on after PARSE_FAILED with a struct of  *)
(* zeros, or, for a GUILD_CREATE, with pairs that nothing was written to.  *)
(* VoiceHandshake follows the session string of the bot once the player    *)
(* has it; nobody frees another user's.                                    *)
VoiceStateWork == Json(<<>>) \o Field(<<>>) \o Malloc(<<"voice_session">>, 0)

(* `player`: one is found for the guild; for guild 0, of an event that     *)
(* does not parse, it is a slot that is free, and the token is NULL.       *)
VoiceServerWork(player) ==
  LET undo == Free(<<"payload_text", "token", "endpoint">>, 0)
  IN  Check("PARSE_FAILED", IF player THEN Unwritten ELSE <<>>) \o Check("EXIT", <<>>)
        \o Field(<<>>) \o Malloc(<<"token", "endpoint">>, 0)
        \o IF player THEN Malloc(<<"payload_text">>, 0) \o Unanswered(undo) \o undo
           ELSE Free(<<"token", "endpoint">>, 0)

(* coglink_parse_guild_create and coglink_parse_single_user_guild_create;  *)
(* `own`: the string of the bot's own voice state, if the guild has one.   *)
GuildCreateWork(own) ==
  JsonAuto("PARSE_FAILED", Unwritten) \o Field(<<>>) \o Free(<<"toks">>, 0) \o Field(<<>>)
    \o Malloc(own, 0) \o Free(<<"pairs">>, 0)

(* The events that, if they do not parse, have the handler follow what was *)
(* never written.                                                          *)
FallsThrough == {"VOICE_SERVER", "GUILD_CREATE", "GUILD_CREATE_OWN"}

-----------------------------------------------------------------------------
(* All of them, by name; `n` is the length of the arrays in the answer.    *)
OtherWork(n) ==
  [DECODE_TRACK |-> DecodeTrackWork,
   DECODE_TRACKS |-> DecodeTracksWork(n),
   UPDATE_PLAYER |-> UpdatePlayerWork,
   UPDATED_PLAYER |-> UpdatedPlayerWork,
   DESTROY_PLAYER |-> DestroyPlayerWork,
   UPDATE_SESSION |-> UpdateSessionWork,
   NODE_INFO |-> NodeInfoWork(n),
   VERSION |-> VersionWork(<<>>),
   VERSION_PRERELEASE |-> VersionWork(<<"preRelease">>),
   NODE_STATS |-> StatsWork,
   VOICE_STATE |-> VoiceStateWork,
   VOICE_SERVER |-> VoiceServerWork(TRUE),
   VOICE_SERVER_UNKNOWN |-> VoiceServerWork(FALSE),
   GUILD_CREATE |-> GuildCreateWork(<<>>),
   GUILD_CREATE_OWN |-> GuildCreateWork(<<"voice_session">>)]

Loads == DOMAIN LoadReleased(0)
Calls == Events \cup Loads \cup DOMAIN OtherWork(0)

Work(n) ==
  [c \in Calls |-> IF c \in Events THEN EventWork(c)
                  ELSE IF c \in Loads THEN LoadWork(n)[c] ELSE OtherWork(n)[c]]

(* What the documented function for each response frees.                   *)
OtherReleased(n) ==
  [DECODE_TRACK |-> DecodeTrackReleased,
   DECODE_TRACKS |-> TracksReleased(n),
   UPDATED_PLAYER |-> PlayerReleased,
   UPDATE_SESSION |-> Free(<<"response">>, 0),
   NODE_INFO |-> NodeInfoReleased(n),
   VERSION_PRERELEASE |-> Free(<<"preRelease">>, 0),
   NODE_STATS |-> StatsReleased]

(* The calls with such a function.                                         *)
Documented == Loads \cup DOMAIN OtherReleased(0)

Release(n) ==
  [c \in Documented |-> IF c \in Loads THEN LoadReleased(n)[c] ELSE OtherReleased(n)[c]]

(* What the same functions do with a response that no parser has written,  *)
(* of a node that is offline or an answer that does not parse.  The        *)
(* application has zeroed it, as example.c:223 does.  A result of type 0   *)
(* is a track, and that track, the track of a player and the version of a  *)
(* node are followed without a test; coglink_free_node_version finds NULL. *)
(* The decoding calls return no code but FAILED and SUCCESS.               *)
FollowsUnwritten == Loads \cup {"UPDATED_PLAYER", "NODE_INFO"}

ReleaseUnwritten ==
  [c \in Documented |->
     CASE c \in FollowsUnwritten -> Unwritten
       [] c \in {"UPDATE_SESSION", "NODE_STATS"} -> Free(<<"response">>, 0)
       [] OTHER -> <<>>]

(* The calls whose answer holds arrays.                                    *)
Sized == {"LOAD_PLAYLIST", "LOAD_SEARCH", "DECODE_TRACKS", "NODE_INFO"}
=============================================================================
