---------------------------- MODULE RequestTexts ----------------------------
(***************************************************************************)
(* The texts the library prints into blocks it sizes by hand: the endpoint *)
(* of a request (lib/rest.c, lib/websocket.c), the URL                     *)
(* _coglink_perform_request puts before it (lib/utils.c:37-40), the body   *)
(* of the voice PATCH (lib/websocket.c:258-268) and the payloads of join   *)
(* and leave (lib/rest.c:54-85).  A text is its number of characters: what *)
(* matters is whether snprintf had room for it and, if not, what the cut   *)
(* took, which is always the end.                                          *)
(***************************************************************************)
EXTENDS Integers

CONSTANT Requests  \* the calls to try

(* `port`, `guild` and `channel` are numbers of digits, the others numbers *)
(* of characters.                                                          *)
RequestParams ==
  [kind : {"player", "voice", "session", "search", "version", "join", "leave"},
   ssl : BOOLEAN, host : Nat, port : 1..5, session : Nat, guild : 1..20,
   channel : 1..20, token : Nat, address : Nat, search : Nat]

ASSUME TextConstants == Requests \subseteq RequestParams

COGLINK_SESSION_ID_LENGTH == 16
SnowflakeDigits == 19  \* what the library reserves for an id

(* What snprintf leaves of a text of n characters in a block of size.      *)
Snprintf(n, size) == [wanted |-> n, kept |-> IF n < size THEN n ELSE size - 1]

NoText == [wanted |-> 0, kept |-> 0]

-----------------------------------------------------------------------------
VARIABLES request,   \* the call being made
          endpoint,  \* the path it prints first
          url,       \* the URL printed from it
          body,      \* the voice PATCH, or the payload for Discord
          sentSize,  \* length handed to curl or the gateway with `body`
          stage      \* "called", "printed" or "sent"

textVars == <<request, endpoint, url, body, sentSize, stage>>

TextInit ==
  /\ request \in Requests
  /\ endpoint = NoText /\ url = NoText /\ body = NoText
  /\ sentSize = 0
  /\ stage = "called"

NamesGuild == request.kind \in {"player", "voice"}

(* "/sessions/%s/players/%u" in a block for an id of SnowflakeDigits.      *)
PlayerPath ==
  Snprintf(19 + request.session + request.guild,
           19 + COGLINK_SESSION_ID_LENGTH + SnowflakeDigits + 1)

SessionPath ==
  Snprintf(10 + request.session, 10 + COGLINK_SESSION_ID_LENGTH + 1)

(* coglink_load_tracks and coglink_decode_track measure what they print.   *)
SearchPath == Snprintf(23 + request.search, 23 + request.search + 1)

VersionPath == Snprintf(8, 8 + 1)

Path ==
  CASE NamesGuild -> PlayerPath
    [] request.kind = "session" -> SessionPath
    [] request.kind = "search" -> SearchPath
    [] request.kind = "version" -> VersionPath

(* The template of the body has 66 characters around its four values; the  *)
(* block was measured without the last one.                                *)
BodySizeNoSession == 51 + request.token + request.address + 1

BodySize == 51 + request.token + request.address + request.session + 1

VoiceBody ==
  Snprintf(66 + request.token + request.address + request.session + request.channel,
           BodySize)

PrintRequest ==
  /\ stage = "called" /\ request.kind \notin {"join", "leave"}
  /\ endpoint' = Path
  /\ IF request.kind = "voice"
     THEN body' = VoiceBody /\ sentSize' = BodySize - 1
     ELSE UNCHANGED <<body, sentSize>>
  /\ stage' = "printed"
  /\ UNCHANGED <<request, url>>

(* url_size: what the URL has besides its port, for which four digits are  *)
(* reserved.  `endpoint` is measured by strlen, so after its own cut.      *)
UrlFixed ==
  (IF request.ssl THEN 1 ELSE 0) + 8
    + (IF request.kind = "version" THEN 0 ELSE 3) + request.host

FullUrlShort ==
  Snprintf(UrlFixed + request.port + endpoint.kept, UrlFixed + 3 + endpoint.kept + 1)

FullUrl ==
  Snprintf(UrlFixed + request.port + endpoint.kept, UrlFixed + 4 + endpoint.kept + 1)

PerformRequest ==
  /\ stage = "printed"
  /\ url' = FullUrl
  /\ stage' = "sent"
  /\ UNCHANGED <<request, endpoint, body, sentSize>>

JoinPayloadForOneId ==
  Snprintf(77 + request.guild + request.channel, 83 + (SnowflakeDigits + 1) + 1)

(* The payloads are sent by the size snprintf returns, which is that of    *)
(* the whole text.                                                         *)
JoinPayload ==
  Snprintf(77 + request.guild + request.channel, 83 + (SnowflakeDigits * 2 + 1) + 1)

LeavePayload == Snprintf(79 + request.guild, 82 + (SnowflakeDigits + 1) + 1)

SendPayload ==
  /\ stage = "called" /\ request.kind \in {"join", "leave"}
  /\ body' = IF request.kind = "join" THEN JoinPayload ELSE LeavePayload
  /\ sentSize' = body'.wanted
  /\ stage' = "sent"
  /\ UNCHANGED <<request, endpoint, url>>

TextNext == PrintRequest \/ PerformRequest \/ SendPayload

TextSpec == TextInit /\ [][TextNext]_textVars

-----------------------------------------------------------------------------
TextTypeOK ==
  /\ request \in RequestParams
  /\ endpoint \in [wanted : Nat, kept : Nat]
  /\ url \in [wanted : Nat, kept : Nat]
  /\ body \in [wanted : Nat, kept : Nat]
  /\ sentSize \in Nat
  /\ stage \in {"called", "printed", "sent"}

(* Characters that did not make it into the URL: both cuts take the end of *)
(* the text, which for a request about a player is the guild id.           *)
Lost == (endpoint.wanted - endpoint.kept) + (url.wanted - url.kept)

PathFits ==
  CASE NamesGuild -> request.session + request.guild
                       <= COGLINK_SESSION_ID_LENGTH + SnowflakeDigits
    [] request.kind = "session" -> request.session <= COGLINK_SESSION_ID_LENGTH
    [] OTHER -> TRUE

(* A request reaches the path it is about exactly if the ids in it fit     *)
(* the characters reserved for both together and the node's port has no    *)
(* more than four digits.  Else, for a player, it reaches the path of the  *)
(* shorter id that the first digits of the guild's make: with a session id *)
(* as the library expects it and any real guild, it loses one digit.       *)
UrlWhole ==
  stage = "sent" /\ request.kind \notin {"join", "leave"} =>
    /\ Lost = 0 <=> PathFits /\ request.port <= 4
    /\ PathFits => Lost <= 1

(* Whatever is handed over to be sent was printed: no length is larger     *)
(* than the text in the block, although join and leave send the length     *)
(* their snprintf wished for; so for them every id of 64 bits fits.        *)
SentWasPrinted == stage = "sent" => sentSize <= body.kept

(* The voice PATCH never fits its block, but the cut comes after the       *)
(* session id's closing quote: the node loses the channel and the closing  *)
(* braces, never part of the token, the endpoint or the session.           *)
SessionKept ==
  stage = "sent" /\ request.kind = "voice" =>
    /\ body.kept < body.wanted
    /\ body.kept >= 49 + request.token + request.address + request.session
=============================================================================
