--------------------------- MODULE RequestBodies ---------------------------
(***************************************************************************)
(* The bodies of the client's requests: the calls that coglink_            *)
(* update_player (lib/rest.c:382-518), coglink_update_session (576-585)    *)
(* and coglink_decode_tracks (303-310) make on the JSON builder, one per   *)
(* step, next to the text a builder of JSON would have made of them.       *)
(***************************************************************************)
EXTENDS JsonBuilder

CONSTANTS Players,   \* parameters of coglink_update_player to try
          MaxTracks  \* bound: tracks given to coglink_decode_tracks

FilterNames == {"volume", "equalizer", "karaoke", "timescale", "tremolo", "vibrato",
                "rotation", "distortion", "channelMix", "lowPass"}

(* Which fields are set: `track` and `filters` are {} when their pointer   *)
(* is NULL, else a singleton with the fields set in what it points to.     *)
PlayerParams ==
  [track : {{}} \cup {{S} : S \in SUBSET {"encoded", "identifier", "userData"}},
   top : SUBSET {"position", "endTime", "volume", "paused"},
   filters : {{}} \cup {{S} : S \in SUBSET FilterNames}]

ASSUME BodyConstants == Players \subseteq PlayerParams /\ MaxTracks \in Nat

-----------------------------------------------------------------------------
NoKey == "none"

Call(op, key) == [op |-> op, key |-> key]

Set(key) == Call("set", key)

(* A scalar is sent if it was set.                                         *)
Optional(key, S) == IF key \in S THEN <<Set(key)>> ELSE <<>>

TrackFields(S) ==
  Optional("encoded", S) \o Optional("identifier", S) \o Optional("userData", S)

TopFields(S) ==
  Optional("position", S) \o Optional("endTime", S) \o Optional("volume", S)
    \o Optional("paused", S)

Object(key, calls) == <<Call("enter", key)>> \o calls \o <<Call("leave", key)>>

(* A filter that is set is sent with all its fields.                       *)
FilterFields ==
  [karaoke |-> <<Set("level"), Set("monoLevel"), Set("filterBand"), Set("filterWidth")>>,
   timescale |-> <<Set("speed"), Set("pitch"), Set("rate")>>,
   tremolo |-> <<Set("frequency"), Set("depth")>>,
   vibrato |-> <<Set("frequency"), Set("depth")>>,
   rotation |-> <<Set("frequency"), Set("depth")>>,
   distortion |-> <<Set("sinOffset"), Set("sinScale"), Set("cosOffset"), Set("cosScale"),
                    Set("tanOffset"), Set("tanScale"), Set("offset"), Set("scale")>>,
   channelMix |-> <<Set("leftToLeft"), Set("leftToRight"), Set("rightToLeft"),
                    Set("rightToRight")>>,
   lowPass |-> <<Set("smoothing")>>]

Filter(name, S) == IF name \in S THEN Object(name, FilterFields[name]) ELSE <<>>

(* The first band of the equalizer is an object without a key, whose       *)
(* strlen(NULL) ends the program.                                          *)
Equalizer(S) == IF "equalizer" \in S THEN <<Call("crash", "equalizer")>> ELSE <<>>

FilterCalls(S) ==
  Object("filters",
    Optional("volume", S) \o Equalizer(S) \o Filter("karaoke", S)
      \o Filter("timescale", S) \o Filter("tremolo", S) \o Filter("vibrato", S)
      \o Filter("rotation", S) \o Filter("distortion", S) \o Filter("channelMix", S)
      \o Filter("lowPass", S))

UpdatePlayerCalls(p) ==
  (IF p.track = {} THEN <<>> ELSE Object("track", TrackFields(UNION p.track)))
    \o TopFields(p.top)
    \o (IF p.filters = {} THEN <<>> ELSE FilterCalls(UNION p.filters))
    \o <<Call("end", NoKey)>>

UpdateSessionCalls(S) ==
  Optional("resuming", S) \o Optional("timeout", S) \o <<Call("end", NoKey)>>

DecodeTracksCalls(n) == [i \in 1..n |-> Call("item", NoKey)] \o <<Call("end", NoKey)>>

-----------------------------------------------------------------------------
VARIABLES builder,  \* the pjsonb
          script,   \* the calls of the request being built
          done,     \* how many of them were made
          wanted,   \* history: the JSON text of the calls made
          status    \* "building", "sent" or "crashed"

vars == <<builder, script, done, wanted, status>>

Begin(opening, calls) ==
  /\ builder = NewBuilder(opening)
  /\ script = calls
  /\ wanted = <<opening>>
  /\ done = 0
  /\ status = "building"

Init ==
  \/ \E p \in Players : Begin(OpenObject, UpdatePlayerCalls(p))
  \/ \E S \in SUBSET {"resuming", "timeout"} : Begin(OpenObject, UpdateSessionCalls(S))
  \/ \E n \in 0..MaxTracks : Begin(OpenArray, DecodeTracksCalls(n))

(* The next member of what is open, with a separator unless it is the      *)
(* first.                                                                  *)
Member(text) ==
  wanted \o (IF wanted[Len(wanted)] \in Openings THEN <<>> ELSE <<Comma>>) \o text

Step(op) ==
  /\ status = "building"
  /\ script[done + 1].op = op
  /\ done' = done + 1
  /\ UNCHANGED script

Key == script[done + 1].key

SetScalar ==
  /\ Step("set")
  /\ builder' = SetKeyed(builder, Key)
  /\ wanted' = Member(<<Key, Colon, Value>>)
  /\ UNCHANGED status

AddItem ==
  /\ Step("item")
  /\ builder' = SetItem(builder)
  /\ wanted' = Member(<<Value>>)
  /\ UNCHANGED status

Enter ==
  /\ Step("enter")
  /\ builder' = EnterObject(builder, Key)
  /\ wanted' = Member(<<Key, Colon, OpenObject>>)
  /\ UNCHANGED status

Leave ==
  /\ Step("leave")
  /\ builder' = LeaveObject(builder)
  /\ wanted' = wanted \o <<CloseObject>>
  /\ UNCHANGED status

SendBody ==
  /\ Step("end")
  /\ builder' = End(builder)
  /\ wanted' = wanted \o <<Closing(wanted[1])>>
  /\ status' = "sent"

CrashOnEqualizer ==
  /\ Step("crash")
  /\ builder' = EnterArray(builder, Key)
  /\ wanted' = Member(<<Key, Colon, OpenArray>>)
  /\ status' = "crashed"

Next == SetScalar \/ AddItem \/ Enter \/ Leave \/ SendBody \/ CrashOnEqualizer

Spec == Init /\ [][Next]_vars

-----------------------------------------------------------------------------
(* Every byte the builder writes in place (the bracket that replaces the   *)
(* last separator) and every byte that is sent lies inside the block that  *)
(* the snprintf of the operations before left, which is too short by a NUL *)
(* for their text.                                                         *)
TextInBlock ==
  /\ builder.toClose \in BOOLEAN
  /\ status # "crashed" => builder.position \in DOMAIN builder.block

(* A body that was asked to hold anything is the JSON text of its members, *)
(* except that separators may have become NULs: nothing else is cut off,   *)
(* left over or out of place, however objects are nested.                  *)
Repaired(s) == [i \in DOMAIN s |-> IF s[i] = Nul THEN Comma ELSE s[i]]

BodyButForSeparators ==
  status = "sent" /\ Len(script) > 1 => Repaired(Body(builder)) = wanted

(* A separator is lost exactly after a keyed value that another member     *)
(* follows: a request that sets one value per object, as the handler of    *)
(* TRACK_END does (websocket.c:128-134), and the array of                  *)
(* coglink_decode_tracks are sent as exact JSON.                           *)
ScalarFollowed ==
  \E i \in 1..(Len(script) - 1) :
    script[i].op = "set" /\ script[i + 1].op \in {"set", "enter"}

ExactUnlessScalarFollowed ==
  status = "sent" /\ Len(script) > 1 => (Body(builder) = wanted <=> ~ScalarFollowed)

-----------------------------------------------------------------------------
(* The inductive strengthening of the three, for any script that is well   *)
(* formed: cell by cell, the block holds the text wanted so far and, unless *)
(* an object was just entered, a separator.                                *)
Keys ==
  {NoKey, "track", "encoded", "identifier", "userData", "position", "endTime", "paused",
   "filters", "level", "monoLevel", "filterBand", "filterWidth", "speed", "pitch", "rate",
   "frequency", "depth", "sinOffset", "sinScale", "cosOffset", "cosScale", "tanOffset",
   "tanScale", "offset", "scale", "leftToLeft", "leftToRight", "rightToLeft",
   "rightToRight", "smoothing", "resuming", "timeout"} \cup FilterNames

Cells == Keys \cup Openings \cup {CloseObject, CloseArray, Colon, Comma, Value}

CallKinds == {"set", "item", "enter", "leave", "crash", "end"}

WellFormed(calls) ==
  /\ calls \in Seq([op : CallKinds, key : Keys])
  /\ calls # <<>>
  /\ \A i \in DOMAIN calls : calls[i].op = "end" <=> i = Len(calls)
  /\ \A i \in 1..(Len(calls) - 1) :
       /\ calls[i].op = "enter" => calls[i + 1].op # "end"
       /\ calls[i + 1].op = "item" => calls[i].op = "item"

Same(cell, c) == cell = c \/ (cell = Nul /\ c = Comma)

Held(block, text) == \A k \in DOMAIN text : Same(block[k], text[k])

LostIn(block, text) == \E k \in DOMAIN text : block[k] = Nul

LostSoFar ==
  \E i \in 1..(done - 1) : script[i].op = "set" /\ script[i + 1].op \in {"set", "enter"}

(* The last call left a separator; pjsonb's key_state.                     *)
Separated == done # 0 /\ script[done].op # "enter"

TextMatches ==
  /\ wanted \in Seq(Cells) /\ wanted # <<>> /\ wanted[1] \in Openings
  /\ builder.position = Len(wanted) + (IF Separated THEN 1 ELSE 0)
  /\ Held(builder.block, wanted)
  /\ LostIn(builder.block, wanted) <=> LostSoFar
  /\ wanted[Len(wanted)] \in Openings <=> ~Separated
  /\ Separated =>
       builder.block[builder.position] = IF script[done].op = "set" THEN Nul ELSE Comma

BodyInv ==
  /\ WellFormed(script)
  /\ builder.toClose \in BOOLEAN /\ builder.position \in Nat \ {0}
  /\ \E more \in {-1, 0, 1} : /\ DOMAIN builder.block = 1..(builder.position + more)
                              /\ more = -1 => status = "crashed"
  /\ status = "building" => /\ done \in 0..(Len(script) - 1) /\ TextMatches
                            /\ builder.toClose <=> Separated
  /\ BodyButForSeparators /\ ExactUnlessScalarFollowed
=============================================================================
