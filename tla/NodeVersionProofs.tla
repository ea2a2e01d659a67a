-------------------------- MODULE NodeVersionProofs --------------------------
(***************************************************************************)
(* Proofs about RequestTexts, for texts, ids and ports of any length the   *)
(* types allow, and about NodeVersion: coglink_parse_version stays within  *)
(* any answer that holds a character, although it is given a length and no *)
(* end, and splits every semantic version as VersionSplit says.            *)
(***************************************************************************)
EXTENDS NodeVersion, SequenceTheorems, TLAPS

OverGateway == request.kind \in {"join", "leave"}

(* What was printed so far is what the call prints.                        *)
PrintedByCall ==
  /\ stage = "called" => body = NoText /\ sentSize = 0
  /\ stage = "printed" => ~OverGateway
  /\ stage # "called" /\ ~OverGateway =>
       /\ endpoint = Path
       /\ IF request.kind = "voice" THEN body = VoiceBody /\ sentSize = BodySize - 1
          ELSE body = NoText /\ sentSize = 0
  /\ stage = "sent" /\ ~OverGateway => url = FullUrl
  /\ stage = "sent" /\ OverGateway =>
       /\ body = IF request.kind = "join" THEN JoinPayload ELSE LeavePayload
       /\ sentSize = body.wanted

TextInv == TextTypeOK /\ PrintedByCall

-----------------------------------------------------------------------------
(* snprintf leaves a text that fits, or all but the NUL of its block.      *)
LEMMA SnprintfFacts ==
  ASSUME NEW n \in Nat, NEW size \in Nat \ {0}
  PROVE  /\ Snprintf(n, size) \in [wanted : Nat, kept : Nat]
         /\ Snprintf(n, size).wanted = n
         /\ Snprintf(n, size).kept = IF n < size THEN n ELSE size - 1
BY DEF Snprintf

LEMMA ParamFacts ==
  ASSUME NEW r \in RequestParams
  PROVE  /\ r.kind \in {"player", "voice", "session", "search", "version", "join", "leave"}
         /\ r.ssl \in BOOLEAN
         /\ r.host \in Nat /\ r.port \in 1..5 /\ r.session \in Nat /\ r.guild \in 1..20
         /\ r.channel \in 1..20 /\ r.token \in Nat /\ r.address \in Nat /\ r.search \in Nat
BY DEF RequestParams

(* Each text is printed into a block that holds at least its NUL.          *)
LEMMA TextsTyped ==
  ASSUME request \in RequestParams
  PROVE  /\ ~OverGateway => Path \in [wanted : Nat, kept : Nat]
         /\ VoiceBody \in [wanted : Nat, kept : Nat]
         /\ BodySize - 1 \in Nat
         /\ JoinPayload \in [wanted : Nat, kept : Nat]
         /\ LeavePayload \in [wanted : Nat, kept : Nat]
         /\ endpoint.kept \in Nat => FullUrl \in [wanted : Nat, kept : Nat]
         /\ UrlFixed \in Nat
<1>1. /\ request.kind \in {"player", "voice", "session", "search", "version", "join", "leave"}
      /\ request.host \in Nat /\ request.port \in Nat /\ request.session \in Nat
      /\ request.guild \in Nat /\ request.channel \in Nat /\ request.token \in Nat
      /\ request.address \in Nat /\ request.search \in Nat
  BY ParamFacts
<1>2. UrlFixed \in Nat
  BY <1>1 DEF UrlFixed
<1>3. ASSUME ~OverGateway PROVE Path \in [wanted : Nat, kept : Nat]
  <2>1. PlayerPath \in [wanted : Nat, kept : Nat]
    BY <1>1 DEF PlayerPath, Snprintf, COGLINK_SESSION_ID_LENGTH, SnowflakeDigits
  <2>2. SessionPath \in [wanted : Nat, kept : Nat]
    BY <1>1 DEF SessionPath, Snprintf, COGLINK_SESSION_ID_LENGTH
  <2>3. SearchPath \in [wanted : Nat, kept : Nat] /\ VersionPath \in [wanted : Nat, kept : Nat]
    BY <1>1 DEF SearchPath, VersionPath, Snprintf
  <2>4. Path \in {PlayerPath, SessionPath, SearchPath, VersionPath}
    BY <1>1, <1>3 DEF Path, NamesGuild, OverGateway
  <2> QED BY <2>1, <2>2, <2>3, <2>4
<1>4. BodySize - 1 \in Nat /\ VoiceBody \in [wanted : Nat, kept : Nat]
  BY <1>1 DEF BodySize, VoiceBody, Snprintf
<1>5. /\ JoinPayload \in [wanted : Nat, kept : Nat]
      /\ LeavePayload \in [wanted : Nat, kept : Nat]
  BY <1>1 DEF JoinPayload, LeavePayload, Snprintf, SnowflakeDigits
<1>6. endpoint.kept \in Nat => FullUrl \in [wanted : Nat, kept : Nat]
  BY <1>1, <1>2 DEF FullUrl, Snprintf
<1> QED BY <1>2, <1>3, <1>4, <1>5, <1>6

(* TextInv is inductive.                                                   *)
LEMMA TextInvariant == TextSpec => []TextInv
<1> USE DEF OverGateway
<1>1. TextInit => TextInv
  BY TextConstants DEF TextInit, TextInv, TextTypeOK, PrintedByCall, NoText
<1>2. TextInv /\ [TextNext]_textVars => TextInv'
  <2> SUFFICES ASSUME TextInv, [TextNext]_textVars PROVE TextInv'
    OBVIOUS
  <2>1. request' = request /\ request \in RequestParams
    BY DEF TextInv, TextTypeOK, TextNext, textVars, PrintRequest, PerformRequest, SendPayload
  <2>2. CASE PrintRequest
    <3>1. /\ endpoint' = Path /\ stage' = "printed" /\ url' = url /\ ~OverGateway
          /\ IF request.kind = "voice" THEN body' = VoiceBody /\ sentSize' = BodySize - 1
             ELSE body' = NoText /\ sentSize' = 0
      BY <2>2 DEF PrintRequest, TextInv, PrintedByCall
    <3>2. Path' = Path /\ VoiceBody' = VoiceBody /\ BodySize' = BodySize
      BY <2>1 DEF Path, NamesGuild, PlayerPath, SessionPath, SearchPath, VersionPath,
                  VoiceBody, BodySize
    <3>3. TextTypeOK'
      BY <2>1, <3>1, TextsTyped DEF TextInv, TextTypeOK, NoText
    <3>4. PrintedByCall'
      BY <2>1, <3>1, <3>2 DEF PrintedByCall
    <3> QED BY <3>3, <3>4 DEF TextInv
  <2>3. CASE PerformRequest
    <3>1. /\ stage = "printed" /\ stage' = "sent" /\ url' = FullUrl
          /\ UNCHANGED <<endpoint, body, sentSize>>
      BY <2>3 DEF PerformRequest
    <3>2. /\ Path' = Path /\ VoiceBody' = VoiceBody /\ BodySize' = BodySize
          /\ FullUrl' = FullUrl
      BY <2>1, <3>1 DEF Path, NamesGuild, PlayerPath, SessionPath, SearchPath, VersionPath,
                        VoiceBody, BodySize, FullUrl, UrlFixed
    <3>3. TextTypeOK'
      BY <2>1, <3>1, TextsTyped DEF TextInv, TextTypeOK
    <3>4. ~OverGateway => PrintedByCall'
      BY <2>1, <3>1, <3>2 DEF TextInv, PrintedByCall
    <3>5. ~OverGateway
      BY <3>1 DEF TextInv, PrintedByCall
    <3> QED BY <3>3, <3>4, <3>5 DEF TextInv
  <2>4. CASE SendPayload
    <3>1. /\ OverGateway /\ stage' = "sent" /\ UNCHANGED <<endpoint, url>>
          /\ body' = IF request.kind = "join" THEN JoinPayload ELSE LeavePayload
          /\ sentSize' = body'.wanted
      BY <2>4 DEF SendPayload
    <3>2. JoinPayload' = JoinPayload /\ LeavePayload' = LeavePayload
      BY <2>1 DEF JoinPayload, LeavePayload
    <3>3. TextTypeOK'
      BY <2>1, <3>1, TextsTyped DEF TextInv, TextTypeOK
    <3>4. PrintedByCall'
      BY <2>1, <3>1, <3>2 DEF PrintedByCall
    <3> QED BY <3>3, <3>4 DEF TextInv
  <2>5. CASE UNCHANGED textVars
    BY <2>5 DEF textVars, TextInv, TextTypeOK, PrintedByCall, Path, NamesGuild, PlayerPath,
                SessionPath, SearchPath, VersionPath, VoiceBody, BodySize, FullUrl, UrlFixed,
                JoinPayload, LeavePayload
  <2> QED BY <2>2, <2>3, <2>4, <2>5 DEF TextNext
<1> QED BY <1>1, <1>2, PTL DEF TextSpec

-----------------------------------------------------------------------------
(* The URL of a request is whole exactly if ids and port fit, for every    *)
(* node and player (lib/utils.c:37-40).                                    *)
THEOREM UrlsWhole == TextSpec => []UrlWhole
<1>1. TextInv => UrlWhole
  <2> SUFFICES ASSUME TextInv, stage = "sent", ~OverGateway
               PROVE  /\ Lost = 0 <=> PathFits /\ request.port <= 4
                      /\ PathFits => Lost <= 1
    BY DEF UrlWhole, OverGateway
  <2>1. endpoint = Path /\ url = FullUrl /\ endpoint.kept \in Nat
    BY DEF TextInv, TextTypeOK, PrintedByCall
  <2>2. /\ request.kind \in {"player", "voice", "session", "search", "version"}
        /\ request.host \in Nat /\ request.port \in 1..5 /\ request.session \in Nat
        /\ request.guild \in Nat /\ request.search \in Nat
    BY ParamFacts DEF TextInv, TextTypeOK, OverGateway
  <2>3. UrlFixed \in Nat
    BY TextsTyped DEF TextInv, TextTypeOK
  <2>4. url.wanted - url.kept = IF request.port <= 4 THEN 0 ELSE 1
    <3> DEFINE n == UrlFixed + request.port + endpoint.kept
               size == UrlFixed + 4 + endpoint.kept + 1
    <3>1. n \in Nat /\ size \in Nat \ {0}
      BY <2>1, <2>2, <2>3
    <3>2. url = Snprintf(n, size)
      BY <2>1 DEF FullUrl
    <3>3. url.wanted = n /\ url.kept = IF n < size THEN n ELSE size - 1
      <4> HIDE DEF n, size
      <4> QED BY <3>1, <3>2, SnprintfFacts
    <3>4. request.port <= 4 <=> n < size
      BY <2>1, <2>2, <2>3
    <3>5. request.port > 4 => n - (size - 1) = 1
      BY <2>1, <2>2, <2>3
    <3> QED BY <2>2, <3>1, <3>3, <3>4, <3>5
  <2>5. /\ endpoint.wanted - endpoint.kept \in Nat
        /\ endpoint.wanted - endpoint.kept = 0 <=> PathFits
    <3>1. CASE NamesGuild
      <4>1. endpoint = PlayerPath
        BY <2>1, <3>1 DEF Path, NamesGuild
      <4>2. PathFits <=> request.session + request.guild <= 35
        BY <3>1 DEF PathFits, NamesGuild, COGLINK_SESSION_ID_LENGTH, SnowflakeDigits
      <4> QED BY <2>2, <4>1, <4>2 DEF PlayerPath, Snprintf,
                              COGLINK_SESSION_ID_LENGTH, SnowflakeDigits
    <3>2. CASE request.kind = "session"
      BY <2>1, <2>2, <3>2 DEF Path, PathFits, NamesGuild, SessionPath, Snprintf,
                              COGLINK_SESSION_ID_LENGTH
    <3>3. CASE request.kind = "search"
      BY <2>1, <2>2, <3>3 DEF Path, PathFits, NamesGuild, SearchPath, Snprintf
    <3>4. CASE request.kind = "version"
      BY <2>1, <2>2, <3>4 DEF Path, PathFits, NamesGuild, VersionPath, Snprintf
    <3> QED BY <2>2, <3>1, <3>2, <3>3, <3>4 DEF NamesGuild
  <2>6. Lost = (endpoint.wanted - endpoint.kept) + (url.wanted - url.kept)
    BY DEF Lost
  <2>7. request.port <= 4 <=> url.wanted - url.kept = 0
    BY <2>2, <2>4
  <2>8. url.wanted - url.kept \in {0, 1}
    BY <2>4
  <2> QED BY <2>5, <2>6, <2>7, <2>8
<1> QED BY <1>1, TextInvariant, PTL

(* No length that is sent is larger than the text in its block, for every  *)
(* id of 64 bits (lib/rest.c:54-70, lib/websocket.c:258-274).              *)
THEOREM SentIsPrinted == TextSpec => []SentWasPrinted
<1>1. TextInv => SentWasPrinted
  <2> SUFFICES ASSUME TextInv, stage = "sent" PROVE sentSize <= body.kept
    BY DEF SentWasPrinted
  <2>1. /\ request.guild \in 1..20 /\ request.channel \in 1..20 /\ request.token \in Nat
        /\ request.address \in Nat /\ request.session \in Nat
    BY ParamFacts DEF TextInv, TextTypeOK
  <2>2. CASE OverGateway
    <3>1. /\ body = IF request.kind = "join" THEN JoinPayload ELSE LeavePayload
          /\ sentSize = body.wanted
      BY <2>2 DEF TextInv, PrintedByCall
    <3>2. JoinPayload.wanted <= JoinPayload.kept
      BY <2>1 DEF JoinPayload, Snprintf, SnowflakeDigits
    <3>3. LeavePayload.wanted <= LeavePayload.kept
      BY <2>1 DEF LeavePayload, Snprintf, SnowflakeDigits
    <3> QED BY <3>1, <3>2, <3>3
  <2>3. CASE ~OverGateway /\ request.kind = "voice"
    <3>1. body = VoiceBody /\ sentSize = BodySize - 1
      BY <2>3 DEF TextInv, PrintedByCall
    <3> QED BY <2>1, <3>1 DEF VoiceBody, BodySize, Snprintf
  <2>4. CASE ~OverGateway /\ request.kind # "voice"
    <3>1. body = NoText /\ sentSize = 0
      BY <2>4 DEF TextInv, PrintedByCall
    <3> QED BY <3>1 DEF NoText
  <2> QED BY <2>2, <2>3, <2>4
<1> QED BY <1>1, TextInvariant, PTL

(* The voice PATCH is always cut, and never before the end of the session  *)
(* id (lib/websocket.c:258-268).                                           *)
THEOREM SessionsKept == TextSpec => []SessionKept
<1>1. TextInv => SessionKept
  <2> SUFFICES ASSUME TextInv, stage = "sent", request.kind = "voice"
               PROVE  /\ body.kept < body.wanted
                      /\ body.kept >= 49 + request.token + request.address + request.session
    BY DEF SessionKept
  <2>1. /\ request.channel \in 1..20 /\ request.token \in Nat
        /\ request.address \in Nat /\ request.session \in Nat
    BY ParamFacts DEF TextInv, TextTypeOK
  <2>2. body = VoiceBody
    BY DEF TextInv, PrintedByCall, OverGateway
  <2> QED BY <2>1, <2>2 DEF VoiceBody, BodySize, Snprintf
<1> QED BY <1>1, TextInvariant, PTL

-----------------------------------------------------------------------------

(* The version's text, put together from its parts.                        *)
LEMMA TextIsChars == ASSUME NEW v \in Versions PROVE Text(v) \in Chars
<1>1. /\ v.major \in Seq(Characters) /\ v.minor \in Seq(Characters) /\ v.patch \in Seq(Characters)
      /\ v.pre \in Seq(Characters) /\ v.build \in Seq(Characters)
  BY VersionConstants DEF Chars
<1>2. "." \in Characters /\ "-" \in Characters /\ "+" \in Characters
  BY VersionConstants
<1>3. <<".">> \in Seq(Characters) /\ <<"-">> \in Seq(Characters) /\ <<"+">> \in Seq(Characters)
      /\ <<>> \in Seq(Characters)
  BY <1>2
<1>4. /\ (IF v.pre = <<>> THEN <<>> ELSE <<"-">> \o v.pre) \in Seq(Characters)
      /\ (IF v.build = <<>> THEN <<>> ELSE <<"+">> \o v.build) \in Seq(Characters)
  BY <1>1, <1>3
<1>5. v.major \o <<".">> \o v.minor \o <<".">> \o v.patch \in Seq(Characters)
  BY <1>1, <1>3
<1> QED BY <1>4, <1>5 DEF Text, Chars

(* An answer comes in whole, and the parser starts at its beginning.       *)
LEMMA AnswerStep ==
  ASSUME ParserInv, Answer
  PROVE  ParserInv'
<1>1. /\ left' = Len(answer') /\ parse' = "parsing" /\ i = 0 /\ last_info = 0
      /\ UNCHANGED <<i, last_info>>
  BY DEF Answer, ParserInv
<1>2. answer' \in Bodies \cup {Text(v) : v \in Versions} /\ answer' \in Chars
  BY TextIsChars, VersionConstants DEF Answer
<1>3. Len(answer') < SizeWords
  BY <1>2, VersionConstants
<1>4. answer' # <<>> => Len(answer') \in Nat \ {0}
  BY <1>2 DEF Chars
<1> QED BY <1>1, <1>2, <1>3, <1>4 DEF ParserInv, ParsesInBlock

(* As long as a character is left, one less does not wrap around.          *)
LEMMA LeftIsLess ==
  ASSUME ParserInv, parse = "parsing", answer # <<>>
  PROVE  LeftNext = left - 1
<1>1. left \in Nat \ {0} /\ left <= Len(answer) /\ Len(answer) < SizeWords
      /\ Len(answer) \in Nat /\ SizeWords \in Nat
  BY VersionConstants DEF ParserInv, Chars
<1>2. left - 1 \in 0..(SizeWords - 1)
  BY <1>1
<1> QED BY <1>1, <1>2 DEF LeftNext

(* Every iteration of the loop reads and copies within the answer.         *)
LEMMA ParseStep ==
  ASSUME ParserInv, Parse
  PROVE  ParserInv'
<1>1. /\ parse = "parsing" /\ answer' = answer
      /\ parse' \in {"parsing", "done", "failed", "fault"}
  BY DEF Parse, ReadDot, ReadDash, ReadPlus, ReadOther, ReadPastEnd, ReadLast, Reads, ParserInv
<1>2. CASE answer = <<>>
  BY <1>1, <1>2 DEF ParserInv, ParsesInBlock
<1>3. CASE answer # <<>>
  <2>1. /\ left \in Nat \ {0} /\ i \in Nat /\ left + i = Len(answer) /\ last_info \in 0..i
        /\ LeftNext = left - 1
    BY <1>1, <1>3, LeftIsLess DEF ParserInv
  <2>2. parse' = "parsing" =>
          left' = LeftNext /\ LeftNext # 0 /\ i' = i + 1 /\ last_info' \in {last_info, i + 1}
    BY <1>1 DEF Parse, ReadDot, ReadDash, ReadPlus, ReadOther, ReadPastEnd, ReadLast, Reads
  <2>3. parse' # "fault"
    <3>1. CASE ReadPlus
      BY <2>1, <3>1 DEF ReadPlus
    <3>2. CASE ReadPastEnd
      BY <2>1, <3>2 DEF ReadPastEnd
    <3> QED BY <1>1, <3>1, <3>2 DEF Parse, ReadDot, ReadDash, ReadOther, ReadLast, Reads
  <2> QED BY <1>1, <2>1, <2>2, <2>3 DEF ParserInv, ParsesInBlock
<1> QED BY <1>2, <1>3

-----------------------------------------------------------------------------
(* What is left of the answer and what was read of it add up, whatever     *)
(* separators were met.                                                    *)
THEOREM ParserInvariant == Spec => []ParserInv
<1>1. Init => ParserInv
  <2>1. <<>> \in Seq(Characters) /\ Len(<<>>) = 0
    OBVIOUS
  <2> QED BY <2>1, VersionConstants DEF Init, ParserInv, ParsesInBlock, Chars
<1>2. ParserInv /\ [Next]_vars => ParserInv'
  <2> SUFFICES ASSUME ParserInv, [Next]_vars PROVE ParserInv'
    OBVIOUS
  <2>1. CASE UNCHANGED <<answer, left, i, last_info, parse>>
    BY <2>1 DEF ParserInv, ParsesInBlock
  <2> QED BY <2>1, AnswerStep, ParseStep DEF Next, vars
<1> QED BY <1>1, <1>2, PTL DEF Spec

(* The parser leaves no answer that holds a character, of any length and   *)
(* with any separators, be it a version or not.                            *)
THEOREM ParsesWithin == Spec => []ParsesInBlock
<1>1. ParserInv => ParsesInBlock
  BY DEF ParserInv
<1> QED BY <1>1, ParserInvariant, PTL

-----------------------------------------------------------------------------
(* What atoi makes of a number depends on its digits alone, whatever       *)
(* follows them.                                                           *)
LEMMA DigitFacts == \A c \in Digits : c \notin {".", "-", "+"}
BY DEF Digits, DigitNames

(* Texts that agree up to a character that is no digit lead with one      *)
(* number.                                                                 *)
LEMMA LeadingPrefix ==
  ASSUME NEW t \in Chars, NEW s \in Chars, Len(s) <= Len(t),
         \A k \in 1..Len(s) : t[k] = s[k],
         Len(s) < Len(t) => t[Len(s) + 1] \notin Digits
  PROVE  LeadingNumber(t) = LeadingNumber(s)
<1> DEFINE X == LeadingDigits(t)
           Y == LeadingDigits(s)
<1>1. /\ Len(s) \in Nat /\ DOMAIN s = 1..Len(s)
      /\ Len(t) \in Nat /\ DOMAIN t = 1..Len(t)
  BY LenProperties DEF Chars
<1>2. ASSUME NEW k \in X PROVE k \in 1..Len(s)
  <2>1. k \in 1..Len(t) /\ \A j \in 1..k : t[j] \in Digits
    BY <1>1 DEF LeadingDigits
  <2>2. CASE k > Len(s)
    <3>1. Len(s) + 1 \in 1..k /\ Len(s) < Len(t)
      BY <1>1, <2>1, <2>2
    <3> QED BY <2>1, <3>1
  <2> QED BY <1>1, <2>1, <2>2
<1>3. ASSUME NEW k \in 1..Len(s) PROVE k \in X <=> k \in Y
  <2>1. \A j \in 1..k : t[j] = s[j]
    BY <1>1
  <2> QED BY <1>1, <2>1 DEF LeadingDigits
<1>4. Y \subseteq 1..Len(s)
  BY <1>1 DEF LeadingDigits
<1> HIDE DEF X, Y
<1>5. X = Y /\ \A k \in Y : t[k] = s[k]
  BY <1>2, <1>3, <1>4
<1>6. [k \in X |-> t[k]] = [k \in Y |-> s[k]]
  BY <1>5
<1> QED BY <1>6 DEF LeadingNumber, X, Y

(* atoi, given a place in a text, returns the number of the piece there.   *)
LEMMA AtoiPiece ==
  ASSUME NEW t \in Chars, NEW s \in Chars, s # <<>>, NEW p \in Nat, p + Len(s) <= Len(t),
         \A k \in 1..Len(s) : t[p + k] = s[k],
         p + Len(s) < Len(t) => t[p + Len(s) + 1] \notin Digits
  PROVE  Atoi(SubSeq(t, p + 1, Len(t))) = Atoi(s)
<1> DEFINE u == SubSeq(t, p + 1, Len(t))
<1>1. Len(s) \in Nat \ {0} /\ Len(t) \in Nat
  BY EmptySeq, LenProperties DEF Chars
<1>2. /\ u \in Seq(Characters) /\ Len(u) = Len(t) - p
      /\ \A k \in 1..(Len(t) - p) : u[k] = t[p + k]
  <2>1. p + 1 \in 1..Len(t)+1 /\ Len(t) \in p..Len(t) /\ Len(t) - (p + 1) + 1 = Len(t) - p
    BY <1>1
  <2>2. /\ u \in Seq(Characters) /\ Len(u) = Len(t) - p
        /\ \A k \in 1..(Len(t) - p) : u[k] = t[(p + 1) + k - 1]
    BY <1>1, SubSeqProperties DEF Chars
  <2>3. \A k \in 1..(Len(t) - p) : (p + 1) + k - 1 = p + k
    BY <1>1
  <2> QED BY <2>2, <2>3
<1> HIDE DEF u
<1>3. /\ u \in Chars /\ u # <<>> /\ Len(s) <= Len(u)
      /\ \A k \in 1..Len(s) : u[k] = s[k]
      /\ Len(s) < Len(u) => u[Len(s) + 1] \notin Digits
  <2>1. \A k \in 1..Len(s) : k \in 1..(Len(t) - p)
    BY <1>1
  <2>2. Len(s) < Len(u) => Len(s) + 1 \in 1..(Len(t) - p) /\ p + (Len(s) + 1) = p + Len(s) + 1
    BY <1>1, <1>2
  <2>3. Len(u) # 0 /\ Len(s) <= Len(u)
    BY <1>1, <1>2
  <2>4. u # <<>>
    BY <1>2, <2>3, EmptySeq
  <2> QED BY <1>1, <1>2, <2>1, <2>2, <2>3, <2>4 DEF Chars
<1>4. Head(u) = Head(s)
  <2>1. 1 \in 1..Len(s)
    BY <1>1
  <2>2. Head(u) = u[1] /\ Head(s) = s[1]
    BY <1>3, HeadTailProperties DEF Chars
  <2> QED BY <1>3, <2>1, <2>2
<1>5. LeadingNumber(u) = LeadingNumber(s)
  BY <1>3, LeadingPrefix
<1>6. LeadingNumber(Tail(u)) = LeadingNumber(Tail(s))
  <2>1. /\ Tail(s) \in Chars /\ Len(Tail(s)) = Len(s) - 1
        /\ \A k \in 1..(Len(s) - 1) : Tail(s)[k] = s[k + 1]
    BY HeadTailProperties DEF Chars
  <2>2. /\ Tail(u) \in Chars /\ Len(Tail(u)) = Len(u) - 1
        /\ \A k \in 1..(Len(u) - 1) : Tail(u)[k] = u[k + 1]
    BY <1>3, HeadTailProperties DEF Chars
  <2>3. /\ \A k \in 1..(Len(s) - 1) : k + 1 \in 1..Len(s) /\ k \in 1..(Len(u) - 1)
        /\ Len(s) - 1 <= Len(u) - 1
    BY <1>1, <1>2, <1>3
  <2>4. \A k \in 1..(Len(s) - 1) : Tail(u)[k] = Tail(s)[k]
    BY <1>3, <2>1, <2>2, <2>3
  <2>5. Len(Tail(s)) < Len(Tail(u)) => Tail(u)[Len(Tail(s)) + 1] \notin Digits
    <3> HAVE Len(Tail(s)) < Len(Tail(u))
    <3>1. Len(s) < Len(u) /\ Len(Tail(s)) + 1 = Len(s) /\ Len(s) \in 1..(Len(u) - 1)
      BY <1>1, <1>2, <2>1, <2>2
    <3> QED BY <1>3, <2>2, <3>1
  <2> QED BY <2>1, <2>2, <2>3, <2>4, <2>5, LeadingPrefix
<1> QED BY <1>3, <1>4, <1>5, <1>6 DEF Atoi, u

-----------------------------------------------------------------------------
(* Where the parts of a version lie in its text, from 0.                   *)
FirstDot(v) == Len(v.major)
SecondDot(v) == FirstDot(v) + 1 + Len(v.minor)
PatchEnd(v) == SecondDot(v) + 1 + Len(v.patch)
PreEnd(v) == IF v.pre = <<>> THEN PatchEnd(v) ELSE PatchEnd(v) + 1 + Len(v.pre)
End(v) == IF v.build = <<>> THEN PreEnd(v) ELSE PreEnd(v) + 1 + Len(v.build)

(* The parts are texts, and none of the three numbers is empty.            *)
LEMMA PartFacts ==
  ASSUME NEW v \in Versions
  PROVE  /\ v.major \in Seq(Characters) /\ v.minor \in Seq(Characters)
         /\ v.patch \in Seq(Characters) /\ v.pre \in Seq(Characters)
         /\ v.build \in Seq(Characters)
         /\ Len(v.major) \in Nat \ {0} /\ Len(v.minor) \in Nat \ {0}
         /\ Len(v.patch) \in Nat \ {0} /\ Len(v.pre) \in Nat /\ Len(v.build) \in Nat
         /\ v.pre # <<>> => Len(v.pre) # 0
         /\ v.build # <<>> => Len(v.build) # 0
         /\ v.major # <<>> /\ v.minor # <<>> /\ v.patch # <<>>
         /\ \A k \in 1..Len(v.major) : v.major[k] \in Digits
         /\ \A k \in 1..Len(v.minor) : v.minor[k] \in Digits
         /\ \A k \in 1..Len(v.patch) : v.patch[k] \in Digits
         /\ DOMAIN v.pre = 1..Len(v.pre)
         /\ \A k \in 1..Len(v.pre) : v.pre[k] # "+"
<1>1. /\ v.major \in Seq(Characters) /\ v.minor \in Seq(Characters)
      /\ v.patch \in Seq(Characters) /\ v.pre \in Seq(Characters)
      /\ v.build \in Seq(Characters)
  BY VersionConstants DEF Chars
<1>2. /\ v.major \in Seq(Digits) /\ v.major # <<>> /\ v.minor \in Seq(Digits)
      /\ v.minor # <<>> /\ v.patch \in Seq(Digits) /\ v.patch # <<>>
      /\ \A k \in DOMAIN v.pre : v.pre[k] # "+"
  BY VersionGrammar DEF Numerals
<1>3. \A S : \A s \in Seq(S) : /\ Len(s) \in Nat /\ DOMAIN s = 1..Len(s)
                              /\ s # <<>> => Len(s) # 0
                              /\ \A k \in 1..Len(s) : s[k] \in S
  BY LenProperties, EmptySeq, ElementOfSeq
<1> QED BY <1>1, <1>2, <1>3

(* What a joined text is made of.                                          *)
LEMMA Joined ==
  ASSUME NEW C, NEW s \in Seq(C), NEW u \in Seq(C)
  PROVE  /\ s \o u \in Seq(C) /\ Len(s \o u) = Len(s) + Len(u)
         /\ Len(s) \in Nat /\ Len(u) \in Nat
         /\ \A k \in 1..Len(s) : (s \o u)[k] = s[k]
         /\ \A k \in 1..Len(u) : (s \o u)[Len(s) + k] = u[k]
<1>1. /\ s \o u \in Seq(C) /\ Len(s \o u) = Len(s) + Len(u)
      /\ \A k \in 1..(Len(s) + Len(u)) :
           (s \o u)[k] = IF k <= Len(s) THEN s[k] ELSE u[k - Len(s)]
  BY ConcatProperties
<1>2. Len(s) \in Nat /\ Len(u) \in Nat
  BY LenProperties
<1>3. \A k \in 1..Len(s) : k \in 1..(Len(s) + Len(u)) /\ k <= Len(s)
  BY <1>2
<1>4. \A k \in 1..Len(u) : /\ Len(s) + k \in 1..(Len(s) + Len(u)) /\ ~(Len(s) + k <= Len(s))
                           /\ (Len(s) + k) - Len(s) = k
  BY <1>2
<1> QED BY <1>1, <1>2, <1>3, <1>4

(* The text u contains the text s from p on.                               *)
Holds(u, p, s) == p \in Nat /\ p + Len(s) <= Len(u) /\ \A k \in 1..Len(s) : u[p + k] = s[k]

(* A joined text contains what its first part does, then its second part.  *)
LEMMA HoldsBoth ==
  ASSUME NEW C, NEW s \in Seq(C), NEW u \in Seq(C), NEW w \in Seq(C), NEW p, Holds(s, p, w)
  PROVE  Holds(s \o u, p, w) /\ Holds(s \o u, Len(s), u)
<1>1. Len(w) \in Nat
  BY LenProperties
<1>2. \A k \in 1..Len(w) : p + k \in 1..Len(s)
  BY <1>1, Joined DEF Holds
<1>3. Holds(s \o u, p, w)
  <2>1. p + Len(w) <= Len(s \o u)
    BY <1>1, Joined DEF Holds
  <2>2. \A k \in 1..Len(w) : (s \o u)[p + k] = w[k]
    BY <1>2, Joined DEF Holds
  <2> QED BY <2>1, <2>2 DEF Holds
<1>4. Holds(s \o u, Len(s), u)
  BY Joined DEF Holds
<1> QED BY <1>3, <1>4

LEMMA HoldsLast ==
  ASSUME NEW C, NEW s \in Seq(C), NEW u \in Seq(C)
  PROVE  Holds(s \o u, Len(s), u)
BY Joined DEF Holds

(* The places are in order.                                                *)
LEMMA PlacesTyped ==
  ASSUME NEW v \in Versions
  PROVE  /\ FirstDot(v) \in Nat \ {0} /\ SecondDot(v) \in Nat /\ PatchEnd(v) \in Nat
         /\ PreEnd(v) \in Nat /\ End(v) \in Nat
         /\ FirstDot(v) < SecondDot(v) /\ SecondDot(v) + 1 < PatchEnd(v)
         /\ PatchEnd(v) <= PreEnd(v) /\ PreEnd(v) <= End(v)
<1>1. /\ Len(v.major) \in Nat \ {0} /\ Len(v.minor) \in Nat \ {0}
      /\ Len(v.patch) \in Nat \ {0} /\ Len(v.pre) \in Nat /\ Len(v.build) \in Nat
  BY PartFacts
<1>2. FirstDot(v) \in Nat \ {0}
  BY <1>1 DEF FirstDot
<1>3. SecondDot(v) \in Nat /\ FirstDot(v) < SecondDot(v)
  BY <1>1, <1>2 DEF SecondDot
<1>4. PatchEnd(v) \in Nat /\ SecondDot(v) + 1 < PatchEnd(v)
  BY <1>1, <1>3 DEF PatchEnd
<1>5. PreEnd(v) \in Nat /\ PatchEnd(v) <= PreEnd(v)
  BY <1>1, <1>4 DEF PreEnd
<1>6. End(v) \in Nat /\ PreEnd(v) <= End(v)
  BY <1>1, <1>5 DEF End
<1> QED BY <1>2, <1>3, <1>4, <1>5, <1>6

(* The parts of a version in its text, each where it is due.               *)
LEMMA TextHolds ==
  ASSUME NEW v \in Versions
  PROVE  /\ Text(v) \in Chars /\ Len(Text(v)) = End(v)
         /\ Holds(Text(v), 0, v.major) /\ Holds(Text(v), FirstDot(v), <<".">>)
         /\ Holds(Text(v), FirstDot(v) + 1, v.minor)
         /\ Holds(Text(v), SecondDot(v), <<".">>)
         /\ Holds(Text(v), SecondDot(v) + 1, v.patch)
         /\ v.pre # <<>> => Holds(Text(v), PatchEnd(v), <<"-">> \o v.pre)
         /\ v.build # <<>> => Holds(Text(v), PreEnd(v), <<"+">> \o v.build)
<1> DEFINE S == Seq(Characters)
           dot == <<".">>
           X == IF v.pre = <<>> THEN <<>> ELSE <<"-">> \o v.pre
           Y == IF v.build = <<>> THEN <<>> ELSE <<"+">> \o v.build
           s1 == v.major \o dot
           s2 == s1 \o v.minor
           s3 == s2 \o dot
           s4 == s3 \o v.patch
           s5 == s4 \o X
           s6 == s5 \o Y
<1>1. /\ v.major \in S /\ v.minor \in S /\ v.patch \in S /\ v.pre \in S /\ v.build \in S
      /\ Len(v.major) \in Nat /\ Len(v.minor) \in Nat /\ Len(v.patch) \in Nat
      /\ Len(v.pre) \in Nat /\ Len(v.build) \in Nat
  BY PartFacts
<1>2. "." \in Characters /\ "-" \in Characters /\ "+" \in Characters
  BY VersionConstants
<1>3. dot \in S /\ Len(dot) = 1
  BY <1>2
<1>4. X \in S /\ Len(X) = IF v.pre = <<>> THEN 0 ELSE 1 + Len(v.pre)
  <2>1. <<"-">> \in S /\ Len(<<"-">>) = 1 /\ <<>> \in S /\ Len(<<>>) = 0
    BY <1>2
  <2> QED BY <1>1, <2>1, Joined
<1>5. Y \in S /\ Len(Y) = IF v.build = <<>> THEN 0 ELSE 1 + Len(v.build)
  <2>1. <<"+">> \in S /\ Len(<<"+">>) = 1 /\ <<>> \in S /\ Len(<<>>) = 0
    BY <1>2
  <2> QED BY <1>1, <2>1, Joined
<1>6. Text(v) = s6
  BY DEF Text
<1> HIDE DEF X, Y, dot, s1, s2, s3, s4, s5, s6
<1>7. s1 \in S /\ Len(s1) = FirstDot(v) + 1
  <2>1. s1 \in S /\ Len(s1) = Len(v.major) + Len(dot)
    BY <1>1, <1>3, Joined DEF s1
  <2> QED BY <1>3, <2>1 DEF FirstDot
<1>8. s2 \in S /\ Len(s2) = SecondDot(v)
  <2>1. s2 \in S /\ Len(s2) = Len(s1) + Len(v.minor)
    BY <1>1, <1>7, Joined DEF s2
  <2> QED BY <1>7, <2>1 DEF SecondDot
<1>9. s3 \in S /\ Len(s3) = SecondDot(v) + 1
  BY <1>3, <1>8, Joined DEF s3
<1>10. s4 \in S /\ Len(s4) = PatchEnd(v)
  <2>1. s4 \in S /\ Len(s4) = Len(s3) + Len(v.patch)
    BY <1>1, <1>9, Joined DEF s4
  <2> QED BY <1>9, <2>1 DEF PatchEnd
<1>11. s5 \in S /\ Len(s5) = PreEnd(v)
  <2>1. Len(s4) + Len(X) = PreEnd(v)
    <3>1. PatchEnd(v) \in Nat
      BY PlacesTyped
    <3>2. CASE v.pre = <<>>
      <4>1. PreEnd(v) = PatchEnd(v) /\ Len(X) = 0
        BY <1>4, <3>2 DEF PreEnd
      <4> QED BY <1>10, <3>1, <4>1
    <3>3. CASE v.pre # <<>>
      <4>1. PreEnd(v) = PatchEnd(v) + 1 + Len(v.pre) /\ Len(X) = 1 + Len(v.pre)
        BY <1>4, <3>3 DEF PreEnd
      <4> QED BY <1>1, <1>10, <3>1, <4>1
    <3> QED BY <3>2, <3>3
  <2> QED BY <1>4, <1>10, <2>1, Joined DEF s5
<1>12. s6 \in S /\ Len(s6) = End(v)
  <2>1. Len(s5) + Len(Y) = End(v)
    <3>1. PreEnd(v) \in Nat
      BY PlacesTyped
    <3>2. CASE v.build = <<>>
      <4>1. End(v) = PreEnd(v) /\ Len(Y) = 0
        BY <1>5, <3>2 DEF End
      <4> QED BY <1>11, <3>1, <4>1
    <3>3. CASE v.build # <<>>
      <4>1. End(v) = PreEnd(v) + 1 + Len(v.build) /\ Len(Y) = 1 + Len(v.build)
        BY <1>5, <3>3 DEF End
      <4> QED BY <1>1, <1>11, <3>1, <4>1
    <3> QED BY <3>2, <3>3
  <2> QED BY <1>5, <1>11, <2>1, Joined DEF s6
<1>13. ASSUME NEW w \in S, NEW p, Holds(s5, p, w) PROVE Holds(s6, p, w)
  BY <1>5, <1>11, <1>13, HoldsBoth DEF s6
<1>14. ASSUME NEW w \in S, NEW p, Holds(s4, p, w) PROVE Holds(s6, p, w)
  <2>1. Holds(s5, p, w)
    BY <1>4, <1>10, <1>14, HoldsBoth DEF s5
  <2> QED BY <1>13, <2>1
<1>15. ASSUME NEW w \in S, NEW p, Holds(s2, p, w) PROVE Holds(s6, p, w)
  <2>1. Holds(s3, p, w)
    BY <1>3, <1>8, <1>15, HoldsBoth DEF s3
  <2>2. Holds(s4, p, w)
    BY <1>1, <1>9, <2>1, HoldsBoth DEF s4
  <2> QED BY <1>14, <2>2
<1>16. Holds(s6, 0, v.major) /\ Holds(s6, FirstDot(v), dot)
  <2>1. Holds(v.major, 0, v.major)
    BY <1>1 DEF Holds
  <2>2. Holds(s1, 0, v.major) /\ Holds(s1, FirstDot(v), dot)
    BY <1>1, <1>3, <2>1, HoldsBoth DEF s1, FirstDot
  <2>3. Holds(s2, 0, v.major) /\ Holds(s2, FirstDot(v), dot)
    BY <1>1, <1>3, <1>7, <2>2, HoldsBoth DEF s2
  <2> QED BY <1>1, <1>3, <1>15, <2>3
<1>17. Holds(s6, FirstDot(v) + 1, v.minor)
  <2>1. Holds(s2, FirstDot(v) + 1, v.minor)
    BY <1>1, <1>7, HoldsLast DEF s2
  <2> QED BY <1>1, <1>15, <2>1
<1>18. Holds(s6, SecondDot(v), dot)
  <2>1. Holds(s3, SecondDot(v), dot)
    BY <1>3, <1>8, HoldsLast DEF s3
  <2>2. Holds(s4, SecondDot(v), dot)
    BY <1>1, <1>3, <1>9, <2>1, HoldsBoth DEF s4
  <2> QED BY <1>3, <1>14, <2>2
<1>19. Holds(s6, SecondDot(v) + 1, v.patch)
  <2>1. Holds(s4, SecondDot(v) + 1, v.patch)
    BY <1>1, <1>9, HoldsLast DEF s4
  <2> QED BY <1>1, <1>14, <2>1
<1>20. Holds(s6, PatchEnd(v), X)
  <2>1. Holds(s5, PatchEnd(v), X)
    BY <1>4, <1>10, HoldsLast DEF s5
  <2> QED BY <1>4, <1>13, <2>1
<1>21. Holds(s6, PreEnd(v), Y)
  BY <1>5, <1>11, HoldsLast DEF s6
<1>22. s6 \in Chars
  BY <1>12 DEF Chars
<1> QED BY <1>6, <1>12, <1>16, <1>17, <1>18, <1>19, <1>20, <1>21, <1>22 DEF X, Y, dot

(* Its characters, one by one.                                             *)
LEMMA TextFacts ==
  ASSUME NEW v \in Versions, NEW t, t = Text(v)
  PROVE  /\ t \in Chars /\ Len(t) = End(v)
         /\ \A k \in 1..Len(v.major) : t[k] = v.major[k]
         /\ t[FirstDot(v) + 1] = "."
         /\ \A k \in 1..Len(v.minor) : t[FirstDot(v) + 1 + k] = v.minor[k]
         /\ t[SecondDot(v) + 1] = "."
         /\ \A k \in 1..Len(v.patch) : t[SecondDot(v) + 1 + k] = v.patch[k]
         /\ v.pre # <<>> =>
              /\ t[PatchEnd(v) + 1] = "-"
              /\ \A k \in 1..Len(v.pre) : t[PatchEnd(v) + 1 + k] = v.pre[k]
         /\ v.build # <<>> => t[PreEnd(v) + 1] = "+"
<1>1. /\ t \in Chars /\ Len(t) = End(v)
      /\ Holds(t, 0, v.major) /\ Holds(t, FirstDot(v), <<".">>)
      /\ Holds(t, FirstDot(v) + 1, v.minor)
      /\ Holds(t, SecondDot(v), <<".">>)
      /\ Holds(t, SecondDot(v) + 1, v.patch)
      /\ v.pre # <<>> => Holds(t, PatchEnd(v), <<"-">> \o v.pre)
      /\ v.build # <<>> => Holds(t, PreEnd(v), <<"+">> \o v.build)
  BY TextHolds
<1>2. ASSUME NEW c, NEW p, Holds(t, p, <<c>>) PROVE t[p + 1] = c
  <2>1. Len(<<c>>) = 1 /\ <<c>>[1] = c
    OBVIOUS
  <2> QED BY <1>2, <2>1 DEF Holds
<1>3. ASSUME NEW c \in Characters, NEW s \in Seq(Characters), NEW p,
             Holds(t, p, <<c>> \o s)
      PROVE  t[p + 1] = c /\ \A k \in 1..Len(s) : t[p + 1 + k] = s[k]
  <2> DEFINE u == <<c>> \o s
  <2>1. <<c>> \in Seq(Characters) /\ Len(<<c>>) = 1 /\ <<c>>[1] = c
    OBVIOUS
  <2>2. /\ Len(u) = 1 + Len(s) /\ Len(s) \in Nat /\ u[1] = c
        /\ \A k \in 1..Len(s) : u[1 + k] = s[k]
    BY <2>1, Joined
  <2> HIDE DEF u
  <2>3. p \in Nat /\ \A k \in 1..Len(u) : t[p + k] = u[k]
    BY <1>3 DEF Holds, u
  <2>4. 1 \in 1..Len(u) /\ \A k \in 1..Len(s) : 1 + k \in 1..Len(u) /\ p + 1 + k = p + (1 + k)
    BY <2>2, <2>3
  <2> QED BY <2>2, <2>3, <2>4
<1>4. "." \in Characters /\ "-" \in Characters /\ "+" \in Characters
  BY VersionConstants
<1>5. v.pre \in Seq(Characters) /\ v.build \in Seq(Characters) /\ Len(v.major) \in Nat
  BY PartFacts
<1>6. \A k \in 1..Len(v.major) : t[k] = v.major[k]
  <2>1. \A k \in 1..Len(v.major) : 0 + k = k
    BY <1>5
  <2> QED BY <1>1, <2>1 DEF Holds
<1>7. /\ \A k \in 1..Len(v.minor) : t[FirstDot(v) + 1 + k] = v.minor[k]
      /\ \A k \in 1..Len(v.patch) : t[SecondDot(v) + 1 + k] = v.patch[k]
  BY <1>1 DEF Holds
<1> QED BY <1>1, <1>2, <1>3, <1>4, <1>5, <1>6, <1>7

(* atoi finds each number, and what is left of the pre-release.            *)
LEMMA NumbersFound ==
  ASSUME NEW v \in Versions, NEW t, t = Text(v)
  PROVE  /\ Atoi(SubSeq(t, 1, Len(t))) = Atoi(v.major)
         /\ Atoi(SubSeq(t, FirstDot(v) + 2, Len(t))) = Atoi(v.minor)
         /\ Atoi(SubSeq(t, SecondDot(v) + 2, Len(t))) = Atoi(v.patch)
         /\ \A b \in 0..(Len(v.pre) - 1) :
              Atoi(SubSeq(t, PatchEnd(v) + 1 + b + 1, Len(t)))
                = Atoi(SubSeq(v.pre, b + 1, Len(v.pre)))
<1>1. "." \notin Digits /\ "-" \notin Digits /\ "+" \notin Digits
  BY DigitFacts
<1> DEFINE S == Seq(Characters)
<1>2. /\ v.major \in S /\ v.minor \in S /\ v.patch \in S /\ v.pre \in S
      /\ v.major # <<>> /\ v.minor # <<>> /\ v.patch # <<>>
      /\ Len(v.major) \in Nat /\ Len(v.minor) \in Nat
      /\ Len(v.patch) \in Nat /\ Len(v.pre) \in Nat
  BY PartFacts
<1>3. /\ FirstDot(v) \in Nat /\ SecondDot(v) \in Nat /\ PatchEnd(v) \in Nat
       /\ PreEnd(v) \in Nat /\ End(v) \in Nat
       /\ FirstDot(v) < SecondDot(v) /\ SecondDot(v) + 1 < PatchEnd(v)
       /\ PatchEnd(v) <= PreEnd(v) /\ PreEnd(v) <= End(v)
  BY PlacesTyped
<1>4. t \in S /\ Len(t) = End(v)
  BY TextFacts DEF Chars
<1>5. ASSUME NEW s \in S, s # <<>>, NEW p \in Nat, p + Len(s) <= Len(t),
              \A k \in 1..Len(s) : t[p + k] = s[k],
              p + Len(s) < Len(t) => t[p + Len(s) + 1] \notin Digits
       PROVE  Atoi(SubSeq(t, p + 1, Len(t))) = Atoi(s)
  BY <1>4, <1>5, AtoiPiece DEF Chars
<1>6. Atoi(SubSeq(t, 1, Len(t))) = Atoi(v.major)
  <2>1. 0 + Len(v.major) <= Len(t) /\ 0 + Len(v.major) + 1 = FirstDot(v) + 1 /\ 0 \in Nat
    BY <1>2, <1>3, <1>4 DEF FirstDot
  <2>2. \A k \in 1..Len(v.major) : t[0 + k] = v.major[k]
    <3>1. \A k \in 1..Len(v.major) : 0 + k = k
      BY <1>2
    <3> QED BY <3>1, TextFacts
  <2>3. t[0 + Len(v.major) + 1] \notin Digits
    BY <1>1, <2>1, TextFacts
  <2>4. Atoi(SubSeq(t, 0 + 1, Len(t))) = Atoi(v.major)
    BY <1>2, <1>5, <2>1, <2>2, <2>3
  <2> QED BY <2>4
<1>7. Atoi(SubSeq(t, FirstDot(v) + 2, Len(t))) = Atoi(v.minor)
  <2> DEFINE p == FirstDot(v) + 1
  <2>1. p + Len(v.minor) <= Len(t) /\ p + Len(v.minor) = SecondDot(v) /\ p \in Nat
        /\ p + 1 = FirstDot(v) + 2
    BY <1>2, <1>3, <1>4 DEF SecondDot
  <2>2. t[p + Len(v.minor) + 1] \notin Digits
    BY <1>1, <2>1, TextFacts
  <2>3. \A k \in 1..Len(v.minor) : t[p + k] = v.minor[k]
    BY TextFacts
  <2> HIDE DEF p
  <2>4. Atoi(SubSeq(t, p + 1, Len(t))) = Atoi(v.minor)
    BY <1>2, <1>5, <2>1, <2>2, <2>3
  <2> QED BY <2>1, <2>4
<1>8. PatchEnd(v) < Len(t) => t[PatchEnd(v) + 1] \notin Digits
  <2>1. CASE v.pre # <<>>
    BY <1>1, <2>1, TextFacts
  <2>2. CASE v.pre = <<>>
    <3>1. PreEnd(v) = PatchEnd(v) /\ (v.build = <<>> => End(v) = PatchEnd(v))
      BY <2>2 DEF PreEnd, End
    <3> QED BY <1>1, <1>4, <1>3, <3>1, TextFacts
  <2> QED BY <2>1, <2>2
<1>9. PreEnd(v) < Len(t) => t[PreEnd(v) + 1] \notin Digits
  <2>1. v.build = <<>> => End(v) = PreEnd(v)
    BY DEF End
  <2> QED BY <1>1, <1>3, <1>4, <2>1, TextFacts
<1>10. Atoi(SubSeq(t, SecondDot(v) + 2, Len(t))) = Atoi(v.patch)
  <2> DEFINE p == SecondDot(v) + 1
  <2>1. p + Len(v.patch) <= Len(t) /\ p + Len(v.patch) = PatchEnd(v) /\ p \in Nat
        /\ p + 1 = SecondDot(v) + 2
    BY <1>2, <1>3, <1>4 DEF PatchEnd
  <2>2. p + Len(v.patch) < Len(t) => t[p + Len(v.patch) + 1] \notin Digits
    BY <1>8, <2>1
  <2>3. \A k \in 1..Len(v.patch) : t[p + k] = v.patch[k]
    BY TextFacts
  <2> HIDE DEF p
  <2>4. Atoi(SubSeq(t, p + 1, Len(t))) = Atoi(v.patch)
    BY <1>2, <1>5, <2>1, <2>2, <2>3
  <2> QED BY <2>1, <2>4
<1>11. ASSUME NEW b \in 0..(Len(v.pre) - 1)
      PROVE  Atoi(SubSeq(t, PatchEnd(v) + 1 + b + 1, Len(t)))
               = Atoi(SubSeq(v.pre, b + 1, Len(v.pre)))
  <2> DEFINE p == PatchEnd(v) + 1 + b
             s == SubSeq(v.pre, b + 1, Len(v.pre))
             n == Len(v.pre)
  <2>1. n \in Nat /\ b < n /\ v.pre # <<>> /\ v.pre \in Seq(Characters)
    BY <1>2, EmptySeq
  <2>2. s \in Seq(Characters) /\ Len(s) = n - b
        /\ \A k \in 1..(n - b) : s[k] = v.pre[b + k]
    <3>1. b + 1 \in 1..n + 1 /\ n \in b..n /\ n - (b + 1) + 1 = n - b
      BY <2>1
    <3>2. /\ s \in Seq(Characters) /\ Len(s) = n - b
          /\ \A k \in 1..(n - b) : s[k] = v.pre[(b + 1) + k - 1]
      BY <2>1, <3>1, SubSeqProperties
    <3>3. \A k \in 1..(n - b) : (b + 1) + k - 1 = b + k
      BY <2>1
    <3> QED BY <3>2, <3>3
  <2> HIDE DEF s
  <2>3. s # <<>>
    <3>1. Len(s) # 0
      BY <2>1, <2>2
    <3> QED BY <3>1, <2>2, EmptySeq
  <2>4. p \in Nat /\ p + Len(s) = PreEnd(v) /\ p + Len(s) <= Len(t)
    <3>1. PreEnd(v) = PatchEnd(v) + 1 + n
      BY <2>1 DEF PreEnd
    <3> HIDE DEF n
    <3> QED BY <1>3, <1>4, <2>1, <2>2, <3>1
  <2>5. \A k \in 1..Len(s) : t[p + k] = s[k]
    <3> TAKE k \in 1..Len(s)
    <3>1. b + k \in 1..n /\ p + k = PatchEnd(v) + 1 + (b + k) /\ k \in 1..(n - b)
      BY <1>3, <2>1, <2>2
    <3> QED BY <2>1, <2>2, <3>1, TextFacts
  <2> HIDE DEF p, n
  <2>6. p + Len(s) < Len(t) => t[p + Len(s) + 1] \notin Digits
    BY <1>9, <2>4
  <2>7. Atoi(SubSeq(t, p + 1, Len(t))) = Atoi(s)
    BY <1>5, <2>2, <2>3, <2>4, <2>5, <2>6
  <2> QED BY <2>7 DEF p, s
<1> QED BY <1>6, <1>7, <1>10, <1>11

(* The character at each place: between the separators are digits, then    *)
(* the pre-release.                                                        *)
LEMMA CharFacts ==
  ASSUME NEW v \in Versions, NEW t, t = Text(v), NEW p \in Nat, p < Len(t)
  PROVE  /\ p < FirstDot(v) => t[p + 1] \notin {".", "-", "+"}
         /\ p = FirstDot(v) => t[p + 1] = "."
         /\ FirstDot(v) < p /\ p < SecondDot(v) => t[p + 1] \notin {".", "-", "+"}
         /\ p = SecondDot(v) => t[p + 1] = "."
         /\ SecondDot(v) < p /\ p < PatchEnd(v) => t[p + 1] \notin {".", "-", "+"}
         /\ v.pre # <<>> /\ p = PatchEnd(v) => t[p + 1] = "-"
         /\ PatchEnd(v) < p /\ p < PreEnd(v) =>
              p - PatchEnd(v) \in 1..Len(v.pre) /\ t[p + 1] = v.pre[p - PatchEnd(v)]
         /\ p = PreEnd(v) => v.build # <<>> /\ t[p + 1] = "+"
         /\ p <= PreEnd(v) \/ v.build # <<>>
<1>1. /\ Len(v.major) \in Nat /\ Len(v.minor) \in Nat /\ Len(v.patch) \in Nat
      /\ Len(v.pre) \in Nat
  BY PartFacts
<1>2. /\ FirstDot(v) \in Nat /\ SecondDot(v) \in Nat /\ PatchEnd(v) \in Nat
      /\ PreEnd(v) \in Nat /\ End(v) \in Nat /\ Len(t) = End(v)
  BY PlacesTyped, TextFacts
<1>3. p < FirstDot(v) => t[p + 1] \notin {".", "-", "+"}
  <2> HAVE p < FirstDot(v)
  <2>1. p + 1 \in 1..Len(v.major)
    BY <1>1, <1>2 DEF FirstDot
  <2>2. t[p + 1] = v.major[p + 1]
    BY <2>1, TextFacts
  <2>3. v.major[p + 1] \in Digits
    BY <2>1, PartFacts
  <2> QED BY <2>2, <2>3, DigitFacts
<1>4. FirstDot(v) < p /\ p < SecondDot(v) => t[p + 1] \notin {".", "-", "+"}
  <2> HAVE FirstDot(v) < p /\ p < SecondDot(v)
  <2>1. p - FirstDot(v) \in 1..Len(v.minor) /\ FirstDot(v) + 1 + (p - FirstDot(v)) = p + 1
    BY <1>1, <1>2 DEF SecondDot
  <2>2. t[FirstDot(v) + 1 + (p - FirstDot(v))] = v.minor[p - FirstDot(v)]
    BY <2>1, TextFacts
  <2>3. v.minor[p - FirstDot(v)] \in Digits
    BY <2>1, PartFacts
  <2> QED BY <2>1, <2>2, <2>3, DigitFacts
<1>5. SecondDot(v) < p /\ p < PatchEnd(v) => t[p + 1] \notin {".", "-", "+"}
  <2> HAVE SecondDot(v) < p /\ p < PatchEnd(v)
  <2>1. p - SecondDot(v) \in 1..Len(v.patch) /\ SecondDot(v) + 1 + (p - SecondDot(v)) = p + 1
    <3>1. PatchEnd(v) = SecondDot(v) + 1 + Len(v.patch)
      BY DEF PatchEnd
    <3> QED BY <1>1, <1>2, <3>1
  <2>2. t[SecondDot(v) + 1 + (p - SecondDot(v))] = v.patch[p - SecondDot(v)]
    BY <2>1, TextFacts
  <2>3. v.patch[p - SecondDot(v)] \in Digits
    BY <2>1, PartFacts
  <2> QED BY <2>1, <2>2, <2>3, DigitFacts
<1>6. PatchEnd(v) < p /\ p < PreEnd(v) =>
        p - PatchEnd(v) \in 1..Len(v.pre) /\ t[p + 1] = v.pre[p - PatchEnd(v)]
  <2> HAVE PatchEnd(v) < p /\ p < PreEnd(v)
  <2>1. v.pre # <<>> /\ PreEnd(v) = PatchEnd(v) + 1 + Len(v.pre)
    BY <1>2 DEF PreEnd
  <2>2. p - PatchEnd(v) \in 1..Len(v.pre) /\ PatchEnd(v) + 1 + (p - PatchEnd(v)) = p + 1
    BY <1>1, <1>2, <2>1
  <2>3. t[PatchEnd(v) + 1 + (p - PatchEnd(v))] = v.pre[p - PatchEnd(v)]
    BY <2>1, <2>2, TextFacts
  <2> QED BY <2>2, <2>3
<1>7. v.build = <<>> => p < PreEnd(v)
  BY <1>2 DEF End
<1>8. /\ t[FirstDot(v) + 1] = "." /\ t[SecondDot(v) + 1] = "."
      /\ v.pre # <<>> => t[PatchEnd(v) + 1] = "-"
      /\ v.build # <<>> => t[PreEnd(v) + 1] = "+"
  BY TextFacts
<1>9. p = PreEnd(v) => v.build # <<>> /\ t[p + 1] = "+"
  BY <1>2, <1>7, <1>8
<1>10. p <= PreEnd(v) \/ v.build # <<>>
  BY <1>2, <1>7
<1> QED BY <1>3, <1>4, <1>5, <1>6, <1>8, <1>9, <1>10

-----------------------------------------------------------------------------
(* The inductive invariant of the parser on a version: by the position it  *)
(* has come to, what it has counted, where the piece begins that it is in, *)
(* and what it has set.                                                    *)
ReadMarks(v, p) == {k \in DOMAIN v.pre : v.pre[k] \in {".", "-"} /\ k <= p}

InMajor(v) ==
  /\ i <= FirstDot(v)
  /\ dot_count = 0 /\ last_info = 0 /\ state = 0
  /\ response.patch = Unset

InMinor(v) ==
  /\ FirstDot(v) < i /\ i <= SecondDot(v)
  /\ dot_count = 1 /\ last_info = FirstDot(v) + 1 /\ state = 0
  /\ response.major = Atoi(v.major) /\ response.patch = Unset

InPatch(v) ==
  /\ SecondDot(v) < i /\ i <= PatchEnd(v)
  /\ dot_count = 2 /\ last_info = SecondDot(v) + 1 /\ state = 0
  /\ response.major = Atoi(v.major) /\ response.minor = Atoi(v.minor)
  /\ response.patch = Unset

(* The piece after the last of the marks R, and the patch it left.         *)
Piece(v, R, last, patch) ==
  /\ last \in {0} \cup R /\ \A k \in R : k <= last
  /\ R = {} => patch = Atoi(v.patch)
  /\ R # {} => \E b \in {0} \cup R : /\ {k \in R : k > b} = {last}
                                    /\ patch = Atoi(SubSeq(v.pre, b + 1, Len(v.pre)))

DotIsLast(v, R) == \A j, k \in R : v.pre[j] = "." => ~(j < k)

InPre(v) ==
  /\ v.pre # <<>> /\ PatchEnd(v) < i /\ i <= PreEnd(v)
  /\ state = 3 /\ response.major = Atoi(v.major) /\ response.minor = Atoi(v.minor)
  /\ LET R == ReadMarks(v, i - PatchEnd(v) - 1)
     IN  /\ DotIsLast(v, R)
         /\ dot_count = IF \E k \in R : v.pre[k] = "." THEN 3 ELSE 2
         /\ \E last : /\ last_info = PatchEnd(v) + 1 + last
                      /\ Piece(v, R, last, response.patch)

Reading(v) ==
  /\ response.preRelease = {}
  /\ InMajor(v) \/ InMinor(v) \/ InPatch(v) \/ InPre(v)

IsResponse(r) == r = [k \in {"major", "minor", "patch", "preRelease"} |-> r[k]]

SplitInv ==
  /\ version \subseteq Versions /\ dot_count \in 0..3 /\ IsResponse(response)
  /\ parse = "waiting" =>
       /\ version = {} /\ i = 0 /\ dot_count = 0 /\ last_info = 0 /\ state = 0
       /\ response.patch = Unset /\ response.preRelease = {}
  /\ \A v \in version : answer = Text(v) /\ (parse = "parsing" => Reading(v))
  /\ VersionSplit

(* The parser has come to a character that is not the last.                *)
LEMMA AtCharacter ==
  ASSUME SplitInv, ParserInv, NEW v \in version, parse = "parsing"
  PROVE  /\ v \in Versions /\ answer = Text(v) /\ Reading(v)
         /\ i \in Nat /\ LeftNext = End(v) - i - 1 /\ Len(answer) = End(v)
         /\ LeftNext # 0 => i + 1 < End(v)
         /\ LeftNext = 0 => i = End(v) - 1
<1>1. v \in Versions /\ answer = Text(v) /\ Reading(v)
  BY DEF SplitInv
<1>2. Len(answer) = End(v) /\ End(v) \in Nat /\ End(v) > 0
  BY <1>1, TextFacts, PlacesTyped
<1>3. answer # <<>>
  <2>1. Len(<<>>) = 0
    OBVIOUS
  <2> QED BY <1>2, <2>1
<1>4. left \in Nat \ {0} /\ i \in Nat /\ left + i = Len(answer) /\ LeftNext = left - 1
  BY <1>3, LeftIsLess DEF ParserInv
<1> HIDE DEF LeftNext
<1> QED BY <1>1, <1>2, <1>4

(* What a step has to keep for each version.                               *)
LEMMA SplitStep ==
  ASSUME SplitInv, version' = version, answer' = answer, IsResponse(response'),
         dot_count' \in 0..3, parse' # "waiting",
         \A v \in version :
           /\ parse' = "parsing" => Reading(v)'
           /\ parse' = "failed" => Refused(v)
           /\ parse' = "done" => ~Refused(v) /\ SplitAsFar(v)'
  PROVE  SplitInv'
<1>1. \A v : Text(v)' = Text(v) /\ Refused(v)' = Refused(v)
  BY DEF Text, Refused, Marks
<1>2. VersionSplit'
  BY <1>1 DEF VersionSplit
<1> QED BY <1>1, <1>2 DEF SplitInv

(* A mark is read: what precedes it becomes the patch.                     *)
LEMMA MarkRead ==
  ASSUME NEW v \in Versions, NEW r \in 1..Len(v.pre), v.pre[r] \in {".", "-"},
         NEW last, NEW patch, Piece(v, ReadMarks(v, r - 1), last, patch),
         NEW set, set = Atoi(SubSeq(v.pre, last + 1, Len(v.pre)))
  PROVE  /\ ReadMarks(v, r) = ReadMarks(v, r - 1) \cup {r}
         /\ last \in 0..(r - 1) /\ \A k \in ReadMarks(v, r - 1) : k \in 1..(r - 1)
         /\ Piece(v, ReadMarks(v, r), r, set)
<1> DEFINE R == ReadMarks(v, r - 1)
           Q == ReadMarks(v, r)
<1>1. DOMAIN v.pre = 1..Len(v.pre) /\ Len(v.pre) \in Nat
  BY PartFacts
<1>2. Q = R \cup {r} /\ \A k \in R : k \in 1..(r - 1)
  BY <1>1 DEF ReadMarks
<1>3. last \in {0} \cup R /\ \A k \in R : k <= last
  BY DEF Piece
<1> HIDE DEF R, Q
<1>4. last \in 0..(r - 1) /\ last \in {0} \cup Q
  BY <1>1, <1>2, <1>3
<1>5. {k \in Q : k > last} = {r}
  <2>1. \A k \in R : ~(k > last)
    BY <1>1, <1>2, <1>3, <1>4
  <2>2. r > last
    BY <1>1, <1>4
  <2> QED BY <1>2, <2>1, <2>2
<1>6. \A k \in Q : k <= r
  BY <1>1, <1>2
<1>7. Piece(v, Q, r, set)
  BY <1>2, <1>4, <1>5, <1>6 DEF Piece
<1> QED BY <1>2, <1>4, <1>7 DEF R, Q

(* In the pre-release, before the character read there is more to come.    *)
LEMMA PreCharacter ==
  ASSUME NEW v \in Versions, answer = Text(v), Len(answer) = End(v), i \in Nat,
         i + 1 < End(v), v.pre # <<>>, PatchEnd(v) < i, i < PreEnd(v)
  PROVE  LET r == i - PatchEnd(v)
         IN  /\ r \in 1..Len(v.pre) /\ answer[i + 1] = v.pre[r]
             /\ v.pre[r] \in {".", "-"} => r \in Marks(v) /\ ReadMarks(v, r) \subseteq Marks(v)
             /\ v.pre[r] \notin {".", "-"} => ReadMarks(v, r) = ReadMarks(v, r - 1)
             /\ PreEnd(v) = PatchEnd(v) + 1 + Len(v.pre)
<1> DEFINE r == i - PatchEnd(v)
<1>1. PatchEnd(v) \in Nat /\ PreEnd(v) \in Nat /\ End(v) \in Nat
  BY PlacesTyped
<1>2. r \in 1..Len(v.pre) /\ answer[i + 1] = v.pre[r]
  <2>1. i < Len(answer)
    BY <1>1
  <2> QED BY <2>1, CharFacts
<1>3. PreEnd(v) = PatchEnd(v) + 1 + Len(v.pre)
  BY DEF PreEnd
<1>4. v.build = <<>> => End(v) = PreEnd(v)
  BY DEF End
<1>5. DOMAIN v.pre = 1..Len(v.pre) /\ Len(v.pre) \in Nat
  BY PartFacts
<1>6. v.build = <<>> => r < Len(v.pre)
  BY <1>1, <1>2, <1>3, <1>4, <1>5
<1>7. v.pre[r] \in {".", "-"} => r \in Marks(v) /\ ReadMarks(v, r) \subseteq Marks(v)
  <2> HAVE v.pre[r] \in {".", "-"}
  <2> HIDE DEF r
  <2>1. r \in Marks(v)
    BY <1>2, <1>5, <1>6 DEF Marks
  <2>2. ReadMarks(v, r) \subseteq Marks(v)
    BY <1>2, <1>5, <1>6 DEF Marks, ReadMarks
  <2> QED BY <2>1, <2>2
<1>8. v.pre[r] \notin {".", "-"} => ReadMarks(v, r) = ReadMarks(v, r - 1)
  <2> HIDE DEF r
  <2> QED BY <1>2, <1>5 DEF ReadMarks
<1> QED BY <1>2, <1>3, <1>7, <1>8

(* The first dots end the major and the minor number; in a pre-release a   *)
(* dot sets the patch, and the next one is refused.                        *)
LEMMA SplitDot == ASSUME SplitInv, ParserInv, ReadDot PROVE SplitInv'
<1>1. /\ parse = "parsing" /\ LeftNext # 0 /\ answer[i + 1] = "."
      /\ version' = version /\ answer' = answer /\ state' = state
      /\ IF dot_count < 3
         THEN /\ response' = [response EXCEPT ![NumberNames[dot_count + 1]] = Number]
              /\ last_info' = i + 1 /\ dot_count' = dot_count + 1 /\ i' = i + 1
              /\ parse' = parse
         ELSE parse' = "failed" /\ response' = response
  BY DEF ReadDot, Reads
<1>2. IsResponse(response)
  BY DEF SplitInv
<1>3. NumberNames[1] = "major" /\ NumberNames[2] = "minor" /\ NumberNames[3] = "patch"
  BY DEF NumberNames
<1>4. dot_count \in 0..3
  BY DEF SplitInv
<1>5. ASSUME dot_count \in 0..2
      PROVE  /\ IsResponse(response') /\ parse' = "parsing" /\ dot_count' \in 0..3
             /\ response'[NumberNames[dot_count + 1]] = Number
             /\ \A k \in {"major", "minor", "patch", "preRelease"} :
                  k # NumberNames[dot_count + 1] => response'[k] = response[k]
  <2> DEFINE f == NumberNames[dot_count + 1]
  <2>1. f \in {"major", "minor", "patch", "preRelease"}
    <3>1. dot_count = 0 \/ dot_count = 1 \/ dot_count = 2
      BY <1>5
    <3> QED BY <1>3, <3>1
  <2>2. response' = [response EXCEPT ![f] = Number] /\ parse' = "parsing" /\ dot_count' \in 0..3
    BY <1>1, <1>5
  <2> HIDE DEF f, Number
  <2>3. /\ IsResponse(response') /\ response'[f] = Number
        /\ \A k \in {"major", "minor", "patch", "preRelease"} : k # f => response'[k] = response[k]
    BY <1>2, <2>1, <2>2 DEF IsResponse
  <2> QED BY <2>2, <2>3 DEF f
<1>6. IsResponse(response') /\ dot_count' \in 0..3 /\ parse' \in {"parsing", "failed"}
  <2>1. CASE dot_count \in 0..2
    BY <1>5, <2>1
  <2>2. CASE dot_count = 3
    <3>1. parse' = "failed" /\ response' = response /\ dot_count' = dot_count
      BY <2>2 DEF ReadDot
    <3> QED BY <1>2, <2>2, <3>1
  <2> QED BY <1>4, <2>1, <2>2
<1>7. ASSUME NEW v \in version
      PROVE  /\ parse' = "parsing" => Reading(v)'
             /\ parse' = "failed" => Refused(v)
  <2>1. /\ v \in Versions /\ answer = Text(v) /\ Reading(v) /\ i \in Nat
        /\ Len(answer) = End(v) /\ i + 1 < End(v)
    BY <1>1, AtCharacter
  <2>2. /\ FirstDot(v) \in Nat /\ SecondDot(v) \in Nat /\ PatchEnd(v) \in Nat
        /\ PreEnd(v) \in Nat /\ End(v) \in Nat
        /\ FirstDot(v) < SecondDot(v) /\ SecondDot(v) + 1 < PatchEnd(v)
        /\ PatchEnd(v) <= PreEnd(v)
    BY <2>1, PlacesTyped
  <2>3. /\ FirstDot(v)' = FirstDot(v) /\ SecondDot(v)' = SecondDot(v)
        /\ PatchEnd(v)' = PatchEnd(v) /\ PreEnd(v)' = PreEnd(v)
    BY DEF FirstDot, SecondDot, PatchEnd, PreEnd
  <2>4. /\ ~(i < FirstDot(v)) /\ ~(FirstDot(v) < i /\ i < SecondDot(v))
        /\ ~(SecondDot(v) < i /\ i < PatchEnd(v))
        /\ ~(v.pre # <<>> /\ i = PatchEnd(v)) /\ i # PreEnd(v)
    BY <1>1, <2>1, <2>2, CharFacts
  <2>5. CASE InMajor(v)
    <3>1. i = FirstDot(v) /\ dot_count = 0 /\ last_info = 0 /\ state = 0
          /\ response.patch = Unset /\ response.preRelease = {}
      BY <2>1, <2>2, <2>4, <2>5 DEF InMajor, Reading
    <3>2. Number = Atoi(v.major)
      BY <2>1, <3>1, NumbersFound DEF Number
    <3>3. /\ response'.major = Atoi(v.major) /\ response'.patch = Unset
          /\ response'.preRelease = {}
      BY <1>3, <1>5, <3>1, <3>2
    <3>4. InMinor(v)'
      BY <1>1, <2>2, <2>3, <3>1, <3>3 DEF InMinor
    <3> QED BY <1>5, <3>1, <3>3, <3>4 DEF Reading
  <2>6. CASE InMinor(v)
    <3>1. i = SecondDot(v) /\ dot_count = 1 /\ last_info = FirstDot(v) + 1 /\ state = 0
          /\ response.major = Atoi(v.major)
          /\ response.patch = Unset /\ response.preRelease = {}
      BY <2>1, <2>2, <2>4, <2>6 DEF InMinor, Reading
    <3>2. Number = Atoi(v.minor)
      <4>1. last_info + 1 = FirstDot(v) + 2
        BY <2>2, <3>1
      <4> QED BY <2>1, <4>1, NumbersFound DEF Number
    <3>3. /\ response'.major = Atoi(v.major) /\ response'.minor = Atoi(v.minor)
          /\ response'.patch = Unset /\ response'.preRelease = {}
      BY <1>3, <1>5, <3>1, <3>2
    <3>4. InPatch(v)'
      BY <1>1, <2>2, <2>3, <3>1, <3>3 DEF InPatch
    <3> QED BY <1>5, <3>1, <3>3, <3>4 DEF Reading
  <2>7. CASE InPatch(v)
    <3>1. SecondDot(v) < i /\ i <= PatchEnd(v)
      BY <2>7 DEF InPatch
    <3>2. i = PatchEnd(v) /\ v.pre = <<>>
      BY <2>1, <2>2, <2>4, <3>1
    <3> QED BY <2>4, <3>2 DEF PreEnd
  <2>8. CASE InPre(v)
    <3> DEFINE r == i - PatchEnd(v)
               R == ReadMarks(v, r - 1)
    <3>1. PICK last : /\ last_info = PatchEnd(v) + 1 + last
                      /\ Piece(v, R, last, response.patch)
      BY <2>8 DEF InPre
    <3>2. /\ v.pre # <<>> /\ PatchEnd(v) < i /\ i < PreEnd(v) /\ state = 3
          /\ response.major = Atoi(v.major) /\ response.minor = Atoi(v.minor)
          /\ DotIsLast(v, R)
          /\ dot_count = IF \E k \in R : v.pre[k] = "." THEN 3 ELSE 2
          /\ response.preRelease = {}
      BY <2>1, <2>2, <2>4, <2>8 DEF InPre, Reading
    <3>3. /\ r \in 1..Len(v.pre) /\ v.pre[r] = "." /\ r \in Marks(v)
          /\ ReadMarks(v, r) \subseteq Marks(v)
      BY <1>1, <2>1, <3>2, PreCharacter
    <3>4. Len(v.pre) \in Nat
      BY <2>1, PartFacts
    <3> DEFINE set == Atoi(SubSeq(v.pre, last + 1, Len(v.pre)))
    <3>5. /\ ReadMarks(v, r) = R \cup {r} /\ last \in 0..(r - 1) /\ \A k \in R : k \in 1..(r - 1)
          /\ Piece(v, ReadMarks(v, r), r, set)
      BY <2>1, <3>1, <3>3, MarkRead
    <3>6. CASE \E k \in R : v.pre[k] = "."
      <4>1. PICK k \in R : v.pre[k] = "."
        BY <3>6
      <4>2. Refused(v)
        BY <3>3, <3>5, <4>1 DEF Refused
      <4>3. dot_count = 3
        BY <3>2, <3>6
      <4> QED BY <1>1, <4>2, <4>3
    <3>7. CASE ~\E k \in R : v.pre[k] = "."
      <4>1. dot_count = 2
        BY <3>2, <3>7
      <4>2. Number = set
        <5>1. last \in 0..(Len(v.pre) - 1) /\ last_info + 1 = PatchEnd(v) + 1 + last + 1
          BY <2>2, <3>1, <3>3, <3>4, <3>5
        <5> QED BY <2>1, <5>1, NumbersFound DEF Number
      <4>3. /\ response'.major = Atoi(v.major) /\ response'.minor = Atoi(v.minor)
            /\ response'.patch = set /\ response'.preRelease = {}
        BY <1>3, <1>5, <3>2, <4>1, <4>2
      <4>4. i' = i + 1 /\ last_info' = i + 1 /\ dot_count' = 3 /\ parse' = "parsing"
        BY <1>1, <4>1
      <4>5. i' - PatchEnd(v) - 1 = r /\ i' <= PreEnd(v) /\ PatchEnd(v) < i'
            /\ last_info' = PatchEnd(v) + 1 + r
        BY <2>1, <2>2, <3>2, <4>4
      <4> HIDE DEF r, set, R
      <4>6. /\ DotIsLast(v, R \cup {r})
            /\ (\E k \in R \cup {r} : v.pre[k] = ".")
        <5>1. \A j \in R : v.pre[j] # "."
          BY <3>7
        <5>2. \A k \in R \cup {r} : ~(r < k)
          BY <3>3, <3>4, <3>5
        <5> QED BY <3>3, <5>1, <5>2 DEF DotIsLast
      <4>7. InPre(v)'
        BY <1>1, <2>3, <3>2, <3>5, <4>3, <4>4, <4>5, <4>6
        DEF InPre, DotIsLast, Piece, ReadMarks
      <4> QED BY <4>3, <4>4, <4>7 DEF Reading
    <3> QED BY <3>6, <3>7
  <2> QED BY <2>1, <2>5, <2>6, <2>7, <2>8 DEF Reading
<1> QED BY <1>1, <1>6, <1>7, SplitStep

(* The first dash ends the patch; one in the pre-release sets it again.    *)
LEMMA SplitDash == ASSUME SplitInv, ParserInv, ReadDash PROVE SplitInv'
<1>1. /\ parse = "parsing" /\ LeftNext # 0 /\ answer[i + 1] = "-"
      /\ version' = version /\ answer' = answer /\ dot_count' = dot_count
      /\ IF dot_count = 2
         THEN /\ response' = [response EXCEPT !.patch = Number]
              /\ last_info' = i + 1 /\ state' = 3 /\ i' = i + 1 /\ parse' = parse
         ELSE parse' = "failed" /\ response' = response
  BY DEF ReadDash, Reads
<1>2. IsResponse(response) /\ dot_count \in 0..3
  BY DEF SplitInv
<1>3. ASSUME dot_count = 2
      PROVE  /\ IsResponse(response') /\ response'.patch = Number
             /\ response'.major = response.major /\ response'.minor = response.minor
             /\ response'.preRelease = response.preRelease
  <2>1. response' = [response EXCEPT !["patch"] = Number]
    BY <1>1, <1>3
  <2> HIDE DEF Number
  <2> QED BY <1>2, <2>1 DEF IsResponse
<1>4. IsResponse(response') /\ dot_count' \in 0..3 /\ parse' \in {"parsing", "failed"}
  BY <1>1, <1>2, <1>3
<1>5. ASSUME NEW v \in version
      PROVE  /\ parse' = "parsing" => Reading(v)'
             /\ parse' = "failed" => Refused(v)
  <2>1. /\ v \in Versions /\ answer = Text(v) /\ Reading(v) /\ i \in Nat
        /\ Len(answer) = End(v) /\ i + 1 < End(v)
    BY <1>1, AtCharacter
  <2>2. /\ FirstDot(v) \in Nat /\ SecondDot(v) \in Nat /\ PatchEnd(v) \in Nat
        /\ PreEnd(v) \in Nat /\ End(v) \in Nat
        /\ FirstDot(v) < SecondDot(v) /\ SecondDot(v) + 1 < PatchEnd(v)
        /\ PatchEnd(v) <= PreEnd(v)
    BY <2>1, PlacesTyped
  <2>3. PatchEnd(v)' = PatchEnd(v) /\ PreEnd(v)' = PreEnd(v)
    BY DEF FirstDot, SecondDot, PatchEnd, PreEnd
  <2>4. /\ ~(i <= FirstDot(v)) /\ ~(FirstDot(v) < i /\ i <= SecondDot(v))
        /\ ~(SecondDot(v) < i /\ i < PatchEnd(v)) /\ i # PreEnd(v)
    BY <1>1, <2>1, <2>2, CharFacts
  <2>5. ~InMajor(v) /\ ~InMinor(v)
    BY <2>4 DEF InMajor, InMinor
  <2>6. CASE InPatch(v)
    <3>1. /\ i = PatchEnd(v) /\ dot_count = 2 /\ last_info = SecondDot(v) + 1
          /\ response.major = Atoi(v.major) /\ response.minor = Atoi(v.minor)
          /\ response.preRelease = {}
      BY <2>1, <2>2, <2>4, <2>6 DEF InPatch, Reading
    <3>2. v.pre # <<>> /\ PreEnd(v) = PatchEnd(v) + 1 + Len(v.pre) /\ Len(v.pre) \in Nat
      BY <2>1, <2>4, <3>1, PartFacts DEF PreEnd
    <3>3. Number = Atoi(v.patch)
      <4>1. last_info + 1 = SecondDot(v) + 2
        BY <2>2, <3>1
      <4> QED BY <2>1, <4>1, NumbersFound DEF Number
    <3>4. /\ response'.major = Atoi(v.major) /\ response'.minor = Atoi(v.minor)
          /\ response'.patch = Atoi(v.patch) /\ response'.preRelease = {}
      BY <1>3, <3>1, <3>3
    <3>5. /\ i' = i + 1 /\ last_info' = i + 1 /\ state' = 3 /\ dot_count' = 2
      BY <1>1, <3>1
    <3>6. /\ PatchEnd(v) < i' /\ i' <= PreEnd(v) /\ i' - PatchEnd(v) - 1 = 0
          /\ last_info' = PatchEnd(v) + 1 + 0
      BY <2>2, <3>1, <3>2, <3>5
    <3>7. ReadMarks(v, 0) = {}
      BY <2>1, PartFacts DEF ReadMarks
    <3>8. Piece(v, {}, 0, Atoi(v.patch)) /\ DotIsLast(v, {})
      BY DEF Piece, DotIsLast
    <3>9. InPre(v)'
      BY <2>3, <3>2, <3>4, <3>5, <3>6, <3>7, <3>8 DEF InPre, DotIsLast, Piece, ReadMarks
    <3> QED BY <1>1, <3>1, <3>4, <3>9 DEF Reading
  <2>7. CASE InPre(v)
    <3> DEFINE r == i - PatchEnd(v)
               R == ReadMarks(v, r - 1)
    <3>1. PICK last : /\ last_info = PatchEnd(v) + 1 + last
                      /\ Piece(v, R, last, response.patch)
      BY <2>7 DEF InPre
    <3>2. /\ v.pre # <<>> /\ PatchEnd(v) < i /\ i < PreEnd(v) /\ state = 3
          /\ response.major = Atoi(v.major) /\ response.minor = Atoi(v.minor)
          /\ DotIsLast(v, R)
          /\ dot_count = IF \E k \in R : v.pre[k] = "." THEN 3 ELSE 2
          /\ response.preRelease = {}
      BY <2>1, <2>2, <2>4, <2>7 DEF InPre, Reading
    <3>3. /\ r \in 1..Len(v.pre) /\ v.pre[r] = "-" /\ r \in Marks(v)
          /\ ReadMarks(v, r) \subseteq Marks(v)
      BY <1>1, <2>1, <3>2, PreCharacter
    <3>4. Len(v.pre) \in Nat
      BY <2>1, PartFacts
    <3> DEFINE set == Atoi(SubSeq(v.pre, last + 1, Len(v.pre)))
    <3>5. /\ ReadMarks(v, r) = R \cup {r} /\ last \in 0..(r - 1) /\ \A k \in R : k \in 1..(r - 1)
          /\ Piece(v, ReadMarks(v, r), r, set)
      BY <2>1, <3>1, <3>3, MarkRead
    <3>6. CASE \E k \in R : v.pre[k] = "."
      <4>1. PICK k \in R : v.pre[k] = "."
        BY <3>6
      <4>2. Refused(v)
        BY <3>3, <3>5, <4>1 DEF Refused
      <4>3. dot_count = 3
        BY <3>2, <3>6
      <4> QED BY <1>1, <4>2, <4>3
    <3>7. CASE ~\E k \in R : v.pre[k] = "."
      <4>1. dot_count = 2
        BY <3>2, <3>7
      <4>2. Number = set
        <5>1. last \in 0..(Len(v.pre) - 1) /\ last_info + 1 = PatchEnd(v) + 1 + last + 1
          BY <2>2, <3>1, <3>3, <3>4, <3>5
        <5> QED BY <2>1, <5>1, NumbersFound DEF Number
      <4>3. /\ response'.major = Atoi(v.major) /\ response'.minor = Atoi(v.minor)
            /\ response'.patch = set /\ response'.preRelease = {}
        BY <1>3, <3>2, <4>1, <4>2
      <4>4. i' = i + 1 /\ last_info' = i + 1 /\ dot_count' = 2 /\ state' = 3
        BY <1>1, <4>1
      <4>5. i' - PatchEnd(v) - 1 = r /\ i' <= PreEnd(v) /\ PatchEnd(v) < i'
            /\ last_info' = PatchEnd(v) + 1 + r
        BY <2>1, <2>2, <3>2, <4>4
      <4> HIDE DEF r, set, R
      <4>6. \A k \in R \cup {r} : v.pre[k] # "."
        BY <3>3, <3>7
      <4>7. DotIsLast(v, R \cup {r}) /\ ~(\E k \in R \cup {r} : v.pre[k] = ".")
        BY <4>6 DEF DotIsLast
      <4>8. InPre(v)'
        BY <2>3, <3>2, <3>5, <4>3, <4>4, <4>5, <4>7
        DEF InPre, DotIsLast, Piece, ReadMarks
      <4> QED BY <1>1, <4>1, <4>3, <4>8 DEF Reading
    <3> QED BY <3>6, <3>7
  <2> QED BY <2>1, <2>5, <2>6, <2>7 DEF Reading
<1> QED BY <1>1, <1>4, <1>5, SplitStep

(* Any other character leaves the parser in the same part.                 *)
LEMMA SplitOther == ASSUME SplitInv, ParserInv, ReadOther PROVE SplitInv'
<1>1. /\ parse = "parsing" /\ LeftNext # 0 /\ answer[i + 1] \notin {".", "-", "+"}
      /\ version' = version /\ answer' = answer /\ dot_count' = dot_count
      /\ i' = i + 1 /\ response' = response /\ last_info' = last_info /\ state' = state
      /\ parse' = parse
  BY DEF ReadOther, Reads
<1>2. IsResponse(response') /\ dot_count' \in 0..3
  BY <1>1 DEF SplitInv
<1>3. ASSUME NEW v \in version
      PROVE  Reading(v)'
  <2>1. /\ v \in Versions /\ answer = Text(v) /\ Reading(v) /\ i \in Nat
        /\ Len(answer) = End(v) /\ i + 1 < End(v)
    BY <1>1, AtCharacter
  <2>2. /\ FirstDot(v) \in Nat /\ SecondDot(v) \in Nat /\ PatchEnd(v) \in Nat
        /\ PreEnd(v) \in Nat /\ End(v) \in Nat
        /\ FirstDot(v) < SecondDot(v) /\ SecondDot(v) + 1 < PatchEnd(v)
        /\ PatchEnd(v) <= PreEnd(v)
    BY <2>1, PlacesTyped
  <2>3. /\ FirstDot(v)' = FirstDot(v) /\ SecondDot(v)' = SecondDot(v)
        /\ PatchEnd(v)' = PatchEnd(v) /\ PreEnd(v)' = PreEnd(v)
    BY DEF FirstDot, SecondDot, PatchEnd, PreEnd
  <2>4. i # FirstDot(v) /\ i # SecondDot(v) /\ i # PreEnd(v)
    BY <1>1, <2>1, <2>2, CharFacts
  <2>5. i # PatchEnd(v)
    <3>1. CASE v.pre # <<>>
      BY <1>1, <2>1, <2>2, <3>1, CharFacts
    <3>2. CASE v.pre = <<>>
      BY <2>4, <3>2 DEF PreEnd
    <3> QED BY <3>1, <3>2
  <2>6. response'.preRelease = {}
    BY <1>1, <2>1 DEF Reading
  <2>7. CASE InMajor(v)
    <3>1. InMajor(v)'
      BY <1>1, <2>1, <2>2, <2>3, <2>4, <2>7 DEF InMajor
    <3> QED BY <2>6, <3>1 DEF Reading
  <2>8. CASE InMinor(v)
    <3>1. FirstDot(v) < i /\ i <= SecondDot(v)
      BY <2>8 DEF InMinor
    <3>2. FirstDot(v) < i + 1 /\ i + 1 <= SecondDot(v)
      BY <2>1, <2>2, <2>4, <3>1
    <3>3. InMinor(v)'
      BY <1>1, <2>3, <2>8, <3>2 DEF InMinor
    <3> QED BY <2>6, <3>3 DEF Reading
  <2>9. CASE InPatch(v)
    <3>1. SecondDot(v) < i /\ i <= PatchEnd(v)
      BY <2>9 DEF InPatch
    <3>2. SecondDot(v) < i + 1 /\ i + 1 <= PatchEnd(v)
      BY <2>1, <2>2, <2>5, <3>1
    <3>3. InPatch(v)'
      BY <1>1, <2>3, <2>9, <3>2 DEF InPatch
    <3> QED BY <2>6, <3>3 DEF Reading
  <2>10. CASE InPre(v)
    <3> DEFINE r == i - PatchEnd(v)
               R == ReadMarks(v, r - 1)
    <3>1. v.pre # <<>> /\ PatchEnd(v) < i /\ i < PreEnd(v)
      BY <2>1, <2>2, <2>4, <2>10 DEF InPre
    <3>2. answer[i + 1] = v.pre[r] /\ (v.pre[r] \notin {".", "-"} => ReadMarks(v, r) = R)
      BY <2>1, <3>1, PreCharacter
    <3>3. ReadMarks(v, r) = R
      BY <1>1, <3>2
    <3>4. i' - PatchEnd(v) - 1 = r /\ PatchEnd(v) < i' /\ i' <= PreEnd(v)
      BY <1>1, <2>1, <2>2, <3>1
    <3> HIDE DEF r
    <3>5. InPre(v)'
      BY <1>1, <2>3, <2>10, <3>3, <3>4 DEF InPre, DotIsLast, Piece, ReadMarks, r
    <3> QED BY <2>6, <3>5 DEF Reading
  <2> QED BY <2>1, <2>7, <2>8, <2>9, <2>10 DEF Reading
<1> QED BY <1>1, <1>2, <1>3, SplitStep

(* Where every mark was read, what the split promises of the patch holds.  *)
LEMMA MarksDone ==
  ASSUME NEW v \in Versions, v.pre # <<>>, DotIsLast(v, Marks(v)),
         NEW last, NEW patch, Piece(v, Marks(v), last, patch)
  PROVE  /\ ~Refused(v)
         /\ Marks(v) = {} => patch = Atoi(v.patch)
         /\ Marks(v) # {} => Overwritten(v, patch)
<1>1. ~Refused(v)
  BY DEF Refused, DotIsLast
<1>2. Marks(v) = {} => patch = Atoi(v.patch)
  BY DEF Piece
<1>3. ASSUME Marks(v) # {} PROVE Overwritten(v, patch)
  <2>1. PICK b \in {0} \cup Marks(v) : /\ {k \in Marks(v) : k > b} = {last}
                                      /\ patch = Atoi(SubSeq(v.pre, b + 1, Len(v.pre)))
    BY <1>3 DEF Piece
  <2>2. last \in Marks(v)
    BY <2>1
  <2> QED BY <2>1, <2>2 DEF Overwritten
<1> QED BY <1>1, <1>2, <1>3

(* The parse that reads no build ends before the last character.           *)
LEMMA SplitLast == ASSUME SplitInv, ParserInv, ReadLast PROVE SplitInv'
<1>1. /\ parse = "parsing" /\ LeftNext = 0 /\ parse' = "done"
      /\ version' = version /\ answer' = answer /\ response' = response
      /\ dot_count' = dot_count
  BY DEF ReadLast
<1>2. IsResponse(response') /\ dot_count' \in 0..3
  BY <1>1 DEF SplitInv
<1>3. ASSUME NEW v \in version
      PROVE  ~Refused(v) /\ SplitAsFar(v)'
  <2>1. /\ v \in Versions /\ answer = Text(v) /\ Reading(v) /\ i \in Nat
        /\ Len(answer) = End(v) /\ i = End(v) - 1
    BY <1>1, AtCharacter
  <2>2. /\ FirstDot(v) \in Nat /\ SecondDot(v) \in Nat /\ PatchEnd(v) \in Nat
        /\ PreEnd(v) \in Nat /\ End(v) \in Nat
        /\ FirstDot(v) < SecondDot(v) /\ SecondDot(v) + 1 < PatchEnd(v)
        /\ PatchEnd(v) <= PreEnd(v) /\ PreEnd(v) <= End(v)
    BY <2>1, PlacesTyped
  <2>3. /\ v.pre # <<>> => PreEnd(v) = PatchEnd(v) + 1 + Len(v.pre)
        /\ v.build = <<>> => End(v) = PreEnd(v)
        /\ v.build # <<>> => End(v) = PreEnd(v) + 1 + Len(v.build)
    BY DEF PreEnd, End
  <2>4. /\ v.pre \in Seq(Characters) /\ v.build \in Seq(Characters)
        /\ Len(v.pre) \in Nat /\ Len(v.build) \in Nat /\ DOMAIN v.pre = 1..Len(v.pre)
        /\ v.pre = <<>> => Len(v.pre) = 0
        /\ v.pre # <<>> => Len(v.pre) > 0
        /\ v.build # <<>> => Len(v.build) > 0
    BY <2>1, PartFacts, EmptySeq
  <2>5. ~InMajor(v) /\ ~InMinor(v)
    BY <2>1, <2>2 DEF InMajor, InMinor
  <2>6. v.build = <<>> /\ response.preRelease = {} /\ response.major = Atoi(v.major)
        /\ response.minor = Atoi(v.minor)
    <3>1. i <= PreEnd(v)
      BY <2>1, <2>2, <2>5 DEF Reading, InPatch, InPre
    <3>2. v.build = <<>>
      BY <2>1, <2>2, <2>3, <2>4, <3>1
    <3> QED BY <2>1, <2>5, <3>2 DEF Reading, InPatch, InPre
  <2>7. CASE InPatch(v)
    <3>1. v.pre = <<>> /\ response.patch = Unset
      BY <2>1, <2>2, <2>3, <2>4, <2>7 DEF InPatch
    <3>2. Marks(v) = {}
      BY <2>4, <3>1 DEF Marks
    <3>3. SplitAsFar(v)'
      BY <1>1, <2>6, <3>1 DEF SplitAsFar
    <3> QED BY <2>6, <3>2, <3>3 DEF Refused
  <2>8. CASE InPre(v)
    <3>1. v.pre # <<>> /\ i - PatchEnd(v) - 1 = Len(v.pre) - 1
      BY <2>1, <2>2, <2>3, <2>6, <2>8 DEF InPre
    <3>2. ReadMarks(v, Len(v.pre) - 1) = Marks(v)
      BY <2>4, <2>6 DEF Marks, ReadMarks
    <3>3. PICK last : Piece(v, Marks(v), last, response.patch)
      BY <2>8, <3>1, <3>2 DEF InPre
    <3>4. DotIsLast(v, Marks(v))
      BY <2>8, <3>1, <3>2 DEF InPre
    <3>5. /\ ~Refused(v)
          /\ Marks(v) = {} => response.patch = Atoi(v.patch)
          /\ Marks(v) # {} => Overwritten(v, response.patch)
      BY <2>1, <3>1, <3>3, <3>4, MarksDone
    <3>6. Marks(v)' = Marks(v) /\ Overwritten(v, response.patch)' = Overwritten(v, response.patch)
      BY <1>1 DEF Overwritten, Marks
    <3>7. Len(v.build) = 0 /\ Len(v.pre) # 0
      BY <2>4, <2>6, <3>1
    <3>8. SplitAsFar(v)'
      BY <1>1, <2>6, <3>1, <3>5, <3>6, <3>7 DEF SplitAsFar
    <3> QED BY <3>5, <3>8
  <2> QED BY <2>1, <2>5, <2>7, <2>8 DEF Reading
<1> QED BY <1>1, <1>2, <1>3, SplitStep

(* The copy of the pre-release, which is as long as the build.             *)
LEMMA Copied ==
  ASSUME NEW v \in Versions, v.pre # <<>>, v.build # <<>>,
         NEW last \in {0} \cup Marks(v), \A k \in Marks(v) : k <= last,
         NEW c, c = SubSeq(Text(v), PatchEnd(v) + 1 + last + 1,
                           PatchEnd(v) + 1 + last + Len(v.build))
  PROVE  c = v.pre <=> Marks(v) = {} /\ Len(v.pre) = Len(v.build)
<1> DEFINE t == Text(v)
           P == PatchEnd(v) + 1
           n == Len(v.pre)
           m == Len(v.build)
<1>1. /\ v.pre \in Seq(Characters) /\ v.build \in Seq(Characters)
      /\ n \in Nat /\ m \in Nat /\ m > 0 /\ n > 0 /\ DOMAIN v.pre = 1..n
      /\ \A k \in 1..n : v.pre[k] # "+"
  <2>1. /\ v.pre \in Seq(Characters) /\ v.build \in Seq(Characters)
        /\ n \in Nat /\ m \in Nat /\ DOMAIN v.pre = 1..n
    BY PartFacts
  <2>2. n # 0 /\ m # 0
    BY <2>1, EmptySeq
  <2> QED BY <2>1, <2>2, VersionGrammar
<1>2. P \in Nat /\ Marks(v) \subseteq 1..n /\ last \in 0..n
  <2>1. P \in Nat
    BY PlacesTyped
  <2>2. Marks(v) \subseteq 1..n
    BY <1>1 DEF Marks
  <2> QED BY <1>1, <2>1, <2>2
<1>3. /\ t \in Seq(Characters) /\ Len(t) = P + n + 1 + m /\ t[P + n + 1] = "+"
      /\ \A k \in 1..n : t[P + k] = v.pre[k]
  <2>1. PreEnd(v) = P + n /\ End(v) = P + n + 1 + m
    BY DEF PreEnd, End
  <2> QED BY <2>1, TextFacts DEF Chars
<1> HIDE DEF t, P, n, m
<1>4. c \in Seq(Characters) /\ Len(c) = m /\ \A k \in 1..m : c[k] = t[P + last + k]
  <2> DEFINE lo == P + last + 1
             hi == P + last + m
  <2>1. /\ lo \in Int /\ hi \in Int /\ lo <= hi /\ hi - lo + 1 = m
        /\ \A k \in lo..hi : k \in 1..Len(t)
    BY <1>1, <1>2, <1>3
  <2>2. c = SubSeq(t, lo, hi)
    BY DEF t, P, m
  <2>3. \A k \in 1..m : lo + k - 1 = P + last + k
    BY <1>1, <1>2
  <2> HIDE DEF lo, hi
  <2>4. \A k \in lo..hi : t[k] \in Characters
    BY <1>3, <2>1
  <2>5. /\ SubSeq(t, lo, hi) \in Seq(Characters)
        /\ Len(SubSeq(t, lo, hi)) = IF lo <= hi THEN hi - lo + 1 ELSE 0
        /\ \A k \in 1..(hi - lo + 1) : SubSeq(t, lo, hi)[k] = t[lo + k - 1]
    BY <2>1, <2>4, SubSeqProperties
  <2>6. Len(c) = m /\ \A k \in 1..m : c[k] = t[lo + k - 1]
    BY <2>1, <2>2, <2>5
  <2> QED BY <2>2, <2>3, <2>5, <2>6
<1>5. ASSUME Marks(v) = {}, n = m PROVE c = v.pre
  <2>1. last = 0
    BY <1>5
  <2>2. \A k \in 1..n : c[k] = v.pre[k]
    <3> TAKE k \in 1..n
    <3>1. P + last + k = P + k
      BY <1>1, <1>2, <2>1
    <3> QED BY <1>3, <1>4, <1>5, <3>1
  <2> QED BY <1>1, <1>4, <1>5, <2>2, SeqEqual DEF n
<1>6. ASSUME c = v.pre PROVE Marks(v) = {} /\ n = m
  <2>1. n = m
    BY <1>4, <1>6 DEF n
  <2>2. ASSUME Marks(v) # {} PROVE FALSE
    <3>1. last \in 1..n
      BY <1>1, <1>2, <2>2
    <3> DEFINE q == n - last + 1
    <3>2. q \in 1..n /\ P + last + q = P + n + 1
      BY <1>1, <1>2, <3>1
    <3> HIDE DEF q
    <3>3. c[q] = "+"
      BY <1>3, <1>4, <2>1, <3>2
    <3> QED BY <1>1, <1>6, <3>2, <3>3
  <2> QED BY <2>1, <2>2
<1> QED BY <1>5, <1>6 DEF n, m

(* A plus is refused after the patch and ends the parse in a pre-release.  *)
LEMMA SplitPlus == ASSUME SplitInv, ParserInv, ReadPlus PROVE SplitInv'
<1>1. /\ parse = "parsing" /\ LeftNext # 0 /\ answer[i + 1] = "+"
      /\ version' = version /\ answer' = answer /\ dot_count' = dot_count
      /\ IF state = 3
         THEN /\ response' = [response EXCEPT !.preRelease =
                                {SubSeq(answer, last_info + 1, last_info + LeftNext)}]
              /\ parse' \in {"done", "fault"}
         ELSE parse' = "failed" /\ response' = response
  BY DEF ReadPlus, Reads
<1>2. IsResponse(response) /\ dot_count \in 0..3
  BY DEF SplitInv
<1> DEFINE c == SubSeq(answer, last_info + 1, last_info + LeftNext)
<1>3. ASSUME state = 3
      PROVE  /\ IsResponse(response') /\ response'.preRelease = {c}
             /\ response'.major = response.major /\ response'.minor = response.minor
             /\ response'.patch = response.patch
  <2>1. response' = [response EXCEPT !["preRelease"] = {c}]
    BY <1>1, <1>3
  <2> HIDE DEF c
  <2> QED BY <1>2, <2>1 DEF IsResponse
<1>4. IsResponse(response') /\ dot_count' \in 0..3 /\ parse' \in {"done", "fault", "failed"}
  BY <1>1, <1>2, <1>3
<1> HIDE DEF c
<1>5. ASSUME NEW v \in version
      PROVE  /\ parse' = "failed" => Refused(v)
             /\ parse' = "done" => ~Refused(v) /\ SplitAsFar(v)'
  <2>1. /\ v \in Versions /\ answer = Text(v) /\ Reading(v) /\ i \in Nat
        /\ Len(answer) = End(v) /\ i + 1 < End(v) /\ LeftNext = End(v) - i - 1
    BY <1>1, AtCharacter
  <2>2. /\ FirstDot(v) \in Nat /\ SecondDot(v) \in Nat /\ PatchEnd(v) \in Nat
        /\ PreEnd(v) \in Nat /\ End(v) \in Nat
        /\ FirstDot(v) < SecondDot(v) /\ SecondDot(v) + 1 < PatchEnd(v)
        /\ PatchEnd(v) <= PreEnd(v)
    BY <2>1, PlacesTyped
  <2>3. v.build # <<>> => End(v) = PreEnd(v) + 1 + Len(v.build)
    BY DEF End
  <2>4. Len(v.build) \in Nat /\ Len(v.pre) \in Nat /\ DOMAIN v.pre = 1..Len(v.pre)
    BY <2>1, PartFacts
  <2>5. i = PreEnd(v) /\ v.build # <<>> /\ (InPatch(v) \/ InPre(v))
    <3>1. i <= PreEnd(v) /\ (i <= SecondDot(v) \/ InPatch(v) \/ InPre(v))
      BY <2>1, <2>2 DEF Reading, InMajor, InMinor, InPatch, InPre
    <3>2. /\ ~(i <= FirstDot(v)) /\ ~(FirstDot(v) < i /\ i <= SecondDot(v))
          /\ ~(SecondDot(v) < i /\ i < PatchEnd(v)) /\ ~(v.pre # <<>> /\ i = PatchEnd(v))
      BY <1>1, <2>1, <2>2, CharFacts
    <3>3. ~(PatchEnd(v) < i /\ i < PreEnd(v))
      <4> SUFFICES ASSUME PatchEnd(v) < i, i < PreEnd(v) PROVE FALSE
        OBVIOUS
      <4>1. i - PatchEnd(v) \in 1..Len(v.pre) /\ v.pre[i - PatchEnd(v)] = "+"
        BY <1>1, <2>1, <2>2, CharFacts
      <4> QED BY <2>1, <2>4, <4>1, VersionGrammar
    <3>4. i = PatchEnd(v) => PreEnd(v) = PatchEnd(v)
      BY <3>2 DEF PreEnd
    <3>5. i = PreEnd(v)
      BY <2>1, <2>2, <3>1, <3>2, <3>3, <3>4
    <3>6. v.build # <<>>
      BY <2>1, <2>2, <3>5, CharFacts
    <3>7. ~(i <= SecondDot(v))
      BY <2>1, <2>2, <3>2
    <3> QED BY <3>1, <3>5, <3>6, <3>7
  <2>6. CASE InPatch(v)
    <3>1. state = 0 /\ i <= PatchEnd(v)
      BY <2>6 DEF InPatch
    <3>2. v.pre = <<>>
      <4>1. v.pre # <<>> => PreEnd(v) = PatchEnd(v) + 1 + Len(v.pre)
        BY DEF PreEnd
      <4> QED BY <2>2, <2>4, <2>5, <3>1, <4>1
    <3> QED BY <1>1, <2>5, <3>1, <3>2 DEF Refused
  <2>7. CASE InPre(v)
    <3>1. v.pre # <<>> /\ i - PatchEnd(v) - 1 = Len(v.pre) /\ LeftNext = Len(v.build)
      <4>1. v.pre # <<>> /\ PreEnd(v) = PatchEnd(v) + 1 + Len(v.pre)
        BY <2>7 DEF InPre, PreEnd
      <4>2. i - PatchEnd(v) - 1 = Len(v.pre)
        BY <2>2, <2>4, <2>5, <4>1
      <4>3. i = PreEnd(v) /\ End(v) = PreEnd(v) + 1 + Len(v.build)
        BY <2>3, <2>5
      <4>4. LeftNext = End(v) - i - 1
        BY <2>1
      <4>5. LeftNext = Len(v.build)
        BY <2>2, <2>4, <4>3, <4>4
      <4> QED BY <4>1, <4>2, <4>5
    <3>2. ReadMarks(v, Len(v.pre)) = Marks(v)
      BY <2>4, <2>5 DEF Marks, ReadMarks
    <3>3. PICK last : /\ last_info = PatchEnd(v) + 1 + last
                      /\ Piece(v, Marks(v), last, response.patch)
      BY <2>7, <3>1, <3>2 DEF InPre
    <3>4. /\ DotIsLast(v, Marks(v)) /\ state = 3
          /\ response.major = Atoi(v.major) /\ response.minor = Atoi(v.minor)
      BY <2>7, <3>1, <3>2 DEF InPre
    <3>5. /\ ~Refused(v)
          /\ Marks(v) = {} => response.patch = Atoi(v.patch)
          /\ Marks(v) # {} => Overwritten(v, response.patch)
      BY <2>1, <3>1, <3>3, <3>4, MarksDone
    <3>6. last \in {0} \cup Marks(v) /\ \A k \in Marks(v) : k <= last
      BY <3>3 DEF Piece
    <3>7. c = SubSeq(Text(v), PatchEnd(v) + 1 + last + 1, PatchEnd(v) + 1 + last + Len(v.build))
      BY <2>1, <3>1, <3>3 DEF c
    <3>8. c = v.pre <=> Marks(v) = {} /\ Len(v.pre) = Len(v.build)
      BY <2>1, <2>5, <3>1, <3>6, <3>7, Copied
    <3>9. /\ response'.preRelease # {}
          /\ response'.preRelease = {v.pre} <=> c = v.pre
          /\ response'.major = Atoi(v.major) /\ response'.minor = Atoi(v.minor)
          /\ response'.patch = response.patch
      BY <1>3, <3>4
    <3>10. /\ Marks(v)' = Marks(v)
           /\ Overwritten(v, response.patch)' = Overwritten(v, response.patch)
      BY <3>9 DEF Overwritten, Marks
    <3>11. /\ response'.preRelease = {} <=> v.build = <<>>
           /\ response'.preRelease = {v.pre} <=>
                v.pre # <<>> /\ Marks(v) = {} /\ Len(v.pre) = Len(v.build)
      BY <2>5, <3>1, <3>8, <3>9
    <3>12. SplitAsFar(v)'
      BY <3>1, <3>5, <3>9, <3>10, <3>11 DEF SplitAsFar
    <3> QED BY <1>1, <3>4, <3>5, <3>12
  <2> QED BY <2>5, <2>6, <2>7
<1> QED BY <1>1, <1>4, <1>5, SplitStep

(* The parser never comes to the end of a version: it holds a character.   *)
LEMMA SplitPastEnd == ASSUME SplitInv, ParserInv, ReadPastEnd PROVE SplitInv'
<1>1. /\ parse' = "fault" /\ version' = version /\ answer' = answer
      /\ response' = response /\ dot_count' = dot_count
  BY DEF ReadPastEnd
<1>2. IsResponse(response') /\ dot_count' \in 0..3
  BY <1>1 DEF SplitInv
<1> QED BY <1>1, <1>2, SplitStep

(* The parse starts in the major number.                                   *)
LEMMA SplitAnswer == ASSUME SplitInv, ParserInv, Answer PROVE SplitInv'
<1>1. /\ parse = "waiting" /\ parse' = "parsing"
      /\ i' = i /\ dot_count' = dot_count /\ last_info' = last_info /\ state' = state
      /\ response' = response
      /\ version' \subseteq Versions /\ \A v \in version' : answer' = Text(v)
  BY DEF Answer
<1>2. /\ i = 0 /\ dot_count = 0 /\ last_info = 0 /\ state = 0 /\ IsResponse(response)
      /\ response.patch = Unset /\ response.preRelease = {}
  BY <1>1 DEF SplitInv
<1>3. ASSUME NEW v \in version' PROVE answer' = Text(v)' /\ Reading(v)'
  <2>1. FirstDot(v) \in Nat /\ FirstDot(v)' = FirstDot(v)
    BY <1>1, PlacesTyped DEF FirstDot
  <2>2. InMajor(v)'
    BY <1>1, <1>2, <2>1 DEF InMajor
  <2> QED BY <1>1, <1>2, <2>2 DEF Reading, Text
<1>4. VersionSplit'
  BY <1>1 DEF VersionSplit
<1>5. IsResponse(response') /\ dot_count' \in 0..3
  BY <1>1 DEF SplitInv
<1> QED BY <1>1, <1>3, <1>4, <1>5 DEF SplitInv

(* Steps of other requests leave the parser alone.                         *)
LEMMA SplitStays ==
  ASSUME SplitInv,
         UNCHANGED <<version, answer, left, i, dot_count, last_info, state, response, parse>>
  PROVE  SplitInv'
<1>1. ASSUME NEW v
      PROVE  /\ Text(v)' = Text(v) /\ Marks(v)' = Marks(v) /\ Refused(v)' = Refused(v)
             /\ FirstDot(v)' = FirstDot(v) /\ SecondDot(v)' = SecondDot(v)
             /\ PatchEnd(v)' = PatchEnd(v) /\ PreEnd(v)' = PreEnd(v)
  BY DEF Text, Marks, Refused, FirstDot, SecondDot, PatchEnd, PreEnd
<1>2. \A v : SplitAsFar(v)' <=> SplitAsFar(v)
  BY DEF SplitAsFar, Overwritten, Marks
<1>3. ASSUME NEW v, Reading(v) PROVE Reading(v)'
  <2>1. InMajor(v) => InMajor(v)'
    BY <1>1 DEF InMajor
  <2>2. InMinor(v) => InMinor(v)'
    BY <1>1 DEF InMinor
  <2>3. InPatch(v) => InPatch(v)'
    BY <1>1 DEF InPatch
  <2>4. InPre(v) => InPre(v)'
    BY <1>1 DEF InPre, Piece, DotIsLast, ReadMarks
  <2> QED BY <1>3, <2>1, <2>2, <2>3, <2>4 DEF Reading
<1>4. VersionSplit'
  BY <1>1, <1>2 DEF SplitInv, VersionSplit
<1>5. IsResponse(response') /\ dot_count' \in 0..3
  BY DEF SplitInv
<1> QED BY <1>1, <1>3, <1>4, <1>5 DEF SplitInv

LEMMA SplitInit == ASSUME Init PROVE SplitInv
<1>1. IsResponse([major |-> Unset, minor |-> Unset, patch |-> Unset, preRelease |-> {}])
  BY DEF IsResponse
<1> QED BY <1>1 DEF Init, SplitInv, VersionSplit

(* Every semantic version is split as VersionSplit says, and refused only  *)
(* if it has a build and no pre-release or a "." before another mark in    *)
(* the pre-release, for every set of versions (coglink_parse_version,      *)
(* lib/codecs.c:1152-1198).                                                *)
THEOREM VersionsSplit == Spec => []VersionSplit
<1>1. ASSUME SplitInv, ParserInv, [Next]_vars PROVE SplitInv'
  <2>1. CASE Answer
    BY <1>1, <2>1, SplitAnswer
  <2>2. CASE ReadDot
    BY <1>1, <2>2, SplitDot
  <2>3. CASE ReadDash
    BY <1>1, <2>3, SplitDash
  <2>4. CASE ReadPlus
    BY <1>1, <2>4, SplitPlus
  <2>5. CASE ReadOther
    BY <1>1, <2>5, SplitOther
  <2>6. CASE ReadPastEnd
    BY <1>1, <2>6, SplitPastEnd
  <2>7. CASE ReadLast
    BY <1>1, <2>7, SplitLast
  <2>8. CASE UNCHANGED <<version, answer, left, i, dot_count, last_info, state, response, parse>>
    BY <1>1, <2>8, SplitStays
  <2> QED BY <1>1, <2>1, <2>2, <2>3, <2>4, <2>5, <2>6, <2>7, <2>8 DEF Next, Parse, vars
<1>2. SplitInv => VersionSplit
  BY DEF SplitInv
<1> QED BY <1>1, <1>2, SplitInit, ParserInvariant, PTL DEF Spec
=============================================================================
