---------------------------- MODULE NodeVersion ----------------------------
(***************************************************************************)
(* coglink_get_node_version (lib/rest.c:647-670): the request of           *)
(* RequestTexts, and coglink_parse_version (lib/codecs.c:1152-1198), which *)
(* splits the answer in one pass over its characters; one iteration of     *)
(* that loop is a step.                                                    *)
(***************************************************************************)
EXTENDS RequestTexts, Sequences

CONSTANTS Characters,
          Bodies,    \* answers that need not be versions
          Versions,  \* semantic versions
          SizeWords  \* bound: size_t has values 0..SizeWords - 1

DigitNames == <<"0", "1", "2", "3", "4", "5", "6", "7", "8", "9">>
Digits == {DigitNames[d] : d \in DOMAIN DigitNames}
DigitValue(c) == (CHOOSE d \in DOMAIN DigitNames : DigitNames[d] = c) - 1

Chars == Seq(Characters)
Numerals == Seq(Digits) \ {<<>>}

(* A version has three numbers and perhaps a pre-release and a build, all  *)
(* sequences of characters; a part that is missing is <<>>.                *)
Text(v) ==
  v.major \o <<".">> \o v.minor \o <<".">> \o v.patch
    \o (IF v.pre = <<>> THEN <<>> ELSE <<"-">> \o v.pre)
    \o (IF v.build = <<>> THEN <<>> ELSE <<"+">> \o v.build)

Unset == -1  \* what the caller left in a number

ASSUME VersionConstants ==
  /\ {".", "-", "+"} \subseteq Characters
  /\ Bodies \subseteq Chars /\ SizeWords \in Nat \ {0}
  /\ Versions \subseteq [major : Chars, minor : Chars, patch : Chars, pre : Chars, build : Chars]
  /\ \A b \in Bodies \cup {Text(v) : v \in Versions} : Len(b) < SizeWords

(* The grammar of semantic versions: the numbers are numbers, and a "+"    *)
(* ends the pre-release.                                                   *)
ASSUME VersionGrammar ==
  \A v \in Versions : /\ {v.major, v.minor, v.patch} \subseteq Numerals
                      /\ \A k \in DOMAIN v.pre : v.pre[k] # "+"

-----------------------------------------------------------------------------
Value[d \in Seq(Digits)] ==
  IF d = <<>> THEN 0
  ELSE 10 * Value[SubSeq(d, 1, Len(d) - 1)] + DigitValue(d[Len(d)])

(* The digits a text starts with, and the number they make.                *)
LeadingDigits(t) == {k \in DOMAIN t : \A j \in 1..k : t[j] \in Digits}
LeadingNumber(t) == Value[[k \in LeadingDigits(t) |-> t[k]]]

(* atoi takes a sign.                                                      *)
Atoi(t) ==
  CASE t # <<>> /\ Head(t) = "-" -> -LeadingNumber(Tail(t))
    [] t # <<>> /\ Head(t) = "+" -> LeadingNumber(Tail(t))
    [] OTHER -> LeadingNumber(t)

-----------------------------------------------------------------------------
VARIABLES version,   \* {} or, for a semantic version, itself
          answer,    \* res.body
          left,      \* version_length
          i,         \* position, from 0
          dot_count,
          last_info,
          state,     \* 3 once a "-" was read
          response,  \* the coglink_node_version
          parse      \* "waiting", "parsing", "done", "failed" or "fault"

vars == <<textVars, version, answer, left, i, dot_count, last_info, state, response, parse>>

Init ==
  /\ TextInit
  /\ version = {} /\ answer = <<>>
  /\ left = 0 /\ i = 0 /\ dot_count = 0 /\ last_info = 0 /\ state = 0
  /\ response = [major |-> Unset, minor |-> Unset, patch |-> Unset, preRelease |-> {}]
  /\ parse = "waiting"

Answer ==
  /\ stage = "sent" /\ request.kind = "version" /\ parse = "waiting"
  /\ \/ answer' \in Bodies /\ version' = {}
     \/ \E v \in Versions : answer' = Text(v) /\ version' = {v}
  /\ left' = Len(answer')
  /\ parse' = "parsing"
  /\ UNCHANGED <<textVars, i, dot_count, last_info, state, response>>

(* while (--version_length)                                                *)
LeftNext == (left - 1) % SizeWords

(* The read that follows finds a character, or the NUL the body ends with  *)
(* if it holds anything.                                                   *)
Reads(chars) ==
  /\ parse = "parsing" /\ LeftNext # 0
  /\ i < Len(answer) /\ answer[i + 1] \in chars
  /\ left' = LeftNext
  /\ UNCHANGED <<textVars, version, answer>>

(* atoi reads on to the end of the body.                                   *)
Number == Atoi(SubSeq(answer, last_info + 1, Len(answer)))

NumberNames == <<"major", "minor", "patch">>

ReadDot ==
  /\ Reads({"."})
  /\ IF dot_count < 3
     THEN /\ response' = [response EXCEPT ![NumberNames[dot_count + 1]] = Number]
          /\ last_info' = i + 1 /\ dot_count' = dot_count + 1 /\ i' = i + 1
          /\ UNCHANGED parse
     ELSE /\ parse' = "failed"
          /\ UNCHANGED <<response, last_info, dot_count, i>>
  /\ UNCHANGED state

ReadDashKeepsPatch ==
  /\ Reads({"-"})
  /\ IF dot_count = 2
     THEN /\ last_info' = i + 1 /\ state' = 3 /\ i' = i + 1
          /\ UNCHANGED parse
     ELSE /\ parse' = "failed"
          /\ UNCHANGED <<last_info, state, i>>
  /\ UNCHANGED <<response, dot_count>>

ReadDash ==
  /\ Reads({"-"})
  /\ IF dot_count = 2
     THEN /\ response' = [response EXCEPT !.patch = Number]
          /\ last_info' = i + 1 /\ state' = 3 /\ i' = i + 1
          /\ UNCHANGED parse
     ELSE /\ parse' = "failed"
          /\ UNCHANGED <<response, last_info, state, i>>
  /\ UNCHANGED dot_count

ReadPlusCopiesAll ==
  /\ Reads({"+"})
  /\ parse' = CASE state # 3 -> "failed" [] last_info = 0 -> "done" [] OTHER -> "fault"
  /\ UNCHANGED <<i, dot_count, last_info, state, response>>

(* The copy takes as many characters as are left after the "+".            *)
ReadPlus ==
  /\ Reads({"+"})
  /\ IF state = 3
     THEN /\ response' = [response EXCEPT !.preRelease =
                            {SubSeq(answer, last_info + 1, last_info + LeftNext)}]
          /\ parse' = IF last_info + LeftNext <= Len(answer) THEN "done" ELSE "fault"
     ELSE parse' = "failed" /\ UNCHANGED response
  /\ UNCHANGED <<i, dot_count, last_info, state>>

ReadOther ==
  /\ Reads(Characters \ {".", "-", "+"})
  /\ i' = i + 1
  /\ UNCHANGED <<dot_count, last_info, state, response, parse>>

ReadPastEnd ==
  /\ parse = "parsing" /\ LeftNext # 0 /\ i >= Len(answer)
  /\ parse' = "fault"
  /\ UNCHANGED <<textVars, version, answer, left, i, dot_count, last_info, state, response>>

ReadLast ==
  /\ parse = "parsing" /\ LeftNext = 0
  /\ left' = 0
  /\ parse' = "done"
  /\ UNCHANGED <<textVars, version, answer, i, dot_count, last_info, state, response>>

Parse == ReadDot \/ ReadDash \/ ReadPlus \/ ReadOther \/ ReadPastEnd \/ ReadLast

Next ==
  \/ TextNext /\ UNCHANGED <<version, answer, left, i, dot_count, last_info, state,
                             response, parse>>
  \/ Answer
  \/ Parse

Spec == Init /\ [][Next]_vars

-----------------------------------------------------------------------------
(* The parser, which is given a length and tests no NUL, reads and copies  *)
(* within any answer that is not empty; the length of an empty one wraps   *)
(* around.                                                                 *)
ParsesInBlock == parse = "fault" => answer = <<>>

(* What a semantic version is split into.  Its major and minor numbers are *)
(* always right.  The patch is set only if a pre-release follows it, and   *)
(* the "." and "-" in the pre-release overwrite it with what precedes      *)
(* them.  The pre-release is set only if a build follows it, and is right  *)
(* only if it has no such character and happens to be as long as the       *)
(* build.  A build without a pre-release, or a pre-release with a "." and  *)
(* a "." or "-" after it, is refused.  The last character is never read.   *)
Marks(v) ==
  {k \in DOMAIN v.pre : v.pre[k] \in {".", "-"} /\ (k < Len(v.pre) \/ v.build # <<>>)}

Refused(v) ==
  \/ v.pre = <<>> /\ v.build # <<>>
  \/ \E j, k \in Marks(v) : v.pre[j] = "." /\ j < k

(* The number that follows the last mark but one.                          *)
Overwritten(v, patch) ==
  \E b \in {0} \cup Marks(v) :
    /\ \E last \in Marks(v) : {k \in Marks(v) : k > b} = {last}
    /\ patch = Atoi(SubSeq(v.pre, b + 1, Len(v.pre)))

SplitAsFar(v) ==
  /\ response.major = Atoi(v.major) /\ response.minor = Atoi(v.minor)
  /\ CASE v.pre = <<>> -> response.patch = Unset
       [] v.pre # <<>> /\ Marks(v) = {} -> response.patch = Atoi(v.patch)
       [] OTHER -> Overwritten(v, response.patch)
  /\ response.preRelease = {} <=> v.build = <<>>
  /\ response.preRelease = {v.pre} <=>
       v.pre # <<>> /\ Marks(v) = {} /\ Len(v.pre) = Len(v.build)

VersionSplit ==
  \A v \in version :
    /\ parse = "failed" => Refused(v)
    /\ parse = "done" => ~Refused(v) /\ SplitAsFar(v)

-----------------------------------------------------------------------------
(* The inductive strengthening of ParsesInBlock: what is left and what was *)
(* read make the answer.                                                   *)
ParserInv ==
  /\ ParsesInBlock
  /\ answer \in Chars /\ Len(answer) < SizeWords
  /\ parse = "waiting" => i = 0 /\ last_info = 0
  /\ parse = "parsing" /\ answer # <<>> =>
       /\ left \in Nat \ {0} /\ i \in Nat /\ left + i = Len(answer)
       /\ last_info \in 0..i
=============================================================================
