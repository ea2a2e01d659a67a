--------------------------- MODULE MCNodeVersion ---------------------------
(* Instance of NodeVersion for TLC: lengths on both sides of each limit,   *)
(* every answer of at most MaxBody characters, and versions with every     *)
(* shape of pre-release and build.                                         *)
EXTENDS NodeVersion, SequencesExt

CONSTANT MaxBody

FewRequests ==
  [kind : {"player", "voice", "session", "search", "join", "leave"}, ssl : BOOLEAN,
   host : {0, 9}, port : 1..5, session : {0, 15, 16, 17, 32}, guild : {1, 17, 18, 19, 20},
   channel : {1, 19, 20}, token : {16}, address : {0, 30}, search : {0, 11}]
    \cup
  [kind : {"version"}, ssl : {FALSE}, host : {9}, port : {4, 5}, session : {16},
   guild : {18}, channel : {18}, token : {16}, address : {30}, search : {11}]

FewBodies == BoundedSeq({"4", "0", "b", ".", "-", "+"}, MaxBody)

FewVersions ==
  [major : {<<"4">>, <<"1", "0">>}, minor : {<<"0">>}, patch : {<<"8">>, <<"1", "2">>},
   pre : {<<>>, <<"b">>, <<"b", "1">>, <<"2", ".", "1">>, <<"b", ".", "1", ".", "0">>,
          <<"2", "-">>, <<"-", "1">>, <<"3", "-", "b", ".", "1">>},
   build : {<<>>, <<"7">>, <<"7", "f">>, <<"7", "f", "3">>}]
=============================================================================
