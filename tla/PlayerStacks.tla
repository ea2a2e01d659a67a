---------------------------- MODULE PlayerStacks ----------------------------
(***************************************************************************)
(* What an application may rely on when it uses a few players: each guild  *)
(* has a stack of them.  Its calls go to the top; a create leaves the      *)
(* guild's player as it is or puts a new one on top; a remove uncovers the *)
(* one below.  No call touches another player.  This is served until a     *)
(* guild without a player is asked for while every place is taken.         *)
(***************************************************************************)
EXTENDS Integers, Sequences

CONSTANTS Guilds, Nodes, Tracks,
          Places  \* numbers; of a guild's players the lowest is the top

VARIABLES players,  \* place -> player, for the places taken
          served

stackVars == <<players, served>>

Of(g) == {p \in DOMAIN players : players[p].guild = g}
Top(g) == {p \in Of(g) : \A q \in Of(g) : p <= q}

Init == players = [p \in {} |-> p] /\ served = TRUE

Create(g) ==
  \E p \in Places \ DOMAIN players, n \in Nodes :
    /\ \A q \in Of(g) : p < q
    /\ players' = [q \in DOMAIN players \cup {p} |->
                     IF q = p THEN [guild |-> g, node |-> n, queue |-> <<>>] ELSE players[q]]
    /\ UNCHANGED served

Enqueue(g, t) ==
  \E p \in Top(g) :
    /\ players' = [players EXCEPT ![p].queue = Append(@, t)]
    /\ UNCHANGED served

Dequeue(g) ==
  \E p \in Top(g) : \E pos \in 0..(Len(players[p].queue) - 1) :
    /\ players' = [players EXCEPT ![p].queue =
                     SubSeq(@, 1, pos) \o SubSeq(@, pos + 2, Len(@))]
    /\ UNCHANGED served

Remove(g) ==
  \E p \in Top(g) :
    /\ players' = [q \in DOMAIN players \ {p} |-> players[q]]
    /\ UNCHANGED served

Overflow(g) ==
  /\ Of(g) = {} /\ DOMAIN players = Places
  /\ players' = [p \in {} |-> p] /\ served' = FALSE

Next ==
  /\ served
  /\ \E g \in Guilds : \/ Create(g) \/ Dequeue(g) \/ Remove(g) \/ Overflow(g)
                       \/ \E t \in Tracks : Enqueue(g, t)

Spec == Init /\ [][Next]_stackVars
=============================================================================
