------------------------------- MODULE Rank -------------------------------
(***************************************************************************)
(* The ranking (rank.c): a table of MAX_SCORES nodes that remembers every  *)
(* player by name, the order the nodes were last sorted in, and the file   *)
(* that carries them over to the next run of the server.                   *)
(*                                                                         *)
(* The statistics of a node are one number; the ratio they are sorted by   *)
(* is any order of the nodes in use.                                       *)
(***************************************************************************)
EXTENDS Integers, Sequences, FiniteSets

CONSTANTS
  Names,      \* the players of the server, by name
  MaxScores,  \* MAX_SCORES
  Scores,     \* what a score can be, with 0
  MaxTime     \* bound on time(NULL)

Nodes  == 0..MaxScores - 1
NoOne  == "NULL"
NoName == ""
NoNode == -1      \* NULL
Never  == -1      \* no score is due

ASSUME RankAssumption ==
  /\ {NoOne, NoName} \cap Names = {}
  /\ MaxScores \in Nat \ {0} /\ MaxTime \in Nat
  /\ Scores \subseteq Int /\ 0 \in Scores

VARIABLES
  clock,      \* time(NULL)
  nodes,      \* ranknodes
  order,      \* rank_base[].ind
  rankOf,     \* by player who plays: pl->rank
  scoreOf,    \* by player who plays: pl->score
  file,       \* what rankFileName holds: the nodes in order
  due,        \* history, by name: the score the player left with
  promised,   \* history, by name: due when the file was written last
  spoiled     \* history: the node of a player who plays went to another

history  == <<due, promised, spoiled>>
rankVars == <<clock, nodes, order, rankOf, scoreOf, file, history>>

Empty   == [name |-> NoName, score |-> 0, pl |-> NoOne, timestamp |-> 0]
Playing == DOMAIN rankOf

RankInit ==
  /\ clock = 1
  /\ nodes = [i \in Nodes |-> Empty] /\ order = [i \in Nodes |-> 0]
  /\ rankOf = <<>> /\ scoreOf = <<>>
  /\ file = <<>>
  /\ due = [n \in Names |-> Never] /\ promised = due /\ spoiled = FALSE
-----------------------------------------------------------------------------
\* The least recently used node of the bottom half of the order: the first of
\* several.
BottomHalf == {i \in Nodes : i >= MaxScores \div 2}

LeastRecent ==
  LET time(i) == nodes[order[i]].timestamp IN
  order[CHOOSE i \in BottomHalf :
          \A j \in BottomHalf : time(i) < time(j) \/ (time(i) = time(j) /\ i <= j)]

Unused == {i \in Nodes : nodes[i].name = NoName}

FirstUnused == CHOOSE i \in Unused : \A j \in Unused : i <= j

NodeFor == IF Unused # {} THEN FirstUnused ELSE LeastRecent

With(f, k, v) == [x \in DOMAIN f \cup {k} |-> IF x = k THEN v ELSE f[x]]

\* Rank_get_saved_score of a name that the table knows.
Remembered(n) ==
  \E i \in Nodes :
    /\ nodes[i].name = n
    /\ IF nodes[i].pl = NoOne
       THEN /\ nodes' = [nodes EXCEPT ![i].pl = n]
            /\ rankOf' = With(rankOf, n, i)
            /\ scoreOf' = With(scoreOf, n, nodes[i].score)
       ELSE /\ rankOf' = With(rankOf, n, NoNode)
            /\ scoreOf' = With(scoreOf, n, 0)
            /\ UNCHANGED nodes
    /\ UNCHANGED history

\* Rank_get_saved_score of a new name: the node it gets may have been another's.
Registered(n) ==
  /\ \A i \in Nodes : nodes[i].name # n
  /\ nodes' = [nodes EXCEPT ![NodeFor] = [name |-> n, score |-> 0, pl |-> n, timestamp |-> clock']]
  /\ rankOf' = With(rankOf, n, NodeFor)
  /\ scoreOf' = With(scoreOf, n, 0)
  /\ due' = [due EXCEPT ![n] = Never,
                        ![IF NodeFor \in Unused THEN n ELSE nodes[NodeFor].name] = Never]
  /\ spoiled' = (spoiled \/ nodes[NodeFor].pl # NoOne)
  /\ UNCHANGED promised

TimePasses == clock' \in {clock, clock + 1} /\ clock' <= MaxTime

Login ==
  \E n \in Names \ Playing :
    /\ TimePasses
    /\ Remembered(n) \/ Registered(n)
    /\ UNCHANGED <<order, file>>

\* SCORE, with Rank_add_score and the other statistics.
Score ==
  \E n \in Playing, score \in Scores :
    /\ scoreOf' = [scoreOf EXCEPT ![n] = score]
    /\ nodes' = IF rankOf[n] = NoNode THEN nodes
                ELSE [nodes EXCEPT ![rankOf[n]].score = @ + score - scoreOf[n]]
    /\ \A i \in Nodes : nodes'[i].score \in Scores
    /\ UNCHANGED <<clock, order, rankOf, file, history>>

\* Cmd_reset: the score of every player is 0, in the game only.
ResetAll ==
  /\ scoreOf' = [n \in Playing |-> 0]
  /\ UNCHANGED <<clock, nodes, order, rankOf, file, history>>

StillHis(node, score) == [node EXCEPT !.score = score, !.timestamp = clock']

\* Rank_save_score.
Saved(node, score) == [node EXCEPT !.score = score, !.pl = NoOne, !.timestamp = clock']

Without(f, k) == [x \in DOMAIN f \ {k} |-> f[x]]

\* Delete_player.
Leave ==
  \E n \in Playing :
    /\ TimePasses
    /\ nodes' = IF rankOf[n] = NoNode THEN nodes
                ELSE [nodes EXCEPT ![rankOf[n]] = Saved(@, scoreOf[n])]
    /\ rankOf' = Without(rankOf, n) /\ scoreOf' = Without(scoreOf, n)
    /\ due' = [due EXCEPT ![n] = scoreOf[n]]
    /\ UNCHANGED <<order, file, promised, spoiled>>
-----------------------------------------------------------------------------
\* Rank_sort: the nodes in use by ratio, then the others.
Sortings ==
  {o \in [Nodes -> Nodes] :
     /\ \A i, j \in Nodes : i # j => o[i] # o[j]
     /\ \A i, j \in Nodes : o[i] \in Unused /\ i < j => o[j] \in Unused}

\* Rank_write_rankfile writes rank_entries nodes to a file of its own, which
\* is renamed when all is well. What goes wrong leaves the old file.
Snapshot(o) == [k \in 1..Cardinality(Nodes \ Unused) |-> [nodes[o[k - 1]] EXCEPT !.pl = NoOne]]

HalfWritten(o) == SubSeq(Snapshot(o), 1, Len(Snapshot(o)) \div 2)

AfterFailure(o) == file

Written(o) ==
  \/ /\ file' = Snapshot(o)
     /\ promised' = [n \in Names |-> IF n \in Playing THEN Never ELSE due[n]]
  \/ /\ file' = AfterFailure(o)
     /\ UNCHANGED promised

\* Rank_write_webpage and Rank_write_rankfile: in Main_loop when somebody has
\* come or gone (update_rank), at the end of a round and of the game.
Write ==
  /\ order' \in Sortings
  /\ Written(order')
  /\ UNCHANGED <<clock, nodes, rankOf, scoreOf, due, spoiled>>

\* The file's entries fill the nodes one by one: tagstart.
Loaded(i) == IF i < Len(file) THEN file[i + 1] ELSE Empty

\* The server goes down at any moment and comes up again: Rank_init_saved_scores.
\* rank_base is not sorted before the first Write.
Restart ==
  /\ nodes' = [i \in Nodes |-> Loaded(i)]
  /\ order' = [i \in Nodes |-> 0]
  /\ rankOf' = <<>> /\ scoreOf' = <<>>
  /\ due' = promised
  /\ UNCHANGED <<clock, file, promised, spoiled>>

RankNext == Login \/ Score \/ ResetAll \/ Leave \/ Write \/ Restart

RankSpec == RankInit /\ [][RankNext]_rankVars
-----------------------------------------------------------------------------
(* A player who has left is remembered with the score he left with, through *)
(* a crash too if the file was written since, until another player takes   *)
(* his node; and nobody who plays is without a node. Not said of a table    *)
(* in which a player lost his node while he played: then two share it.      *)
RankIsKept ==
  ~spoiled =>
    /\ \A n \in Playing : rankOf[n] # NoNode
    /\ \A n \in Names \ Playing : due[n] # Never =>
         \E i \in Nodes : nodes[i] = [name |-> n, score |-> due[n], pl |-> NoOne,
                                      timestamp |-> nodes[i].timestamp]
=============================================================================
