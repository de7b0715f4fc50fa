------------------------------ MODULE MCGameChat ------------------------------
(***************************************************************************)
(* Small instances of GameChat for TLC.                                    *)
(***************************************************************************)
EXTENDS GameChat, TLC

CONSTANTS s1, s2

\* The objects a factory makes are interchangeable.
Symmetry == Permutations(Sessions)

\* What the invariants depend on.  No step reads settled, late or a name, and of a
\* name they ask only whether it is that of the login it came with: one that is not
\* belongs to a login that is misread.
OwnName(u) == name[u] = IF game.u = u THEN game.job.tok ELSE sid[u]
Observed ==
  <<sessionVars, users, empty, made, sid, number, [u \in Units |-> OwnName(u)], byId,
    mq, jobs, game, logins, crossed, misread, cells, chat, chats, seen>>
=============================================================================
