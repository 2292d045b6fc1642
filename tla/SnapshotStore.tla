---------------------------- MODULE SnapshotStore ----------------------------
(***************************************************************************)
(* What a checkpointed trie promises to its users: each of them has a map  *)
(* from keys to values with nested transactions, and saves maps that no    *)
(* crash loses.                                                            *)
(***************************************************************************)
EXTENDS Integers, Sequences

CONSTANTS Keys, Values, None, Users

VARIABLES content,   \* user -> map the user sees
          open,      \* user -> maps at the user's open checkpoints
          snapshots  \* maps that have been saved

store == <<content, open, snapshots>>

NoMap == [k \in Keys |-> None]

StoreInit(first) ==
  /\ content = [u \in Users |-> NoMap]
  /\ open = [u \in Users |-> << >>]
  /\ snapshots = {first}

(* Write a key, or take it out with None. *)
Write ==
  LET before == content
      after == content'
  IN /\ UNCHANGED <<open, snapshots>>
     /\ \E u \in Users, k \in Keys, v \in Values \cup {None} :
          after = [before EXCEPT ![u][k] = v]

Begin(u) ==
  /\ open' = [open EXCEPT ![u] = Append(@, content[u])]
  /\ UNCHANGED <<content, snapshots>>

Close(u, keep) ==
  /\ open[u] # << >>
  /\ open' = [open EXCEPT ![u] = SubSeq(@, 1, Len(@) - 1)]
  /\ content' = IF keep THEN content ELSE [content EXCEPT ![u] = open[u][Len(open[u])]]
  /\ UNCHANGED snapshots

Save(u) ==
  /\ open[u] = << >>
  /\ snapshots' = snapshots \cup {content[u]}
  /\ UNCHANGED <<content, open>>

Load(u, m) ==
  /\ open[u] = << >>
  /\ m \in snapshots
  /\ content' = [content EXCEPT ![u] = m]
  /\ UNCHANGED <<open, snapshots>>

Lose ==
  /\ content' = [u \in Users |-> NoMap]
  /\ open' = [u \in Users |-> << >>]
  /\ UNCHANGED snapshots

StoreNext ==
  \/ Write
  \/ \E u \in Users : Begin(u) \/ Save(u)
  \/ \E u \in Users, keep \in BOOLEAN : Close(u, keep)
  \/ \E u \in Users, m \in snapshots : Load(u, m)
  \/ Lose
=============================================================================
