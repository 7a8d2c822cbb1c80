------------------------------ MODULE MagTurns ------------------------------
(***************************************************************************)
(* The contract of the session turns of the MAG showcase                   *)
(* (showcases/mag/memory_store.py): one rolling window per conversation,   *)
(* that is per (user_id, session_id).  append_turn adds the newest turn    *)
(* and prunes that conversation alone down to keep_turns; recent_turns     *)
(* returns the newest turns, oldest first.                                 *)
(***************************************************************************)
EXTENDS Integers, Sequences

CONSTANTS
    Conversations,   \* pairs of a user and a session
    Contents,        \* what a turn says, with its role
    KeepTurns        \* keep_turns, a positive number, 50 in the code

VARIABLE turns

\* The last n elements of s, in order.
Newest(s, n) == SubSeq(s, IF Len(s) > n THEN Len(s) - n + 1 ELSE 1, Len(s))

RecentTurns(k, limit) == Newest(turns[k], limit)

Init == turns = [k \in Conversations |-> <<>>]

AppendTurn(k, c) ==
    turns' = [turns EXCEPT ![k] = Newest(Append(@, c), KeepTurns)]

Next == \E k \in Conversations, c \in Contents : AppendTurn(k, c)

Spec == Init /\ [][Next]_turns
=============================================================================
