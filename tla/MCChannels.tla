------------------------------ MODULE MCChannels ------------------------------
(* An instance of Channels. *)
EXTENDS Channels

\* A machine of two states: a guarded self-transition before the row it shadows, and a
\* signal one of the states ignores.
MCRows == <<[from |-> 1, event |-> 1, to |-> 1, guarded |-> TRUE],
            [from |-> 1, event |-> 1, to |-> 2, guarded |-> FALSE],
            [from |-> 2, event |-> 2, to |-> 1, guarded |-> TRUE]>>
=============================================================================
