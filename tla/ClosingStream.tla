--------------------------- MODULE ClosingStream ----------------------------
(***************************************************************************)
(* What two applications see of a connection that one of them writes to    *)
(* and closes: the bytes come out, none twice, and the end comes last.     *)
(***************************************************************************)
EXTENDS Naturals

CONSTANT Clients

VARIABLES wrote,       \* wrote[c]: how many bytes client c has written
          got,         \* got[c]: how many of them have been read
          closed,      \* the clients that have closed
          ended        \* the clients whose stream was read to its end

vars == <<wrote, got, closed, ended>>

Init == /\ wrote = [c \in Clients |-> 0] /\ got = [c \in Clients |-> 0]
        /\ closed = {} /\ ended = {}

Write(c) == /\ c \notin closed
            /\ wrote' = [wrote EXCEPT ![c] = @ + 1]
            /\ UNCHANGED <<got, closed, ended>>

Read(c) == /\ c \notin ended
           /\ \E n \in 1..(wrote[c] - got[c]) : got' = [got EXCEPT ![c] = @ + n]
           /\ UNCHANGED <<wrote, closed, ended>>

Close(c) == /\ c \notin closed /\ closed' = closed \cup {c}
            /\ UNCHANGED <<wrote, got, ended>>

End(c) == /\ c \in closed \ ended /\ got[c] = wrote[c]
          /\ ended' = ended \cup {c}
          /\ UNCHANGED <<wrote, got, closed>>

Next == \E c \in Clients : Write(c) \/ Read(c) \/ Close(c) \/ End(c)

Spec == Init /\ [][Next]_vars
=============================================================================
