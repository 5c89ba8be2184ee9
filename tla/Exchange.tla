------------------------------ MODULE Exchange ------------------------------
(***************************************************************************)
(* What a repartitioning promises: producers hand over rows, every row     *)
(* belongs to one consumer, and a consumer that has come to the end has    *)
(* all the rows that belong to it, each producer's in order.               *)
(***************************************************************************)
EXTENDS Integers, SequencesExt

CONSTANTS
    Producers, Consumers,
    Rows,
    Part            \* the consumer of each row: a function from Rows to Consumers

VARIABLES
    sent,           \* per producer: the rows it has handed over
    closed,         \* the producers that have no more
    received,       \* per consumer and producer
    ended           \* the consumers that have come to the end

vars == <<sent, closed, received, ended>>

Init ==
    /\ sent = [p \in Producers |-> << >>]
    /\ closed = {}
    /\ received = [c \in Consumers |-> [p \in Producers |-> << >>]]
    /\ ended = {}

\* The rows of producer p that belong to consumer c.
Share(c, p) ==
    LET rows == sent[p] IN
    FlattenSeq([i \in DOMAIN rows |-> IF Part[rows[i]] = c THEN <<rows[i]>> ELSE << >>])

Send(p) ==
    /\ p \notin closed
    /\ \E n \in 1 .. 2, chunk \in [1 .. 2 -> Rows] :
          sent' = [sent EXCEPT ![p] = @ \o SubSeq(chunk, 1, n)]
    /\ UNCHANGED <<closed, received, ended>>

Close(p) ==
    /\ closed' = closed \union {p}
    /\ UNCHANGED <<sent, received, ended>>

Receive(c, p) ==
    /\ closed = Producers
    /\ c \notin ended
    /\ \E n \in Len(received[c][p]) .. Len(Share(c, p)) :
          received' = [received EXCEPT ![c][p] = SubSeq(Share(c, p), 1, n)]
    /\ UNCHANGED <<sent, closed, ended>>

End(c) ==
    /\ closed = Producers
    /\ \A p \in Producers : received[c][p] = Share(c, p)
    /\ ended' = ended \union {c}
    /\ UNCHANGED <<sent, closed, received>>

Next ==
    \/ \E p \in Producers : Send(p) \/ Close(p)
    \/ \E c \in Consumers : End(c) \/ \E p \in Producers : Receive(c, p)

Spec == Init /\ [][Next]_vars
=============================================================================
