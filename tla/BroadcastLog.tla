---------------------------- MODULE BroadcastLog ----------------------------
(***************************************************************************)
(* What the broadcast helper (src/tools/knowledge/broadcast_context.py)    *)
(* promises its readers, without processes, loop positions or a clock:   *)
(* notifications are written one at a time and never taken back from the *)
(* record of what was written, and the broadcast log is append-only, with  *)
(* an entry for a broadcast only once every notification it names has      *)
(* been written, and at most one entry per broadcast id.                   *)
(***************************************************************************)
EXTENDS Naturals, Sequences

CONSTANTS
    Ids,        \* broadcast ids
    Bases,      \* agent names
    Lists       \* the agent lists a broadcast may have

VARIABLES
    sent,       \* every notification written so far
    log         \* the broadcast log, one entry per line

Note == [bid : Ids, agent : Bases]
Entry == [bid : Ids, agents : Lists]

\* The notifications a log entry stands for.
NotesOf(e) == {[bid |-> e.bid, agent |-> e.agents[j]] : j \in 1..Len(e.agents)}

Init ==
    /\ sent = {}
    /\ log = <<>>

\* A notification is written for an agent.
Write(n) ==
    /\ sent' = sent \cup {n}
    /\ UNCHANGED log

\* A broadcast is logged: all its notifications exist, its id is new.
Publish(e) ==
    /\ NotesOf(e) \subseteq sent
    /\ \A k \in 1..Len(log) : log[k].bid # e.bid
    /\ log' = Append(log, e)
    /\ UNCHANGED sent

Next ==
    \/ \E n \in Note : Write(n)
    \/ \E e \in Entry : Publish(e)

Spec == Init /\ [][Next]_<<sent, log>>

=============================================================================
