--------------------------- MODULE BroadcastProofs ---------------------------
(***************************************************************************)
(* Proof that the broadcast log never records a broadcast before all of   *)
(* its notifications are written (broadcast_context.py, main(), lines     *)
(* 153-159), for any number of concurrent invocations and any requests.   *)
(***************************************************************************)
EXTENDS Broadcast, TLAPS

\* The values broadcast_id takes, and the entries of the log.
BId == [sec : Int, pid : Procs] \cup {NoId}
Entry == [bid : BId, agents : Seq(Bases)]

(***************************************************************************)
(* LogFollowsNotifications is not inductive: a step of LogBroadcast needs  *)
(* to know that the invocation has written the notification of every       *)
(* agent before its loop position, which is what NotifiedSoFar says, and   *)
(* an invocation that has not started must not carry a loop position yet.  *)
(***************************************************************************)
NotifiedSoFar(p) ==
    \A j \in 1..(idx[p] - 1) : [bid |-> bid[p], agent |-> agents[p][j]] \in sent

IInv ==
    /\ clock \in Int
    /\ pc \in [Procs -> {"idle", "notify", "write", "done", "exited"}]
    /\ agents \in [Procs -> Seq(Bases)]
    /\ bid \in [Procs -> BId]
    /\ idx \in [Procs -> Nat \ {0}]
    /\ log \in Seq(Entry)
    /\ \A p \in Procs : pc[p] = "idle" => idx[p] = 1
    /\ \A p \in Procs : pc[p] \in {"notify", "write"} => NotifiedSoFar(p)
    /\ \A p \in Procs : pc[p] = "write" => idx[p] \in 1..Len(agents[p])
    /\ LogFollowsNotifications

\* validate_agents (lines 39-47) turns a list of names into a list of bases.
LEMMA ValidateType ==
    ASSUME NEW s \in Seq(RawName)
    PROVE  ValidateAgents(s) \in Seq(Bases)
<1>1. \A k \in 1..Len(s) : s[k].base \in Bases
    <2> TAKE k \in 1..Len(s)
    <2>1. s[k] \in RawName
        OBVIOUS
    <2>. QED
        BY <2>1 DEF RawName
<1>2. ValidateAgents(s) \in [1..Len(s) -> Bases]
    BY <1>1 DEF ValidateAgents, NormalizeAgentName
<1>. QED
    BY <1>2

\* The initial state satisfies the inductive invariant.
LEMMA InitIInv == Init => IInv
BY DEF Init, IInv, NotifiedSoFar, LogFollowsNotifications, BId

\* Every step of every invocation, and a tick of the clock, preserves it.
LEMMA NextIInv == IInv /\ [Next]_vars => IInv'
<1> SUFFICES ASSUME IInv, [Next]_vars PROVE IInv'
    OBVIOUS
<1> USE DEF IInv
<1>1. CASE Tick
    <2>1. UNCHANGED <<pc, agents, bid, idx, log, sent>> /\ clock' \in Int
        BY <1>1 DEF Tick
    <2>. QED
        BY <2>1 DEF NotifiedSoFar, LogFollowsNotifications
<1>2. ASSUME NEW p \in Procs, Reject(p) PROVE IInv'
    BY <1>2 DEF Reject, NotifiedSoFar, LogFollowsNotifications
<1>3. ASSUME NEW p \in Procs, Start(p) PROVE IInv'
    <2>1. PICK req \in Requests :
             /\ ~Rejected(req)
             /\ agents' = [agents EXCEPT ![p] = ValidateAgents(RelevantFor(req))]
        BY <1>3 DEF Start
    <2>2. ValidateAgents(RelevantFor(req)) \in Seq(Bases)
        BY ValidateType, RelevantForAssumption
    <2>3. bid' \in [Procs -> BId]
        BY <1>3 DEF Start, BroadcastId, BId
    <2>4. \A q \in Procs : pc'[q] \in {"notify", "write"} => NotifiedSoFar(q)'
        BY <1>3 DEF Start, NotifiedSoFar
    <2>5. LogFollowsNotifications'
        BY <1>3 DEF Start, LogFollowsNotifications
    <2>6. \A q \in Procs : pc'[q] = "write" => idx'[q] \in 1..Len(agents'[q])
        BY <1>3, <2>1 DEF Start
    <2>. QED
        BY <1>3, <2>1, <2>2, <2>3, <2>4, <2>5, <2>6 DEF Start
<1>4. ASSUME NEW p \in Procs, Open(p) PROVE IInv'
    BY <1>4 DEF Open, NotifiedSoFar, LogFollowsNotifications
<1>8. ASSUME NEW p \in Procs, Dump(p) PROVE IInv'
    <2> DEFINE n == [bid |-> bid[p], agent |-> agents[p][idx[p]]]
    <2>1. sent' = sent \cup {n}
        BY <1>8 DEF Dump
    <2>2. NotifiedSoFar(p)'
        BY <1>8, <2>1 DEF Dump, NotifiedSoFar
    <2>3. \A q \in Procs \ {p} : pc'[q] \in {"notify", "write"} => NotifiedSoFar(q)'
        BY <1>8, <2>1 DEF Dump, NotifiedSoFar
    <2>4. LogFollowsNotifications'
        BY <1>8, <2>1 DEF Dump, LogFollowsNotifications
    <2>. QED
        BY <1>8, <2>2, <2>3, <2>4 DEF Dump
<1>5. ASSUME NEW p \in Procs, LogBroadcast(p) PROVE IInv'
    <2> DEFINE e == [bid |-> bid[p], agents |-> agents[p]]
    <2>1. e \in Entry /\ log' = Append(log, e)
        BY <1>5 DEF LogBroadcast, Entry
    <2>2. \A j \in 1..Len(agents[p]) : [bid |-> bid[p], agent |-> agents[p][j]] \in sent
        BY <1>5 DEF LogBroadcast, NotifiedSoFar
    <2>3. LogFollowsNotifications'
        <3> SUFFICES ASSUME NEW k \in 1..Len(log'), NEW j \in 1..Len(log'[k].agents)
                     PROVE [bid |-> log'[k].bid, agent |-> log'[k].agents[j]] \in sent'
            BY DEF LogFollowsNotifications
        <3>1. CASE k =< Len(log)
            <4>1. log'[k] = log[k] /\ sent' = sent
                BY <1>5, <2>1, <3>1 DEF LogBroadcast
            <4>. QED
                BY <3>1, <4>1 DEF LogFollowsNotifications
        <3>2. CASE k = Len(log) + 1
            BY <1>5, <2>1, <2>2, <3>2 DEF LogBroadcast
        <3>. QED
            BY <2>1, <3>1, <3>2
    <2>. QED
        BY <1>5, <2>1, <2>3 DEF LogBroadcast, NotifiedSoFar
<1>6. ASSUME NEW p \in Procs, Fail(p) PROVE IInv'
    BY <1>6 DEF Fail, NotifiedSoFar, LogFollowsNotifications
<1>7. CASE UNCHANGED vars
    BY <1>7 DEF vars, NotifiedSoFar, LogFollowsNotifications
<1>. QED
    BY <1>1, <1>2, <1>3, <1>4, <1>5, <1>6, <1>7, <1>8 DEF Next

(***************************************************************************)
(* Every broadcast that broadcasts.log records (log_broadcast, line 159)   *)
(* has had the notification of every agent in its list written by that    *)
(* same broadcast (create_notification, lines 153-156), however the        *)
(* invocations interleave and wherever one of them fails.                  *)
(***************************************************************************)
THEOREM LogAfterNotifications == Spec => []LogFollowsNotifications
<1>1. Init => IInv
    BY InitIInv
<1>2. IInv /\ [Next]_vars => IInv'
    BY NextIInv
<1>3. IInv => LogFollowsNotifications
    BY DEF IInv
<1>. QED
    BY <1>1, <1>2, <1>3, PTL DEF Spec

-----------------------------------------------------------------------------
(***************************************************************************)
(* Type correctness.  BTypeOK is not inductive: a notification written by  *)
(* an invocation is well typed only because its broadcast_id was taken     *)
(* from the clock and the pid at the start (line 149), and an entry of the *)
(* log names the id of an invocation only because that invocation has      *)
(* finished and so never takes a new id.                                   *)
(***************************************************************************)
BInv ==
    /\ IInv
    /\ clock \in 0..MaxClock
    /\ \A p \in Procs : pc[p] \in {"notify", "write"} => bid[p] \in [sec : Int, pid : Procs]
    /\ sent \subseteq Note
    /\ \A f \in DOMAIN notes :
          notes[f] \in {Empty, Mixed} \/ \E n \in sent : notes[f] = Written(n)
    /\ \A k \in 1..Len(log) : \E p \in Procs : log[k].bid = bid[p] /\ pc[p] = "done"

LEMMA BInit == Init => BInv
<1> SUFFICES ASSUME Init PROVE BInv
    OBVIOUS
<1>1. IInv
    BY InitIInv
<1>2. clock \in 0..MaxClock
    <2>1. MaxClock \in Nat
        BY BroadcastAssumption, Zenon
    <2>. QED
        BY <2>1 DEF Init
<1>. QED
    BY <1>1, <1>2 DEF Init, BInv

\* A tick keeps the clock within its range.
LEMMA ClockStep ==
    ASSUME NEW c \in 0..MaxClock, c < MaxClock
    PROVE  c + 1 \in 0..MaxClock
<1>1. MaxClock \in Nat
    BY BroadcastAssumption, Zenon
<1>. QED
    BY <1>1

LEMMA BStep == BInv /\ [Next]_vars => BInv'
<1> SUFFICES ASSUME BInv, [Next]_vars PROVE BInv'
    OBVIOUS
<1>0. IInv'
    BY NextIInv DEF BInv
<1> USE DEF BInv
<1>1. CASE Tick
    <2>1. clock' \in 0..MaxClock
        BY <1>1, ClockStep DEF Tick
    <2>. QED
        BY <1>0, <1>1, <2>1 DEF Tick
<1>2. ASSUME NEW p \in Procs, Reject(p) PROVE BInv'
    <2>1. pc[p] = "idle" /\ pc' = [pc EXCEPT ![p] = "exited"]
        BY <1>2 DEF Reject
    <2>2. \A k \in 1..Len(log) : \E q \in Procs : log[k].bid = bid[q] /\ pc'[q] = "done"
        BY <2>1 DEF IInv
    <2>. QED
        BY <1>0, <1>2, <2>1, <2>2 DEF Reject, IInv
<1>3. ASSUME NEW p \in Procs, Start(p) PROVE BInv'
    <2>1. pc[p] = "idle" /\ pc' = [pc EXCEPT ![p] = "notify"]
          /\ bid' = [bid EXCEPT ![p] = BroadcastId(clock, p)]
        BY <1>3 DEF Start
    <2>2. BroadcastId(clock, p) \in [sec : Int, pid : Procs]
        BY DEF BroadcastId
    <2>3. \A k \in 1..Len(log) : \E q \in Procs : log[k].bid = bid'[q] /\ pc'[q] = "done"
        BY <2>1 DEF IInv
    <2>. QED
        BY <1>0, <1>3, <2>1, <2>2, <2>3 DEF Start, IInv
<1>4. ASSUME NEW p \in Procs, Open(p) PROVE BInv'
    <2> DEFINE f == FileName(agents[p][idx[p]], clock, bid[p])
    <2>1. /\ pc[p] = "notify" /\ pc' = [pc EXCEPT ![p] = "write"]
          /\ notes' = [g \in DOMAIN notes \cup {f} |-> IF g = f THEN Empty ELSE notes[g]]
          /\ UNCHANGED <<clock, agents, bid, idx, log, sent>>
        BY <1>4 DEF Open
    <2>2. \A k \in 1..Len(log) : \E q \in Procs : log[k].bid = bid[q] /\ pc'[q] = "done"
        BY <2>1 DEF IInv
    <2>3. \A g \in DOMAIN notes' :
              notes'[g] \in {Empty, Mixed} \/ \E n \in sent' : notes'[g] = Written(n)
        BY <2>1
    <2>. QED
        BY <1>0, <2>1, <2>2, <2>3 DEF IInv
<1>8. ASSUME NEW p \in Procs, Dump(p) PROVE BInv'
    <2> DEFINE a == agents[p][idx[p]]
               n == [bid |-> bid[p], agent |-> a]
    <2>1. /\ pc[p] = "write" /\ idx[p] \in 1..Len(agents[p])
          /\ pc' = [pc EXCEPT ![p] = "notify"]
          /\ sent' = sent \cup {n}
          /\ UNCHANGED <<clock, agents, bid, log>>
        BY <1>8 DEF Dump, IInv
    <2>2. PICK c \in DumpResult(notes[cur[p]], n) : notes' = [notes EXCEPT ![cur[p]] = c]
        BY <1>8 DEF Dump
    <2>3. c = Written(n) \/ c = Mixed
        BY DEF DumpResult
    <2>4. n \in Note
        BY <2>1 DEF Note, IInv
    <2>5. \A g \in DOMAIN notes' :
              notes'[g] \in {Empty, Mixed} \/ \E m \in sent' : notes'[g] = Written(m)
        BY <2>1, <2>2, <2>3
    <2>6. \A k \in 1..Len(log) : \E q \in Procs : log[k].bid = bid[q] /\ pc'[q] = "done"
        BY <2>1 DEF IInv
    <2>. QED
        BY <1>0, <2>1, <2>4, <2>5, <2>6 DEF IInv
<1>5. ASSUME NEW p \in Procs, LogBroadcast(p) PROVE BInv'
    <2> DEFINE e == [bid |-> bid[p], agents |-> agents[p]]
    <2>1. /\ pc[p] = "notify" /\ pc' = [pc EXCEPT ![p] = "done"]
          /\ log' = Append(log, e) /\ bid' = bid
        BY <1>5 DEF LogBroadcast
    <2>2. log \in Seq(Entry)
        BY DEF IInv
    <2>3. ASSUME NEW k \in 1..Len(log')
          PROVE  \E q \in Procs : log'[k].bid = bid'[q] /\ pc'[q] = "done"
        <3>1. CASE k =< Len(log)
            <4>1. PICK q \in Procs : log[k].bid = bid[q] /\ pc[q] = "done"
                BY <3>1, <2>2
            <4>2. q # p
                BY <4>1, <2>1
            <4>. QED
                BY <2>1, <2>2, <3>1, <4>1, <4>2 DEF IInv
        <3>2. CASE k = Len(log) + 1
            BY <2>1, <2>2, <3>2 DEF IInv
        <3>. QED
            BY <2>1, <2>2, <3>1, <3>2
    <2>. QED
        BY <1>0, <1>5, <2>1, <2>3 DEF LogBroadcast, IInv
<1>6. ASSUME NEW p \in Procs, Fail(p) PROVE BInv'
    <2>1. /\ pc[p] \in {"notify", "write"} /\ pc' = [pc EXCEPT ![p] = "exited"]
          /\ UNCHANGED <<clock, agents, bid, idx, log, sent>>
        BY <1>6 DEF Fail
    <2>2. \A k \in 1..Len(log) : \E q \in Procs : log[k].bid = bid[q] /\ pc'[q] = "done"
        BY <2>1 DEF IInv
    <2>3. \A g \in DOMAIN notes' :
              notes'[g] \in {Empty, Mixed} \/ \E m \in sent' : notes'[g] = Written(m)
        BY <1>6, <2>1 DEF Fail
    <2>. QED
        BY <1>0, <2>1, <2>2, <2>3 DEF IInv
<1>7. CASE UNCHANGED vars
    BY <1>0, <1>7 DEF vars
<1>. QED
    BY <1>1, <1>2, <1>3, <1>4, <1>5, <1>6, <1>7, <1>8 DEF Next

(***************************************************************************)
(* Every reachable state of concurrent broadcast invocations is well       *)
(* typed: the clock stays within its range, every notification written     *)
(* (create_notification, lines 50-70) names an agent and an id taken from  *)
(* the clock and a pid, every file of the directory holds one of them, and *)
(* every log entry (log_broadcast, line 159) carries the id of an          *)
(* invocation, the one that wrote it.                                      *)
(***************************************************************************)
THEOREM BTypeCorrect == Spec => []BTypeOK
<1>1. Init => BInv
    BY BInit
<1>2. BInv /\ [Next]_vars => BInv'
    BY BStep
<1>3. BInv => BTypeOK
    BY DEF BInv, BTypeOK, IInv
<1>. QED
    BY <1>1, <1>2, <1>3, PTL DEF Spec

-----------------------------------------------------------------------------
(***************************************************************************)
(* Refinement of BroadcastLog.  A Publish step needs two facts the other   *)
(* invariants do not give: a started invocation carries the id it took at *)
(* line 149 from a second the clock reached and its own pid, and the      *)
(* agent list validate_agents made of one of the requests.  Two log lines  *)
(* then have distinct ids: each names a finished invocation, and an        *)
(* invocation still in its loop has another pid.                           *)
(***************************************************************************)
Started(p) ==
    /\ bid[p] \in BroadcastIds
    /\ bid[p].pid = p
    /\ agents[p] \in AgentLists

RInv ==
    /\ BInv
    /\ \A p \in Procs : pc[p] \in {"notify", "write", "done"} => Started(p)

LEMMA RInit == Init => RInv
<1> SUFFICES ASSUME Init PROVE RInv
    OBVIOUS
<1>1. BInv
    BY BInit
<1>2. \A p \in Procs : pc[p] \notin {"notify", "write", "done"}
    BY DEF Init
<1>. QED
    BY <1>1, <1>2 DEF RInv

LEMMA RStep == RInv /\ [Next]_vars => RInv'
<1> SUFFICES ASSUME RInv, [Next]_vars PROVE RInv'
    OBVIOUS
<1>0. BInv'
    BY BStep DEF RInv
<1> DEFINE Kept(p) == pc[p] \in {"notify", "write", "done"} => Started(p)
<1> USE DEF RInv
<1>1. CASE Tick
    BY <1>0, <1>1 DEF Tick, Started
<1>2. ASSUME NEW p \in Procs, Reject(p) PROVE RInv'
    <2>1. pc[p] = "idle" /\ pc' = [pc EXCEPT ![p] = "exited"]
        BY <1>2 DEF Reject
    <2>. QED
        BY <1>0, <1>2, <2>1 DEF Reject, Started, BInv, IInv
<1>3. ASSUME NEW p \in Procs, Start(p) PROVE RInv'
    <2>1. PICK req \in Requests :
             agents' = [agents EXCEPT ![p] = ValidateAgents(RelevantFor(req))]
        BY <1>3 DEF Start
    <2>2. /\ pc' = [pc EXCEPT ![p] = "notify"]
          /\ bid' = [bid EXCEPT ![p] = BroadcastId(clock, p)]
          /\ clock \in 0..MaxClock
        BY <1>3 DEF Start, BInv
    <2>3. Started(p)'
        BY <2>1, <2>2 DEF Started, BroadcastIds, AgentLists, BroadcastId, BInv, IInv
    <2>4. \A q \in Procs \ {p} : Kept(q)'
        BY <2>1, <2>2 DEF Started, BInv, IInv
    <2>. QED
        BY <1>0, <2>3, <2>4
<1>4. ASSUME NEW p \in Procs, Open(p) PROVE RInv'
    BY <1>0, <1>4 DEF Open, Started
<1>8. ASSUME NEW p \in Procs, Dump(p) PROVE RInv'
    BY <1>0, <1>8 DEF Dump, Started
<1>5. ASSUME NEW p \in Procs, LogBroadcast(p) PROVE RInv'
    <2>1. pc[p] = "notify" /\ pc' = [pc EXCEPT ![p] = "done"]
        BY <1>5 DEF LogBroadcast
    <2>. QED
        BY <1>0, <1>5, <2>1 DEF LogBroadcast, Started, BInv, IInv
<1>6. ASSUME NEW p \in Procs, Fail(p) PROVE RInv'
    <2>1. pc' = [pc EXCEPT ![p] = "exited"] /\ UNCHANGED <<agents, bid>>
        BY <1>6 DEF Fail
    <2>. QED
        BY <1>0, <2>1 DEF Started, BInv, IInv
<1>7. CASE UNCHANGED vars
    BY <1>0, <1>7 DEF vars, Started
<1>. QED
    BY <1>1, <1>2, <1>3, <1>4, <1>5, <1>6, <1>7, <1>8 DEF Next

\* The initial state is BroadcastLog's: nothing written, an empty log.
LEMMA AbstractInit == Init => Abstract!Init
BY DEF Init, Abstract!Init

(***************************************************************************)
(* Every step is a step of BroadcastLog or leaves sent and log alone: a    *)
(* notification is a Write, a log line a Publish.                          *)
(***************************************************************************)
LEMMA AbstractStep == RInv /\ [Next]_vars => [Abstract!Next]_<<sent, log>>
<1> SUFFICES ASSUME RInv, [Next]_vars PROVE [Abstract!Next]_<<sent, log>>
    OBVIOUS
<1> USE DEF RInv, BInv
<1>1. CASE Tick
    BY <1>1 DEF Tick
<1>2. ASSUME NEW p \in Procs, Reject(p) PROVE UNCHANGED <<sent, log>>
    BY <1>2 DEF Reject
<1>3. ASSUME NEW p \in Procs, Start(p) PROVE UNCHANGED <<sent, log>>
    BY <1>3 DEF Start
<1>4. ASSUME NEW p \in Procs, Open(p) PROVE UNCHANGED <<sent, log>>
    BY <1>4 DEF Open
<1>8. ASSUME NEW p \in Procs, Dump(p) PROVE Abstract!Next
    <2> DEFINE n == [bid |-> bid[p], agent |-> agents[p][idx[p]]]
    <2>1. pc[p] = "write" /\ idx[p] \in 1..Len(agents[p])
        BY <1>8 DEF Dump, IInv
    <2>2. n \in Abstract!Note
        BY <2>1 DEF Abstract!Note, Started, IInv
    <2>3. Abstract!Write(n)
        BY <1>8 DEF Dump, Abstract!Write
    <2>. QED
        BY <2>2, <2>3 DEF Abstract!Next
<1>5. ASSUME NEW p \in Procs, LogBroadcast(p) PROVE Abstract!Next
    <2> DEFINE e == [bid |-> bid[p], agents |-> agents[p]]
    <2>1. /\ pc[p] = "notify" /\ idx[p] > Len(agents[p])
          /\ log' = Append(log, e) /\ sent' = sent
        BY <1>5 DEF LogBroadcast
    <2>2. Started(p)
        BY <2>1
    <2>3. e \in Abstract!Entry
        BY <2>2 DEF Abstract!Entry, Started
    <2>4. Abstract!NotesOf(e) \subseteq sent
        <3>1. \A j \in 1..Len(agents[p]) : j \in 1..(idx[p] - 1)
            BY <2>1 DEF IInv
        <3>. QED
            BY <2>1, <3>1 DEF Abstract!NotesOf, IInv, NotifiedSoFar
    <2>5. ASSUME NEW k \in 1..Len(log) PROVE log[k].bid # e.bid
        <3>1. PICK q \in Procs : log[k].bid = bid[q] /\ pc[q] = "done"
            OBVIOUS
        <3>2. q # p /\ Started(q)
            BY <2>1, <3>1
        <3>. QED
            BY <2>2, <3>1, <3>2 DEF Started
    <2>6. Abstract!Publish(e)
        BY <2>1, <2>4, <2>5 DEF Abstract!Publish
    <2>. QED
        BY <2>3, <2>6 DEF Abstract!Next
<1>6. ASSUME NEW p \in Procs, Fail(p) PROVE UNCHANGED <<sent, log>>
    BY <1>6 DEF Fail
<1>7. CASE UNCHANGED vars
    BY <1>7 DEF vars
<1>. QED
    BY <1>1, <1>2, <1>3, <1>4, <1>5, <1>6, <1>7, <1>8 DEF Next

(***************************************************************************)
(* The broadcast helper implements BroadcastLog, for any set of concurrent *)
(* invocations, any requests and any clock bound: with the processes, the *)
(* clock and the directory hidden, notifications (lines 153-156) are only *)
(* ever added, the log (line 159) is append-only, a broadcast is logged    *)
(* only after all its notifications, and never twice under one id.        *)
(***************************************************************************)
THEOREM BroadcastRefinement == Spec => AbstractSpec
<1>1. Init => Abstract!Init
    BY AbstractInit
<1>2. Init => RInv
    BY RInit
<1>3. RInv /\ [Next]_vars => RInv'
    BY RStep
<1>4. RInv /\ [Next]_vars => [Abstract!Next]_<<sent, log>>
    BY AbstractStep
<1>. QED
    BY <1>1, <1>2, <1>3, <1>4, PTL DEF Spec, AbstractSpec, Abstract!Spec

=============================================================================
