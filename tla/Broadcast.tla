------------------------------ MODULE Broadcast ------------------------------
(***************************************************************************)
(* src/tools/knowledge/broadcast_context.py: invocations of the broadcast  *)
(* helper, each an OS process that parses its arguments, writes one        *)
(* notification file per target agent into the shared notifications       *)
(* directory and appends one line to the shared broadcast log.  Several    *)
(* invocations may run at once (one per agent session); they share the    *)
(* directory, the log and the wall clock, read at second resolution.       *)
(*                                                                         *)
(* An agent name as given is a base name written in some form (any case,  *)
(* "_" for "-", surrounding blanks); normalize_agent_name maps every form  *)
(* of a base to the base.  A blank name has the base "".                   *)
(***************************************************************************)
EXTENDS Integers, Sequences, FiniteSets

CONSTANTS
    Procs,          \* invocations (their pids)
    Bases,          \* base agent names, "" (a blank name) among them
    Requests,       \* the parsed command lines an invocation may be given
    MaxClock        \* the last second the clock reaches

Forms == {"exact", "upper", "underscore", "padded"}
RawName == [base : Bases, form : Forms]

(***************************************************************************)
(* A request: --json (json TRUE) or --changed/--summary/--for; jsonOk is  *)
(* FALSE when json.loads fails; files is the number of changed files;      *)
(* agents the names of --for split at commas, or of "relevant_for".       *)
(***************************************************************************)
Request == [json : BOOLEAN, jsonOk : BOOLEAN, files : 0..2, agents : Seq(RawName)]

ASSUME BroadcastAssumption ==
    /\ "" \in Bases
    /\ Requests \subseteq Request
    /\ MaxClock \in Nat

\* Lines 34-36: name.lower().strip().replace("_", "-").
NormalizeAgentName(r) == r.base

\* Lines 39-47: normalise every name; a name not in VALID_AGENTS only draws
\* a warning on stderr and is kept.
ValidateAgents(s) == [k \in 1..Len(s) |-> NormalizeAgentName(s[k])]

\* Line 133/135: the --for path drops names that strip() to "".
NonBlank(s) == SelectSeq(s, LAMBDA r : r.base # "")

\* The agent list main() works with, lines 119-135.
RelevantFor(req) == IF req.json THEN req.agents ELSE NonBlank(req.agents)

\* The list main() works with is a list of names: SelectSeq of a sequence is
\* a sequence (stated for the requests the model enumerates; TLC checks it).
ASSUME RelevantForAssumption == \A req \in Requests : RelevantFor(req) \in Seq(RawName)

\* Mutant: the id made of the timestamp alone, without the pid.
BroadcastIdNoPid(t, p) == [sec |-> t, pid |-> CHOOSE q \in Procs : TRUE]

\* Line 149: strftime("%Y%m%d%H%M%S") + "_" + pid.
BroadcastId(t, p) == [sec |-> t, pid |-> p]

\* broadcast_id[:8]: the date part "%Y%m%d" of the id, not the pid.
IdPrefix(b) == b.sec \div 86400

\* Lines 54-56: f"{agent}_{%Y%m%d_%H%M%S}_{broadcast_id[:8]}.json".
FileName(a, t, b) == [agent |-> a, sec |-> t, prefix |-> IdPrefix(b)]

(***************************************************************************)
(* The content of a notification file: the JSON of a notification, the   *)
(* empty file open(filepath, "w") leaves until json.dump's output reaches *)
(* it, or a mix of two writes (a partial write, or the tail of a longer   *)
(* notification under a shorter one written over it at offset 0).          *)
(***************************************************************************)
NoNote == [bid |-> BroadcastId(-1, CHOOSE p \in Procs : TRUE), agent |-> ""]
Written(n) == [text |-> "json", note |-> n]
Empty == [text |-> "empty", note |-> NoNote]
Mixed == [text |-> "mixed", note |-> NoNote]

NoFile == [agent |-> "", sec |-> -1, prefix |-> -1]

VARIABLES
    clock,      \* datetime.utcnow(), in seconds
    pc,         \* per invocation: "idle", "notify", "write", "done", "exited"
    agents,     \* per invocation: the normalised agent list
    bid,        \* per invocation: broadcast_id
    idx,        \* per invocation: the loop position in agents
    cur,        \* per invocation: filepath, the file it has open
    notes,      \* the notifications directory: file name -> content
    log,        \* broadcasts.log, one entry per line
    sent        \* history: the notifications every invocation has written

vars == <<clock, pc, agents, bid, idx, cur, notes, log, sent>>

NoId == BroadcastId(-1, CHOOSE p \in Procs : TRUE)

Init ==
    /\ clock = 0
    /\ pc = [p \in Procs |-> "idle"]
    /\ agents = [p \in Procs |-> <<>>]
    /\ bid = [p \in Procs |-> NoId]
    /\ idx = [p \in Procs |-> 1]
    /\ cur = [p \in Procs |-> NoFile]
    /\ notes = <<>> \* no file yet: the empty function
    /\ log = <<>>
    /\ sent = {}

\* The wall clock advances one second.
Tick ==
    /\ clock < MaxClock
    /\ clock' = clock + 1
    /\ UNCHANGED <<pc, agents, bid, idx, cur, notes, log, sent>>

(***************************************************************************)
(* Lines 116-143: a request that main() rejects: undecodable JSON, no      *)
(* changed file, no agent left; exit 1, nothing written.                   *)
(***************************************************************************)
Rejected(req) ==
    \/ req.json /\ ~req.jsonOk
    \/ req.files = 0
    \/ RelevantFor(req) = <<>>

Reject(p) ==
    /\ pc[p] = "idle"
    /\ \E req \in Requests : Rejected(req)
    /\ pc' = [pc EXCEPT ![p] = "exited"]
    /\ UNCHANGED <<clock, agents, bid, idx, cur, notes, log, sent>>

(***************************************************************************)
(* Lines 116-152: parse, validate and normalise the agents, take the       *)
(* broadcast id from the clock and the pid.                                *)
(***************************************************************************)
Start(p) ==
    /\ pc[p] = "idle"
    /\ \E req \in Requests :
          /\ ~Rejected(req)
          /\ agents' = [agents EXCEPT ![p] = ValidateAgents(RelevantFor(req))]
    /\ bid' = [bid EXCEPT ![p] = BroadcastId(clock, p)]
    /\ pc' = [pc EXCEPT ![p] = "notify"]
    /\ UNCHANGED <<clock, idx, cur, notes, log, sent>>

(***************************************************************************)
(* Lines 153-156 with create_notification, lines 50-67: the file for the  *)
(* next agent, named from the clock read now (line 54), is opened with    *)
(* open(filepath, "w"), which creates it or truncates a file of that name. *)
(***************************************************************************)
Open(p) ==
    /\ pc[p] = "notify"
    /\ idx[p] =< Len(agents[p])
    /\ LET f == FileName(agents[p][idx[p]], clock, bid[p])
       IN  /\ notes' = [g \in DOMAIN notes \cup {f} |-> IF g = f THEN Empty ELSE notes[g]]
           /\ cur' = [cur EXCEPT ![p] = f]
    /\ pc' = [pc EXCEPT ![p] = "write"]
    /\ UNCHANGED <<clock, agents, bid, idx, log, sent>>

(***************************************************************************)
(* Line 68 and the close at the end of the with block: json.dump's output *)
(* is written at offset 0 of the open file.  If another invocation has     *)
(* written to the file since this one truncated it, what was there is      *)
(* overwritten from the start, and a longer tail of it may remain.         *)
(***************************************************************************)
DumpResult(c, n) == IF c = Empty THEN {Written(n)} ELSE {Written(n), Mixed}

\* Mutant: the loop index not advanced.
DumpNoAdvance(p) ==
    /\ pc[p] = "write"
    /\ LET n == [bid |-> bid[p], agent |-> agents[p][idx[p]]]
       IN  /\ \E c \in DumpResult(notes[cur[p]], n) :
                 notes' = [notes EXCEPT ![cur[p]] = c]
           /\ sent' = sent \cup {n}
    /\ pc' = [pc EXCEPT ![p] = "notify"]
    /\ UNCHANGED <<clock, agents, bid, idx, cur, log>>

Dump(p) ==
    /\ pc[p] = "write"
    /\ LET n == [bid |-> bid[p], agent |-> agents[p][idx[p]]]
       IN  /\ \E c \in DumpResult(notes[cur[p]], n) :
                 notes' = [notes EXCEPT ![cur[p]] = c]
           /\ sent' = sent \cup {n}
    /\ idx' = [idx EXCEPT ![p] = idx[p] + 1]
    /\ pc' = [pc EXCEPT ![p] = "notify"]
    /\ UNCHANGED <<clock, agents, bid, cur, log>>

(***************************************************************************)
(* Lines 158-162 with log_broadcast (lines 73-87): append the entry, exit  *)
(* 0.                                                                      *)
(***************************************************************************)
\* Mutants: the log written before the last notification; the log entry
\* given an id of its own, read from the clock again.
LogBroadcastEarly(p) ==
    /\ pc[p] = "notify"
    /\ idx[p] >= Len(agents[p])
    /\ log' = Append(log, [bid |-> bid[p], agents |-> agents[p]])
    /\ pc' = [pc EXCEPT ![p] = "done"]
    /\ UNCHANGED <<clock, agents, bid, idx, cur, notes, sent>>

LogBroadcastFreshId(p) ==
    /\ pc[p] = "notify"
    /\ idx[p] > Len(agents[p])
    /\ log' = Append(log, [bid |-> BroadcastId(clock, p), agents |-> agents[p]])
    /\ pc' = [pc EXCEPT ![p] = "done"]
    /\ UNCHANGED <<clock, agents, bid, idx, cur, notes, sent>>

LogBroadcast(p) ==
    /\ pc[p] = "notify"
    /\ idx[p] > Len(agents[p])
    /\ log' = Append(log, [bid |-> bid[p], agents |-> agents[p]])
    /\ pc' = [pc EXCEPT ![p] = "done"]
    /\ UNCHANGED <<clock, agents, bid, idx, cur, notes, sent>>

(***************************************************************************)
(* An exception in the loop (mkdir or open failing, the process killed):   *)
(* the notifications written so far stay, no log entry is written.  A     *)
(* kill inside the with block of lines 67-68 leaves the open file as it   *)
(* is (empty, if nothing was flushed) or with part of the JSON in it.      *)
(***************************************************************************)
Fail(p) ==
    /\ pc[p] \in {"notify", "write"}
    /\ \/ UNCHANGED notes
       \/ pc[p] = "write" /\ notes' = [notes EXCEPT ![cur[p]] = Mixed]
    /\ pc' = [pc EXCEPT ![p] = "exited"]
    /\ UNCHANGED <<clock, agents, bid, idx, cur, log, sent>>

Next ==
    \/ Tick
    \/ \E p \in Procs : Reject(p) \/ Start(p) \/ Open(p) \/ Dump(p)
                        \/ LogBroadcast(p) \/ Fail(p)

(***************************************************************************)
(* Every invocation is its own process, scheduled by the OS: weak fairness *)
(* for each one's steps.  The clock is not needed to make progress.        *)
(***************************************************************************)
Spec ==
    /\ Init /\ [][Next]_vars
    /\ \A p \in Procs : WF_vars(Start(p) \/ Reject(p) \/ Open(p) \/ Dump(p) \/ LogBroadcast(p))

-----------------------------------------------------------------------------
(***************************************************************************)
(* Properties.                                                             *)
(***************************************************************************)

Note == [bid : [sec : Int, pid : Procs], agent : Bases]

(***************************************************************************)
(* Types; every file of the directory is empty, mixed, or the JSON of a    *)
(* notification some invocation wrote (never one put together from two);  *)
(* every log entry carries the broadcast id of an invocation.              *)
(***************************************************************************)
BTypeOK ==
    /\ clock \in 0..MaxClock
    /\ pc \in [Procs -> {"idle", "notify", "write", "done", "exited"}]
    /\ agents \in [Procs -> Seq(Bases)]
    /\ idx \in [Procs -> Nat \ {0}]
    /\ sent \subseteq Note
    /\ \A f \in DOMAIN notes :
          notes[f] \in {Empty, Mixed} \/ \E n \in sent : notes[f] = Written(n)
    /\ \A k \in 1..Len(log) : log[k].bid \in {bid[p] : p \in Procs}

(***************************************************************************)
(* The log is written last (line 159, after the loop of lines 153-156):    *)
(* every broadcast the log records had its notification written for every *)
(* agent in its list, by that same broadcast.                              *)
(***************************************************************************)
LogFollowsNotifications ==
    \A k \in 1..Len(log) :
        \A j \in 1..Len(log[k].agents) :
            [bid |-> log[k].bid, agent |-> log[k].agents[j]] \in sent

(***************************************************************************)
(* Every invocation exits: the loop (lines 153-156) runs once per agent of *)
(* a finite list, whatever the other invocations do.                       *)
(***************************************************************************)
Termination == \A p \in Procs : <>(pc[p] \in {"done", "exited"})

-----------------------------------------------------------------------------
(***************************************************************************)
(* The helper implements BroadcastLog: with the directory, the processes  *)
(* and the clock hidden, the notifications written and the log evolve as  *)
(* the abstract promise says.  A broadcast id is a second the clock        *)
(* reaches and a pid; an agent list is what validate_agents makes of a    *)
(* request's names.                                                        *)
(***************************************************************************)
BroadcastIds == [sec : 0..MaxClock, pid : Procs]
AgentLists == {ValidateAgents(RelevantFor(req)) : req \in Requests}

Abstract == INSTANCE BroadcastLog WITH Ids <- BroadcastIds, Lists <- AgentLists

(***************************************************************************)
(* Refinement: every behaviour of concurrent invocations is a behaviour of *)
(* BroadcastLog.  Each notification (lines 153-156) is a Write; each log  *)
(* line (line 159) is a Publish, so it comes after every notification it   *)
(* names, and no two log lines carry the same broadcast id (the pid in     *)
(* the id of line 149 tells concurrent invocations of the same second      *)
(* apart); every other step leaves both unchanged.                         *)
(***************************************************************************)
AbstractSpec == Abstract!Spec

=============================================================================
