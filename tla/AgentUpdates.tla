---------------------------- MODULE AgentUpdates ----------------------------
(***************************************************************************)
(* What an AgentReference promises to the threads of its process: the      *)
(* changes they ask of the agent object are carried out one after the      *)
(* other in the order in which they were asked for ("The execution order   *)
(* is guaranteed", src/objectstore/AgentReference.hpp), each caller learns *)
(* whether its own change was recorded, and nothing is recorded once the   *)
(* agent belongs to a garbage collector.                                   *)
(*                                                                         *)
(* There are no batches, leaders or locks here: AgentReference is the      *)
(* detailed specification and is checked to implement this one.            *)
(***************************************************************************)
EXTENDS Naturals, Sequences

CONSTANTS
    Threads,        \* the threads of the process
    Objects         \* addresses of objects the agent may own

VARIABLES
    pending,        \* the calls not carried out yet, in the order of arrival
    answer,         \* what each thread knows of its call
    owned,          \* the ownership list of the agent object
    frozen,         \* a garbage collector has taken the agent
    stopped         \* the process is gone

vars == <<pending, answer, owned, frozen, stopped>>

Changes == [op : {"Add", "Remove"}, objs : (SUBSET Objects) \ {{}}]
Heartbeat == [op |-> "Heartbeat", objs |-> {}]
Calls == [by : Threads, what : Changes \cup {Heartbeat}]

(***************************************************************************)
(* The list after the calls s: the last call that names an object decides. *)
(***************************************************************************)
After(list, s) ==
    {o \in Objects :
        \/ \E i \in DOMAIN s :
              /\ s[i].what.op = "Add" /\ o \in s[i].what.objs
              /\ \A j \in DOMAIN s : j > i => o \notin s[j].what.objs
        \/ /\ o \in list
           /\ \A i \in DOMAIN s : o \notin s[i].what.objs}

Init ==
    /\ pending = <<>>
    /\ answer = [t \in Threads |-> "idle"]
    /\ owned = {}
    /\ frozen = FALSE
    /\ stopped = FALSE

Ask(c) ==
    /\ answer[c.by] = "idle"
    /\ answer' = [answer EXCEPT ![c.by] = "pending"]
    /\ pending' = Append(pending, c)
    /\ UNCHANGED <<owned, frozen, stopped>>

(***************************************************************************)
(* The oldest calls, any number of them, succeed or fail together.         *)
(***************************************************************************)
Answer(n, a) ==
    LET callers == {pending[i].by : i \in 1..n}
    IN  /\ answer' = [t \in Threads |-> IF t \in callers THEN a ELSE answer[t]]
        /\ pending' = SubSeq(pending, n + 1, Len(pending))

Record(n) ==
    /\ ~frozen
    /\ owned' = After(owned, SubSeq(pending, 1, n))
    /\ Answer(n, "ok")
    /\ UNCHANGED <<frozen, stopped>>

Refuse(n) ==
    /\ Answer(n, "failed")
    /\ UNCHANGED <<owned, frozen, stopped>>

Return(t) ==
    /\ answer[t] \in {"ok", "failed"}
    /\ answer' = [answer EXCEPT ![t] = "idle"]
    /\ UNCHANGED <<pending, owned, frozen, stopped>>

\* A garbage collector takes the agent, and what it owned goes elsewhere.
Freeze ==
    /\ frozen' = TRUE
    /\ UNCHANGED <<pending, answer, owned, stopped>>
Collect ==
    /\ frozen
    /\ owned' \subseteq owned
    /\ UNCHANGED <<pending, answer, frozen, stopped>>

\* The process exits, whatever its threads are doing.
Stop ==
    /\ stopped' = TRUE
    /\ UNCHANGED <<pending, answer, owned, frozen>>

Next ==
    \/ /\ ~stopped
       /\ \/ \E c \in Calls : Ask(c)
          \/ \E n \in 1..Len(pending) : Record(n) \/ Refuse(n)
          \/ \E t \in Threads : Return(t)
          \/ Stop
    \/ Freeze
    \/ Collect

Spec == Init /\ [][Next]_vars
=============================================================================
