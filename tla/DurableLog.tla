------------------------------ MODULE DurableLog ------------------------------
(***************************************************************************)
(* What a write-ahead log promises to its callers.  The log on disk only   *)
(* grows: nothing in it is lost, overwritten or moved, whatever fails.  It *)
(* holds each entry at most once, and no entry that was not handed in; of  *)
(* a failure there may be junk between the entries.  A caller that gets an *)
(* answer gets one, and only when its entry is in the log: an entry that   *)
(* is handed in after that answer comes behind it.                         *)
(***************************************************************************)
EXTENDS Naturals, Sequences

CONSTANTS Entry, Junk

VARIABLES
    log,        \* what is on disk
    status      \* what the caller of each entry knows

vars == <<log, status>>

Init == log = <<>> /\ status = [e \in Entry |-> "new"]

Holds(l, e) == \E i \in 1..Len(l) : l[i] = e

Submit(e) ==
    /\ status[e] = "new"
    /\ status' = [status EXCEPT ![e] = "waiting"]
    /\ UNCHANGED log

\* Entries that were handed in reach the disk, in any order, and perhaps junk.
\* Those whose callers gave up may be among them.
Store ==
    /\ log' \in Seq(Entry \cup {Junk}) /\ Len(log) <= Len(log')
    /\ \A i \in 1..Len(log) : log'[i] = log[i]
    /\ \A i \in (Len(log) + 1)..Len(log') :
         \/ log'[i] = Junk
         \/ /\ log'[i] \in Entry /\ status[log'[i]] # "new"
            /\ \A j \in 1..Len(log') : log'[j] = log'[i] => j = i

\* The callers S are told that their entries are durable.
Confirm(S) ==
    /\ \A e \in S : status[e] = "waiting" /\ Holds(log', e)
    /\ status' = [e \in Entry |-> IF e \in S THEN "ok" ELSE status[e]]

\* The callers S get an error or no answer: nothing is promised to them.
GiveUp(S) ==
    /\ \A e \in S : status[e] = "waiting"
    /\ status' = [e \in Entry |-> IF e \in S THEN "gone" ELSE status[e]]

\* A crash of the process may at once store entries and leave callers alone, a
\* direct append stores its entry and confirms it.
Next ==
    \/ \E e \in Entry : Submit(e)
    \/ Store /\ \E S \in SUBSET Entry : Confirm(S) \/ GiveUp(S)

Spec == Init /\ [][Next]_vars
===============================================================================
