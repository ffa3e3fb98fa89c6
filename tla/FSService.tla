----------------------------- MODULE FSService -----------------------------
(***************************************************************************)
(* What the file system promises to the jobs of MaRTA, as if they were in  *)
(* one process: a job asks for the blocks of a file or for the copy of its *)
(* final result, the file system finds a result, at most one for a copy,   *)
(* and the job gets a result found since it asked.  FSLink implements it.  *)
(***************************************************************************)
CONSTANT Job

VARIABLES asks,    \* what each job asks for, "no" when nothing
          results, \* what the file system has found for it since it asked
          answer   \* the last answer each job got

Kind == {"blocks", "copy"}
\* The blocks are not found when a block has no copy on an active node.
Result(kind) == IF kind = "blocks" THEN {"blocks", "unavailable"} ELSE {"copied", "failed"}

Init ==
    /\ asks = [j \in Job |-> "no"] /\ results = [j \in Job |-> {}]
    /\ answer = [j \in Job |-> "no"]

Ask(j, kind) ==
    /\ asks[j] = "no" /\ asks' = [asks EXCEPT ![j] = kind]
    /\ answer' = [answer EXCEPT ![j] = "no"] /\ UNCHANGED results

Find(j, r) ==
    /\ asks[j] \in Kind /\ r \in Result(asks[j])
    /\ asks[j] = "copy" => results[j] = {}
    /\ results' = [results EXCEPT ![j] = @ \cup {r}]
    /\ UNCHANGED <<asks, answer>>

Get(j, r) ==
    /\ r \in results[j]
    /\ answer' = [answer EXCEPT ![j] = r]
    /\ asks' = [asks EXCEPT ![j] = "no"] /\ results' = [results EXCEPT ![j] = {}]

Next ==
    \E j \in Job :
       \/ \E kind \in Kind : Ask(j, kind)
       \/ \E r \in Result("blocks") \cup Result("copy") : Find(j, r) \/ Get(j, r)

Spec == Init /\ [][Next]_<<asks, results, answer>>
=============================================================================
