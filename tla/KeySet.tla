------------------------------- MODULE KeySet -------------------------------
(***************************************************************************)
(* What the operations of a search tree promise: the tree is a set of      *)
(* keys.  An insertion and a deletion change it in one indivisible step    *)
(* between their call and their return, by their own key only; an answer   *)
(* about a key was true at some moment of the call.                        *)
(*                                                                         *)
(* Operations on one key answer about that key only, so that this is       *)
(* linearizability: seen[p] holds what p's key has been since the call.    *)
(***************************************************************************)
CONSTANTS Threads, Keys

VARIABLES keys,         \* the set
          call,         \* call[p]: p's current operation, or NoCall
          seen,         \* seen[p]: what has been true of its key since
          answer        \* answer[p]: what p's last operation answered

vars == <<keys, call, seen, answer>>

NoCall == [kind |-> "none"]
Calls  == [kind : {"insert", "delete", "get"}, key : Keys]

Init ==
    /\ keys = {}
    /\ call = [p \in Threads |-> NoCall]
    /\ seen = [p \in Threads |-> {}]
    /\ answer = [p \in Threads |-> "none"]

Begin(p) ==
    /\ call[p] = NoCall
    /\ \E c \in Calls : call' = [call EXCEPT ![p] = c]
    /\ answer' = [answer EXCEPT ![p] = "none"]
    /\ UNCHANGED keys

Return(p, result) ==
    /\ call' = [call EXCEPT ![p] = NoCall]
    /\ answer' = [answer EXCEPT ![p] = result]

Insert(p) ==
    /\ call[p] # NoCall /\ call[p].kind = "insert"
    /\ keys' = keys \cup {call[p].key}
    /\ Return(p, "insert")

Delete(p) ==
    /\ call[p] # NoCall /\ call[p].kind = "delete"
    /\ keys' = keys \ {call[p].key}
    /\ Return(p, "delete")

\* A deletion that finds nothing to delete, a search that finds nothing.
Absent(p) ==
    /\ call[p] # NoCall /\ FALSE \in seen[p]
    /\ \/ call[p].kind = "delete" /\ Return(p, "absent")
       \/ call[p].kind = "get"    /\ Return(p, "not found")
    /\ UNCHANGED keys

Found(p) ==
    /\ call[p] # NoCall /\ TRUE \in seen[p]
    /\ call[p].kind = "get"
    /\ Return(p, "found")
    /\ UNCHANGED keys

Observe ==
    seen' = [p \in Threads |->
               IF call[p] # NoCall THEN seen[p] \cup {call[p].key \in keys'}
               ELSE IF call'[p] # NoCall THEN {call'[p].key \in keys}
               ELSE seen[p]]

Next == /\ \E p \in Threads : \/ Begin(p) \/ Insert(p) \/ Delete(p)
                              \/ Absent(p) \/ Found(p)
        /\ Observe

Spec == Init /\ [][Next]_vars
=============================================================================
