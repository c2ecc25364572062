------------------------------ MODULE Clients ------------------------------
(***************************************************************************)
(* Threads that call the operations of a shared object, each in the order  *)
(* of a program of its own, and what an atomic object could have answered. *)
(*                                                                         *)
(* A thread that executes a call has a stack of frames, innermost first: a *)
(* frame is a record with a field pc for where its code is, and the local  *)
(* variables of the function.                                              *)
(*                                                                         *)
(* views holds every state the atomic object may be in, given the calls    *)
(* and the answers so far: a call takes effect at some moment between its  *)
(* beginning and its end, and a view that has let it take effect with      *)
(* another answer than the one it gives is dropped.  When no view is left, *)
(* no order of atomic operations explains the answers.                     *)
(***************************************************************************)
EXTENDS Integers, Sequences, FiniteSets

CONSTANTS
    Threads,
    Nothing,          \* no call, no answer, NULL
    Apply(_, _)       \* Apply(call, state): the pairs <<state after it, its
                      \*   answer>> of the atomic object

VARIABLES
    todo,     \* todo[p]: the calls p has not begun
    doing,    \* doing[p]: the call p is in, or Nothing
    stack,    \* stack[p]: the frames of p
    views     \* [state, got]: got[p] is the answer p's call has been given

history == <<todo, doing, views>>

Top(p)     == Head(stack[p])
At(p, l)   == stack[p] # << >> /\ Top(p).pc = l
Put(p, f)  == stack' = [stack EXCEPT ![p] = <<f>> \o Tail(@)]
Go(p, l)   == Put(p, [Top(p) EXCEPT !.pc = l])
\* The frame f calls a function, whose frame is g.
Invoke(p, f, g) == stack' = [stack EXCEPT ![p] = <<g, f>> \o Tail(@)]
Pop(p)     == stack' = [stack EXCEPT ![p] = Tail(@)]

\* v once the call of p has taken effect in it.
With(v, p) == {[v EXCEPT !.state = o[1], !.got[p] = o[2]] : o \in Apply(doing[p], v.state)}

TakesEffect(vs) ==
    UNION {With(x[1], x[2]) : x \in {y \in vs \X Threads : /\ doing[y[2]] # Nothing
                                                           /\ y[1].got[y[2]] = Nothing}}

Explained ==
    LET upTo[n \in 0 .. Cardinality(Threads)] ==
          IF n = 0 THEN views ELSE upTo[n - 1] \cup TakesEffect(upTo[n - 1])
    IN  upTo[Cardinality(Threads)]

Begin(p, f) ==
    /\ doing[p] = Nothing /\ todo[p] # << >>
    /\ doing' = [doing EXCEPT ![p] = Head(todo[p])]
    /\ todo' = [todo EXCEPT ![p] = Tail(@)]
    /\ stack' = [stack EXCEPT ![p] = <<f>>]
    /\ UNCHANGED views

Answer(p, r) ==
    /\ views' = {[v EXCEPT !.got[p] = Nothing] : v \in {w \in Explained : w.got[p] = r}}
    /\ doing' = [doing EXCEPT ![p] = Nothing]
    /\ stack' = [stack EXCEPT ![p] = << >>]
    /\ UNCHANGED todo

\* The innermost function returns r, to the one that called it or, when there
\* is none, to the program.
Return(p, r) ==
    \/ /\ Len(stack[p]) = 1
       /\ Answer(p, r)
    \/ /\ Len(stack[p]) > 1
       /\ stack' = [stack EXCEPT ![p] = <<[@[2] EXCEPT !.ret = r]>> \o SubSeq(@, 3, Len(@))]
       /\ UNCHANGED history

Quiet == \A p \in Threads : doing[p] = Nothing
Done  == \A p \in Threads : doing[p] = Nothing /\ todo[p] = << >>

ClientsInit(s, programs) ==
    /\ todo \in programs
    /\ doing = [p \in Threads |-> Nothing]
    /\ stack = [p \in Threads |-> << >>]
    /\ views = {[state |-> s, got |-> [p \in Threads |-> Nothing]]}

-----------------------------------------------------------------------------
\* The answers given so far are those of an atomic object.
Linearizable == views # {}
=============================================================================
