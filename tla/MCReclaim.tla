----------------------------- MODULE MCReclaim -----------------------------
(***************************************************************************)
(* Small instances of the reclaimers: who unlinks, how many records there  *)
(* are, how many announcements fit, and the last epoch in which a thread   *)
(* starts an operation, per scheme.  A record is freed three epochs after  *)
(* it was retired, so that thread 0 goes three epochs past the one in      *)
(* which somebody else can still find it.                                  *)
(***************************************************************************)
EXTENDS Reclaimers

CONSTANTS a, b, c

All(n, x) == [p \in 0 .. n - 1 |-> x]
Two(x, y) == 0 :> x @@ 1 :> y

Epochs == [threads |-> 2, records |-> {a}, updaters |-> {0}, block |-> 1,
           slots |-> All(2, 0), last |-> Two(6, 4)]

Times(n, call) == [i \in 1 .. n |-> call]

\* Thread 0 fills the shared bag, takes the blocks out again and gives them
\* back while thread 1 makes up its mind about the first of them.
Swaps == Two(Times(5, "get") \o Times(5, "add") \o Times(5, "get") \o Times(5, "add"),
             <<"get">>)
\* Both threads give and take.
Share == Two(Times(4, "get") \o Times(4, "add") \o Times(2, "get"),
             Times(4, "get") \o Times(4, "add") \o Times(3, "get"))
\* A limbo bag is emptied in part, from behind its head or another block,
\* and then altogether.
Moves(call) ==
    Two(Times(6, "get") \o Times(5, "retire") \o <<call, "add", "retire">>
          \o Times(2, "get") \o <<"retire", "moveAll", "get", "add">>,
        Times(3, "get") \o <<"retire", "move", "retire", "retire", "moveAll", "get">>)

Pooled ==
    [Epochs EXCEPT !.records = {}] @@
    [programs |-> {Swaps, Share, Moves("move"), Moves("moveAfter")},
     alloc |-> {"new", "once"}, room |-> 8]

Everyone ==
    [s \in {"debra", "debracap", "debraplus", "ebr_tree", "ebr_token",
            "hazardptr", "rcu", "urcu", "urcu_tsc", "pools", "pool_none"} |->
       CASE s \in {"debra", "debracap"} -> Epochs
         [] s = "debraplus" -> [Epochs EXCEPT !.records = {a, b},
                                    !.slots = Two(0, 1), !.last = Two(8, 0)]
         [] s = "ebr_tree"  -> [Epochs EXCEPT !.threads = 3, 
                                    !.last = 0 :> 8 @@ 1 :> 4 @@ 2 :> 6]
         [] s = "ebr_token" -> [Epochs EXCEPT !.threads = 3, !.records = {a, b},
                                    !.updaters = 0 .. 2]
         [] s = "hazardptr" -> [Epochs EXCEPT !.records = {a, b}, !.slots = Two(2, 1)]
         [] s = "pools" -> Pooled
         [] s = "pool_none" -> [Pooled EXCEPT !.block = 2]
         [] OTHER -> [Epochs EXCEPT !.records = {a, b}, !.updaters = {0, 1},
                                    !.last = All(2, 4)]]

\* Hazard pointers whose clients also give up single records.
Unprotecting ==
    [s \in {"hazardptr"} |-> [Epochs EXCEPT !.records = {a, b, c},
                                            !.slots = Two(1, 2)]]
====
