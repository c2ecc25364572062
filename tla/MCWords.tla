------------------------------ MODULE MCWords ------------------------------
(***************************************************************************)
(* Two words and three threads.  With DCSS one word is the first address   *)
(* of the operations and written directly by thread 3.  With KCAS two      *)
(* threads give the words in opposite orders, one uses its descriptor a    *)
(* second time, and a third thread may get the number, and so the          *)
(* descriptors, of one that has ended.  With RLU two threads write, one    *)
(* may follow a pointer to an object that is freed, and a reader comes at  *)
(* any time.                                                               *)
(***************************************************************************)
EXTENDS Multiword

Swap(o1, o2, n2) == [do |-> "dcss", addr1 |-> 1, old1 |-> <<o1>>,
                     addr2 |-> 2, old2 |-> <<o2>>, new2 |-> <<n2>>]
Entry(a, o, n)   == [addr |-> a, oldval |-> <<o>>, newval |-> <<n>>]
Both(e, f)       == [do |-> "kcas", entries |-> <<e, f>>]
One(e)           == [do |-> "kcas", entries |-> <<e>>]
ReadOf(a)        == [do |-> "read", addr |-> a]

Stamped == (1 :> <<Swap(0, 0, 1), Swap(1, 1, 2)>>)
        @@ (2 :> <<Swap(0, 0, 3), ReadOf(2)>>)
        @@ (3 :> <<[do |-> "store", addr |-> 1, val |-> <<1>>], ReadOf(2)>>)

Opposite == (1 :> <<Both(Entry(1, 0, 1), Entry(2, 0, 1)), Both(Entry(1, 1, 3), Entry(2, 0, 3))>>)
         @@ (2 :> <<Both(Entry(2, 0, 2), Entry(1, 0, 2))>>)
         @@ (3 :> << >>)

Renumbered == (1 :> <<One(Entry(1, 0, 1))>>)
           @@ (2 :> <<ReadOf(1)>>)
           @@ (3 :> <<One(Entry(1, 1, 3))>>)

Section(c, steps) == [do |-> "section", coarse |-> c, abort |-> FALSE, tries |-> 1, steps |-> steps]
Fine(steps)    == Section(FALSE, steps)
Coarse(steps)  == Section(TRUE, steps)
Aborted(steps) == [do |-> "section", coarse |-> FALSE, abort |-> TRUE, tries |-> 0, steps |-> steps]
Finish         == [do |-> "finish"]
R(o)    == [do |-> "read", obj |-> o]
Via(o)  == [do |-> "follow", obj |-> o]
W(o, v) == [do |-> "write", obj |-> o, val |-> v]
Free(o) == [do |-> "free", obj |-> o]

\* Object 1 is a pointer to 2.
Linked == (1 :> 2) @@ (2 :> 0) @@ (3 :> 0)

Deferred == (1 :> <<Fine(<<W(1, 1)>>), Fine(<<W(1, 2), W(2, 1)>>), Fine(<<W(2, 2), W(2, 3), R(1)>>),
                    Finish>>)
         @@ (2 :> <<Fine(<<R(1), R(2)>>)>>)
         @@ (3 :> << >>)

Unlinked == (1 :> <<Fine(<<W(1, 3), Free(2)>>), Fine(<<W(3, 1)>>), Fine(<<W(3, 2)>>), Finish>>)
         @@ (2 :> <<Fine(<<Via(1)>>)>>)
         @@ (3 :> << >>)

GivenUp == (1 :> <<Fine(<<W(1, 1)>>), Fine(<<R(2)>>)>>)
        @@ (2 :> <<Aborted(<<W(2, 3), W(1, 3)>>)>>)
        @@ (3 :> <<Fine(<<R(2)>>)>>)

Alternate == (1 :> <<Coarse(<<W(1, 1), W(2, 1)>>)>>)
          @@ (2 :> <<Coarse(<<W(2, 3)>>), Fine(<<R(1), R(2)>>)>>)
          @@ (3 :> << >>)

SmallPrograms ==
    ("dcss" :> {Stamped}) @@ ("kcas" :> {Opposite, Renumbered}) @@ ("kcas_htm" :> {Opposite})
    @@ ("rlu" :> {Deferred, Unlinked, GivenUp}) @@ ("rlu_coarse" :> {Alternate})
=============================================================================
