----------------------------- MODULE ChangeFeed -----------------------------
(***************************************************************************)
(* What a watcher of a changing set of orders promises the one who calls   *)
(* it, with no request, delay, queue, limit or stop.  It observes the set  *)
(* now and then and tells the differences one at a time, least order       *)
(* first; it never observes again while something observed is untold,      *)
(* never tells what is not the last observation or was told before, and    *)
(* forgets an order it observes to be gone, so that it is told again when  *)
(* it comes back.                                                          *)
(*                                                                         *)
(* ActiveWatcher.tla implements this specification.                        *)
(***************************************************************************)
EXTENDS Integers

CONSTANTS Orders,  \* order ids, in their key order
          Values,  \* what can be seen of an order
          NULL     \* not there

VARIABLES seen,  \* seen[o]: the last observation of o
          told   \* told[o]: the last that was told of o and not forgotten

feedVars == <<seen, told>>

Views == [Orders -> Values \cup {NULL}]

Nothing == [o \in Orders |-> NULL]

Init == seen = Nothing /\ told = Nothing

(* What remains of told once the view v was observed. *)
Kept(v) == [o \in Orders |-> IF v[o] = NULL THEN NULL ELSE told[o]]

(* From knowledge t of the view v, the least difference is told. *)
TellLeast(v, t) ==
    \E o \in Orders :
        /\ v[o] # t[o]
        /\ \A p \in Orders : v[p] # t[p] => o <= p
        /\ told' = [t EXCEPT ![o] = v[o]]

Observe(v) ==
    /\ told = seen
    /\ seen' = v
    /\ \/ TellLeast(v, Kept(v))
       \/ Kept(v) = v /\ told' = v

Tell ==
    /\ TellLeast(seen, told)
    /\ UNCHANGED seen

Next == Tell \/ \E v \in Views : Observe(v)

Spec == Init /\ [][Next]_feedVars
=============================================================================
