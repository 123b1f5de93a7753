---------------------------- MODULE RecencyCache ----------------------------
(***************************************************************************)
(* What the object cache of the proxy promises: it holds whole objects up  *)
(* to a total size, answers a URL with the newest object it has for it,    *)
(* and makes room by giving up the object that was not used for longest.   *)
(***************************************************************************)
EXTENDS Naturals, Functions

CONSTANTS Threads, Objects, Urls, Capacity

VARIABLES held,    \* the URL and the size of every object in the cache
          newer,   \* <<a, b>> when a was used after b
          total,   \* the size of all of them
          answer   \* the URL a thread asked for and the object it got, or <<>>

vars == <<held, newer, total, answer>>

Held == DOMAIN held
Newest(o) == {<<o, b>> : b \in Held \ {o}}

Init ==
    /\ held = [o \in {} |-> 0] /\ newer = {} /\ total = 0
    /\ answer = [t \in Threads |-> <<>>]

Fetch(t, o) ==
    /\ o \in Held /\ answer[t] = <<>>
    /\ \A b \in Held : held[b].url = held[o].url => <<b, o>> \notin newer
    /\ answer' = [answer EXCEPT ![t] = <<held[o].url, o>>]
    /\ newer' = Newest(o) \cup {pair \in newer : pair[1] # o /\ pair[2] # o}
    /\ UNCHANGED <<held, total>>

Answered(t) ==
    /\ answer[t] # <<>> /\ answer' = [answer EXCEPT ![t] = <<>>]
    /\ UNCHANGED <<held, newer, total>>

Evict(o) ==
    /\ o \in Held /\ \A b \in Held : <<o, b>> \notin newer
    /\ held' = Restrict(held, Held \ {o})
    /\ newer' = {pair \in newer : pair[2] # o}
    /\ total' = total - held[o].size
    /\ UNCHANGED answer

Insert(o, url, size) ==
    /\ o \notin Held
    /\ total + size <= Capacity
    /\ held' = [b \in Held \cup {o} |-> IF b = o THEN [url |-> url, size |-> size]
                                        ELSE held[b]]
    /\ newer' = newer \cup Newest(o)
    /\ total' = total + size
    /\ UNCHANGED answer

Next == \/ \E t \in Threads : Answered(t) \/ \E o \in Objects : Fetch(t, o)
        \/ \E o \in Objects :
              \/ Evict(o)
              \/ \E url \in Urls, size \in 0 .. Capacity : Insert(o, url, size)

Spec == Init /\ [][Next]_vars
=============================================================================
