----------------------------- MODULE AllocSpec -----------------------------
(***************************************************************************)
(* What a caller of the kernel heap may rely on, without headers, lists    *)
(* or a break pointer.  A region is an address and a length.  While the    *)
(* allocator is not full, a fresh region lies apart from every other one;  *)
(* a request is refused only when no region given back is large enough;    *)
(* and what is given back can be handed out again.                         *)
(*                                                                         *)
(* It does not promise more than the kernel heap keeps.  A caller that     *)
(* stores in a short region may make the allocator lose it: it is then     *)
(* never handed out again.  A full allocator may hand out memory that it   *)
(* has lost from the start and that is not apart from what others hold.    *)
(***************************************************************************)
EXTENDS Integers

CONSTANTS
    Addr,   \* the addresses a region may start at
    Size,   \* the lengths, in bytes, that callers ask for
    Safe    \* the length from which on a region cannot be lost

NULL == 0

VARIABLES
    live,      \* regions that callers hold
    released,  \* regions that were given back
    lost,      \* live regions that the allocator no longer knows
    full,      \* whether the allocator has filled up
    reply      \* the last request and the address it was answered with

vars == <<live, released, lost, full, reply>>

NoReply == [n |-> 0, addr |-> NULL]

Disjoint(r, s) == r.addr + r.len <= s.addr \/ s.addr + s.len <= r.addr

Init ==
    /\ live = {}
    /\ released = {}
    /\ lost = {}
    /\ full \in BOOLEAN
    /\ reply = NoReply

(* It may fill up with any request, and then stays full. *)
MayFill == full' \in BOOLEAN /\ (full => full')

(* A fresh region of exactly n bytes. *)
Grow(n) ==
    /\ \E a \in Addr \ {NULL} :
          LET r == [addr |-> a, len |-> n]
          IN  /\ reply' = [n |-> n, addr |-> a]
              /\ \A s \in live \cup released :
                    s.addr # a /\ (full \/ Disjoint(r, s))
              /\ live' = live \cup {r}
              /\ lost' = IF full THEN lost \cup {r} ELSE lost
    /\ released' = released
    /\ MayFill

(* A region that was given back and is long enough. *)
Reuse(n) ==
    \E r \in released :
        /\ r.len >= n
        /\ live' = live \cup {r}
        /\ released' = released \ {r}
        /\ reply' = [n |-> n, addr |-> r.addr]
        /\ UNCHANGED <<lost, full>>

(* No region: only when none that was given back would do. *)
Refuse(n) ==
    /\ \A r \in released : r.len < n
    /\ reply' = [n |-> n, addr |-> NULL]
    /\ UNCHANGED <<live, released, lost>>
    /\ MayFill

(* Giving back a region that is lost has no effect on the allocator. *)
Free(r) ==
    /\ live' = live \ {r}
    /\ lost' = lost \ {r}
    /\ released' = IF r \in lost THEN released ELSE released \cup {r}
    /\ reply' = NoReply
    /\ full' = full

FreeNothing ==
    /\ reply' = NoReply
    /\ UNCHANGED <<live, released, lost, full>>

Lose(r) ==
    /\ r.len < Safe
    /\ lost' = lost \cup {r}
    /\ UNCHANGED <<live, released, full, reply>>

Next ==
    \/ \E n \in Size : Grow(n) \/ Reuse(n) \/ Refuse(n)
    \/ \E r \in live : Free(r) \/ Lose(r)
    \/ FreeNothing

Spec == Init /\ [][Next]_vars
=============================================================================
