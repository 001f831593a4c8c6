---------------------------- MODULE ConnectionPool ----------------------------
(***************************************************************************)
(* What the remux registry promises the provider: every connection holds a *)
(* slot from the dial until after its socket has closed, and no dial ever  *)
(* takes the number of held slots past the cap.                            *)
(***************************************************************************)
EXTENDS Naturals, FiniteSets

CONSTANTS
    Connections,    \* identities of provider connections
    Cap             \* slots; 0 means unlimited

VARIABLES
    held,           \* connections counted against the cap
    open            \* connections whose socket is open

poolVars == <<held, open>>

PoolInit ==
    /\ held = {}
    /\ open = {}

Dial(c) ==
    /\ c \notin held
    /\ Cap > 0 => Cardinality(held) < Cap
    /\ held' = held \cup {c}
    /\ open' = open \cup {c}

Hangup(c) ==
    /\ c \in open
    /\ open' = open \ {c}
    /\ UNCHANGED held

Free(c) ==
    /\ c \in held \ open
    /\ held' = held \ {c}
    /\ UNCHANGED open

\* A closed connection hands its slot to its successor.
Redial(c, d) ==
    /\ c \in held \ open
    /\ d \notin held
    /\ held' = (held \ {c}) \cup {d}
    /\ open' = open \cup {d}

PoolNext ==
    \/ \E c \in Connections : Dial(c) \/ Hangup(c) \/ Free(c)
    \/ \E c, d \in Connections : Redial(c, d)

PoolSpec == PoolInit /\ [][PoolNext]_poolVars

=============================================================================
