------------------------------ MODULE Allowlist ------------------------------
(***************************************************************************)
(* What the household's tables promise when the requests, and the awaits   *)
(* between their checks and their writes, are out of sight: every write is *)
(* justified by what the tables hold at that very step.                    *)
(***************************************************************************)
EXTENDS Naturals

CONSTANTS Subs, PlexSubs, Invites, Codes, Tokens, MaxUses, None

VARIABLES
    adminSubs,  \* ADMIN_SUBS
    members,    \* sub -> "user", "admin", "none" or "revoked"
    invites,    \* code -> issuer, role, uses, revoked
    links,      \* link code -> state, the member it is bound to, tokens minted
    tokens      \* jti -> its member, revoked

tables == <<adminSubs, members, invites, links, tokens>>

Roles == {"user", "admin"}

IsAdmin(s) == s \in adminSubs \/ members[s] = "admin"

AllowInit ==
    /\ adminSubs \subseteq Subs
    /\ members \in [Subs -> Roles \cup {"none", "revoked"}]
    /\ invites = [i \in Invites |-> [issuer |-> None, role |-> "user", used |-> 0,
                                     max |-> 1, revoked |-> FALSE]]
    /\ links = [c \in Codes |-> [state |-> "free", sub |-> None, minted |-> 0]]
    /\ tokens = [t \in Tokens |-> [sub |-> None, revoked |-> FALSE]]

-----------------------------------------------------------------------------
(* Members *)

\* By an invite that is good and has a use left, which is spent.
Enter(s, i) ==
    /\ members[s] \notin Roles
    /\ invites[i].issuer # None /\ ~invites[i].revoked
    /\ members[invites[i].issuer] # "revoked"
    /\ invites[i].used < invites[i].max
    /\ UNCHANGED <<adminSubs, links, tokens>>
    /\ members' = [members EXCEPT ![s] = invites[i].role]
    /\ invites' = [invites EXCEPT ![i].used = @ + 1]

\* By a Plex share, once in a lifetime.
Share(s) ==
    /\ s \in PlexSubs
    /\ members[s] = "none"
    /\ UNCHANGED <<adminSubs, invites, links, tokens>>
    /\ members' = [members EXCEPT ![s] = "user"]

\* Never an owner, never the last administrator; the invites go along.
Leave(s) ==
    /\ s \notin adminSubs /\ members[s] \in Roles
    /\ IsAdmin(s) => \E o \in Subs \ {s} : IsAdmin(o)
    /\ UNCHANGED <<adminSubs, links, tokens>>
    /\ members' = [members EXCEPT ![s] = "revoked"]
    /\ invites' = [i \in Invites |-> [invites[i] EXCEPT
                      !.revoked = @ \/ invites[i].issuer = s]]

Issue(s, i) ==
    /\ invites[i].issuer = None
    /\ UNCHANGED <<adminSubs, members, links, tokens>>
    /\ \E role \in Roles, max \in 1..MaxUses :
          invites' = [invites EXCEPT ![i] = [issuer |-> s, role |-> role, used |-> 0,
                                             max |-> max, revoked |-> FALSE]]

Close(i) ==
    /\ invites[i].issuer # None
    /\ UNCHANGED <<adminSubs, members, links, tokens>>
    /\ invites' = [invites EXCEPT ![i].revoked = TRUE]

-----------------------------------------------------------------------------
(* Devices *)

Fresh(t) == tokens[t].sub = None

\* A code is opened, bound to one member and consumed, in that order ...
Open(c) ==
    /\ links[c].state = "free"
    /\ UNCHANGED <<adminSubs, members, invites, tokens>>
    /\ links' = [links EXCEPT ![c].state = "open"]

Claim(s, c) ==
    /\ links[c].state = "open"
    /\ UNCHANGED <<adminSubs, members, invites, tokens>>
    /\ links' = [links EXCEPT ![c].state = "claimed", ![c].sub = s]

Consume(c) ==
    /\ links[c].state = "claimed"
    /\ UNCHANGED <<adminSubs, members, invites, tokens>>
    /\ links' = [links EXCEPT ![c].state = "consumed"]

\* ... and yields one token, its member's.
Pair(c, t) ==
    /\ links[c].state = "consumed" /\ links[c].minted = 0
    /\ UNCHANGED <<adminSubs, members, invites>>
    /\ links' = [links EXCEPT ![c].minted = 1]
    /\ Fresh(t)
    /\ tokens' = [tokens EXCEPT ![t] = [sub |-> links[c].sub, revoked |-> FALSE]]

\* A sign-in.
Enroll(s, t) ==
    /\ Fresh(t)
    /\ UNCHANGED <<adminSubs, members, invites, links>>
    /\ tokens' = [tokens EXCEPT ![t] = [sub |-> s, revoked |-> FALSE]]

Revoke(ts) ==
    /\ \A t \in ts : ~Fresh(t)
    /\ UNCHANGED <<adminSubs, members, invites, links>>
    /\ tokens' = [t \in Tokens |-> [tokens[t] EXCEPT !.revoked = @ \/ t \in ts]]

-----------------------------------------------------------------------------
AllowNext ==
    \/ \E ts \in SUBSET Tokens : Revoke(ts)
    \/ \E t \in Tokens : \/ \E s \in Subs : Enroll(s, t)
                         \/ \E c \in Codes : Pair(c, t)
    \/ \E c \in Codes : Open(c) \/ Consume(c) \/ \E s \in Subs : Claim(s, c)
    \/ \E i \in Invites : Close(i) \/ \E s \in Subs : Enter(s, i) \/ Issue(s, i)
    \/ \E s \in Subs : Share(s) \/ Leave(s)

AllowSpec == AllowInit /\ [][AllowNext]_tables

=============================================================================
