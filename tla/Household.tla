------------------------------ MODULE Household ------------------------------
(***************************************************************************)
(* Who is let into the household (crates/auth): the members allowlist, the *)
(* invites that fill it, the link codes that pair a device and the device  *)
(* tokens.  Every request first re-checks its caller against the tables    *)
(* and then acts, one query or transaction at a time; SQLite serialises    *)
(* the writes, so a step below is one statement or one transaction, and    *)
(* anything another request does may fall between two of them.             *)
(*                                                                         *)
(* Expiry of an invite, a code or a token only ever refuses: it is a       *)
(* request that ends early (Drop).  Who holds which cookie is left open.   *)
(***************************************************************************)
EXTENDS Naturals, FiniteSets

CONSTANTS
    Subs,       \* identities a provider may prove
    Owners,     \* identities ADMIN_SUBS may name
    PlexSubs,   \* identities of plex.tv
    Requests,   \* requests in flight
    Invites,    \* invite codes
    Codes,      \* device link codes
    Tokens,     \* jtis
    MaxUses,    \* bound on an invite's max_uses
    None        \* no sub, no code

ASSUME HouseholdAssumption ==
    /\ Owners \subseteq Subs /\ PlexSubs \subseteq Subs
    /\ MaxUses \in Nat \ {0}
    /\ None \notin Subs \cup Codes

VARIABLES
    adminSubs,  \* ADMIN_SUBS, fixed while the gateway runs
    members,    \* members: sub -> its row
    invites,    \* invites: code -> its row
    links,      \* device_link_codes: code -> its row
    tokens,     \* device_tokens and device_token_revocations
    requests    \* the handlers' local state

householdVars == <<adminSubs, members, invites, links, tokens, requests>>

Roles == {"user", "admin"}

\* A row's role, or that it is revoked (its role is overwritten on re-grant).
MemberRow == Roles \cup {"none", "revoked"}

Invite == [issuer : Subs \cup {None}, role : Roles, used : 0..MaxUses,
           max : 1..MaxUses, revoked : BOOLEAN]

\* minted counts the tokens of one code.
Link == [state : {"free", "open", "claimed", "consumed"}, sub : Subs \cup {None},
         minted : Nat]

Token == [sub : Subs \cup {None}, revoked : BOOLEAN]

\* sub: the caller, or whose tokens a purge revokes.  admin: the role the
\* request was authenticated with.  code: the link code being served.
Request == [pc : {"idle", "redeem", "probe", "status", "cookie", "role", "authed",
                  "claim", "consume", "mint", "purge"},
            sub : Subs \cup {None}, admin : BOOLEAN, code : Codes \cup {None}]

Idle == [pc |-> "idle", sub |-> None, admin |-> FALSE, code |-> None]

NoInvite == [issuer |-> None, role |-> "user", used |-> 0, max |-> 1, revoked |-> FALSE]

-----------------------------------------------------------------------------
(* members *)

Active(s) == members[s] \in Roles

\* member_status: ADMIN_SUBS first, then the row.
Allowed(s) == s \in adminSubs \/ Active(s)

\* effective_role.
IsAdmin(s) == s \in adminSubs \/ members[s] = "admin"

Admins == {s \in Subs : IsAdmin(s)}

\* Mutant of InvitesRevokedWith: the member's invites stay good.
InvitesKept(s) == invites' = invites

\* revoke_invites_of.
InvitesRevokedWith(s) ==
    invites' = [i \in Invites |->
                   IF invites[i].issuer = s THEN [invites[i] EXCEPT !.revoked = TRUE]
                   ELSE invites[i]]

MemberRevoked(s) ==
    /\ members' = [members EXCEPT ![s] = "revoked"]
    /\ InvitesRevokedWith(s)

-----------------------------------------------------------------------------
(* Requests *)

Answer(r) == requests' = [requests EXCEPT ![r] = Idle]

Goes(r, pc) == requests' = [requests EXCEPT ![r].pc = pc]

Begins(r, pc, s, c) ==
    requests' = [requests EXCEPT ![r] = [pc |-> pc, sub |-> s, admin |-> FALSE, code |-> c]]

\* The request answers an error, or its client hangs up.
Drop(r) ==
    /\ requests[r].pc # "idle"
    /\ Answer(r)
    /\ UNCHANGED <<adminSubs, members, invites, links, tokens>>

-----------------------------------------------------------------------------
(* Sign-in: authorize_or_redeem, a Plex share, then a cookie or a token *)

\* A proven identity asks to come in.
SignIn(r, s) ==
    /\ requests[r].pc = "idle"
    /\ Begins(r, IF Allowed(s) THEN "mint" ELSE "redeem", s, None)
    /\ UNCHANGED <<adminSubs, members, invites, links, tokens>>

Issued(i) == invites[i].issuer # None

\* An invite not revoked, by hand or with its issuer.
Redeemable(i) ==
    /\ Issued(i) /\ ~invites[i].revoked
    /\ members[invites[i].issuer] # "revoked"

\* Mutant of Spent: the use count is not looked at.
SpentNever(i) == FALSE

Spent(i) == invites[i].used >= invites[i].max

\* redeem, one transaction: creates or re-grants the row and burns a use.
Redeem(r, i) ==
    LET s == requests[r].sub IN
    /\ requests[r].pc = "redeem"
    /\ Redeemable(i)
    /\ \/ /\ Active(s) \* AlreadyMember
          /\ UNCHANGED <<members, invites>>
       \/ /\ ~Active(s) /\ ~Spent(i)
          /\ members' = [members EXCEPT ![s] = invites[i].role]
          /\ invites' = [invites EXCEPT ![i].used = @ + 1]
    /\ Goes(r, "mint")
    /\ UNCHANGED <<adminSubs, links, tokens>>

\* A Plex identity never seen before is probed for a share instead.
Probe(r) ==
    /\ requests[r].pc = "redeem"
    /\ requests[r].sub \in PlexSubs
    /\ ~Allowed(requests[r].sub) /\ members[requests[r].sub] = "none"
    /\ Goes(r, "probe")
    /\ UNCHANGED <<adminSubs, members, invites, links, tokens>>

\* Mutant of ShareRow: the probe's verdict overwrites the row.
ShareRowReplaces(s) == members' = [members EXCEPT ![s] = "user"]

\* INSERT ... ON CONFLICT(sub) DO NOTHING.
ShareRow(s) ==
    members' = [members EXCEPT ![s] = IF @ = "none" THEN "user" ELSE @]

\* /plex/check answers with a cookie, never a token.
ShareAdmits(r) ==
    /\ requests[r].pc = "probe"
    /\ ShareRow(requests[r].sub)
    /\ Answer(r)
    /\ UNCHANGED <<adminSubs, invites, links, tokens>>

Fresh == {t \in Tokens : tokens[t].sub = None}

\* mint: a token for a sign-in, or for the link code it was consumed from.
Mint(r) ==
    /\ requests[r].pc = "mint"
    /\ \E t \in Fresh :
          tokens' = [tokens EXCEPT ![t] = [sub |-> requests[r].sub, revoked |-> FALSE]]
    /\ links' = [c \in Codes |->
                    IF c = requests[r].code THEN [links[c] EXCEPT !.minted = @ + 1]
                    ELSE links[c]]
    /\ Answer(r)
    /\ UNCHANGED <<adminSubs, members, invites>>

-----------------------------------------------------------------------------
(* Authentication: verify, member_status, effective_role *)

\* device_tokens::verify.
Bearer(r, t) ==
    /\ requests[r].pc = "idle"
    /\ tokens[t].sub # None /\ ~tokens[t].revoked
    /\ Begins(r, "status", tokens[t].sub, None)
    /\ UNCHANGED <<adminSubs, members, invites, links, tokens>>

\* session::verify: cookies are not kept, so any sub may present one.
Cookie(r, s) ==
    /\ requests[r].pc = "idle"
    /\ Begins(r, "cookie", s, None)
    /\ UNCHANGED <<adminSubs, members, invites, links, tokens>>

\* reconcile_bearer, reconcile_cookie: in, or denied and the tokens purged.
Reconcile(r) ==
    /\ requests[r].pc \in {"status", "cookie"}
    /\ Goes(r, IF Allowed(requests[r].sub) THEN "role" ELSE "purge")
    /\ UNCHANGED <<adminSubs, members, invites, links, tokens>>

\* reconcile_cookie: plex.tv no longer knows the cookie's own token.
PlexRefuses(r) ==
    /\ requests[r].pc = "cookie"
    /\ requests[r].sub \in PlexSubs /\ Allowed(requests[r].sub)
    /\ Goes(r, "purge")
    /\ UNCHANGED <<adminSubs, members, invites, links, tokens>>

ReadRole(r) ==
    /\ requests[r].pc = "role"
    /\ requests' = [requests EXCEPT ![r].pc = "authed",
                                    ![r].admin = IsAdmin(requests[r].sub)]
    /\ UNCHANGED <<adminSubs, members, invites, links, tokens>>

\* cascade_revoke_for_sub; a failure is swallowed (Drop).
Purge(r) ==
    /\ requests[r].pc = "purge"
    /\ tokens' = [t \in Tokens |->
                     IF tokens[t].sub = requests[r].sub
                     THEN [tokens[t] EXCEPT !.revoked = TRUE] ELSE tokens[t]]
    /\ Answer(r)
    /\ UNCHANGED <<adminSubs, members, invites, links>>

Authed(r) == requests[r].pc = "authed"

AuthedAdmin(r) == Authed(r) /\ requests[r].admin

-----------------------------------------------------------------------------
(* Members and invites: admin.rs, account.rs *)

\* issue: a plain INSERT, whatever became of the issuer meanwhile.
IssueInvite(r, i) ==
    /\ AuthedAdmin(r)
    /\ ~Issued(i)
    /\ \E role \in Roles, max \in 1..MaxUses :
          invites' = [invites EXCEPT ![i] = [issuer |-> requests[r].sub, role |-> role,
                                             used |-> 0, max |-> max, revoked |-> FALSE]]
    /\ Answer(r)
    /\ UNCHANGED <<adminSubs, members, links, tokens>>

RevokeInvite(r, i) ==
    /\ AuthedAdmin(r)
    /\ Issued(i) /\ ~invites[i].revoked
    /\ invites' = [invites EXCEPT ![i].revoked = TRUE]
    /\ Answer(r)
    /\ UNCHANGED <<adminSubs, members, links, tokens>>

\* Mutant of StillAdmin: the role the request came in with is believed.
StillAdminBelieved(r) == requests[r].admin

\* revoke_safely re-reads the actor under the write lock.
StillAdmin(r) == IsAdmin(requests[r].sub)

\* revoke_safely, then the cascade.
RevokeMember(r, s) ==
    /\ AuthedAdmin(r)
    /\ s \notin adminSubs /\ s # requests[r].sub
    /\ Active(s)
    /\ StillAdmin(r)
    /\ MemberRevoked(s)
    /\ Begins(r, "purge", s, None)
    /\ UNCHANGED <<adminSubs, links, tokens>>

\* Mutant of AnotherAdmin: any other member will do.
AnotherMember(s) == \E o \in Subs \ {s} : Allowed(o)

\* revoke_self: another admin's row, or an owner's, remains.
AnotherAdmin(s) == \E o \in Subs \ {s} : IsAdmin(o)

\* DELETE /api/account/self: revoke_self, then the erasure.
DeleteSelf(r) ==
    LET s == requests[r].sub IN
    /\ Authed(r)
    /\ s \notin adminSubs
    /\ \/ /\ Active(s)
          /\ members[s] = "admin" => AnotherAdmin(s)
          /\ MemberRevoked(s)
       \/ /\ ~Active(s) \* AlreadyRevoked
          /\ UNCHANGED <<members, invites>>
    /\ Goes(r, "purge")
    /\ UNCHANGED <<adminSubs, links, tokens>>

DevicesOf(s) == {t \in Tokens : tokens[t].sub = s}

\* devices.rs: one or all of the caller's devices, or any one for an admin.
RevokeDevices(r, ts) ==
    /\ Authed(r)
    /\ \/ ts = DevicesOf(requests[r].sub)
       \/ /\ Cardinality(ts) = 1
          /\ \/ ts \subseteq DevicesOf(requests[r].sub)
             \/ AuthedAdmin(r) /\ ts \cap Fresh = {}
    /\ tokens' = [t \in Tokens |->
                     IF t \in ts THEN [tokens[t] EXCEPT !.revoked = TRUE] ELSE tokens[t]]
    /\ Answer(r)
    /\ UNCHANGED <<adminSubs, members, invites, links>>

-----------------------------------------------------------------------------
(* Device links: device_link.rs *)

StartLink(c) ==
    /\ links[c].state = "free"
    /\ links' = [links EXCEPT ![c].state = "open"]
    /\ UNCHANGED <<adminSubs, members, invites, tokens, requests>>

\* claim reads the row ...
ReadClaim(r, c) ==
    /\ Authed(r)
    /\ links[c].state = "open"
    /\ requests' = [requests EXCEPT ![r].pc = "claim", ![r].code = c]
    /\ UNCHANGED <<adminSubs, members, invites, links, tokens>>

\* Mutant of Bindable: the row read earlier is believed.
BindableAsRead(r) == TRUE

Bindable(r) == links[requests[r].code].state = "open"

\* ... and binds it, WHERE claimed_sub IS NULL.
BindClaim(r) ==
    /\ requests[r].pc = "claim"
    /\ Bindable(r)
    /\ links' = [links EXCEPT ![requests[r].code].state = "claimed",
                              ![requests[r].code].sub = requests[r].sub]
    /\ Answer(r)
    /\ UNCHANGED <<adminSubs, members, invites, tokens>>

\* poll reads a claimed row ...
PollLink(r, c) ==
    /\ requests[r].pc = "idle"
    /\ links[c].state = "claimed"
    /\ Begins(r, "consume", links[c].sub, c)
    /\ UNCHANGED <<adminSubs, members, invites, links, tokens>>

\* Mutant of Consumable: the row read earlier is believed.
ConsumableAsRead(r) == TRUE

Consumable(r) == links[requests[r].code].state = "claimed"

\* ... and consumes it, WHERE consumed_at IS NULL, before minting.
ConsumeLink(r) ==
    /\ requests[r].pc = "consume"
    /\ Consumable(r)
    /\ links' = [links EXCEPT ![requests[r].code].state = "consumed"]
    /\ Goes(r, "mint")
    /\ UNCHANGED <<adminSubs, members, invites, tokens>>

-----------------------------------------------------------------------------
\* server.db as an earlier run, perhaps with another ADMIN_SUBS, left it.
HouseholdInit ==
    /\ adminSubs \in SUBSET Owners
    /\ members \in [Subs -> MemberRow]
    /\ invites = [i \in Invites |-> NoInvite]
    /\ links = [c \in Codes |-> [state |-> "free", sub |-> None, minted |-> 0]]
    /\ tokens = [t \in Tokens |-> [sub |-> None, revoked |-> FALSE]]
    /\ requests = [r \in Requests |-> Idle]

RequestNext(r) ==
    \/ Drop(r)
    \/ \E s \in Subs : SignIn(r, s) \/ Cookie(r, s) \/ RevokeMember(r, s)
    \/ \E i \in Invites : Redeem(r, i) \/ IssueInvite(r, i) \/ RevokeInvite(r, i)
    \/ Probe(r) \/ ShareAdmits(r) \/ Mint(r)
    \/ \E t \in Tokens : Bearer(r, t)
    \/ Reconcile(r) \/ PlexRefuses(r) \/ ReadRole(r) \/ Purge(r) \/ DeleteSelf(r)
    \/ \E ts \in SUBSET Tokens : RevokeDevices(r, ts)
    \/ \E c \in Codes : ReadClaim(r, c) \/ PollLink(r, c)
    \/ BindClaim(r) \/ ConsumeLink(r)

HouseholdNext == (\E r \in Requests : RequestNext(r)) \/ (\E c \in Codes : StartLink(c))

HouseholdSpec == HouseholdInit /\ [][HouseholdNext]_householdVars

-----------------------------------------------------------------------------
(* Properties *)

\* Requests and claimed codes speak for somebody.
TypeOK ==
    /\ adminSubs \subseteq Owners
    /\ members \in [Subs -> MemberRow]
    /\ invites \in [Invites -> Invite]
    /\ links \in [Codes -> Link]
    /\ tokens \in [Tokens -> Token]
    /\ requests \in [Requests -> Request]
    /\ \A r \in Requests : requests[r].pc # "idle" => requests[r].sub \in Subs
    /\ \A c \in Codes : links[c].state = "claimed" => links[c].sub \in Subs

\* redeem: concurrent sign-ins cannot over-spend a code.
InviteWithinUses == \A i \in Invites : invites[i].used <= invites[i].max

Allow == INSTANCE Allowlist

\* The requests implement the tables they write: whatever is read, awaited and
\* used in between, each write is one the tables of that very step allow.
ImplementsAllowlist == Allow!AllowSpec

\* poll: racing polls of one code, with hang-ups between the consume and the
\* mint, mint at most one token.
OneTokenPerCode == \A c \in Codes : links[c].minted <= 1

\* claim: of racing claims one binds, and a token is only ever minted for the
\* member the code is bound to.
TokenOfClaimer ==
    \A r \in Requests : requests[r].pc = "mint" /\ requests[r].code # None
                         => requests[r].sub = links[requests[r].code].sub

\* revoke_safely, revoke_self: two administrators revoking each other, or one
\* leaving while the other is revoked, never leave the household without one.
AdminRemains == [][Admins # {} => Admins' # {}]_householdVars

\* revoke_safely: a member is revoked by themselves or by an administrator
\* who still is one, not by one demoted since the request came in.
RevokedByAdmin ==
    [][\A s \in Subs : Active(s) /\ ~Active(s)'
          => \E r \in Requests :
                /\ Authed(r) /\ requests'[r] # requests[r]
                /\ requests[r].sub = s \/ IsAdmin(requests[r].sub)]_householdVars

\* redeem, check: an explicit revoke wins; only an invite's use undoes it, a
\* Plex share probed before the revoke does not.
RevokeWins ==
    [][\A s \in Subs : members[s] = "revoked" /\ Active(s)'
          => \E i \in Invites : /\ invites'[i].used > invites[i].used
                                /\ Redeemable(i)]_householdVars

=============================================================================
