--------------------------- MODULE HouseholdProofs ---------------------------
(***************************************************************************)
(* The household keeps an administrator, an invite is not over-spent and a *)
(* link code yields at most one token, whatever the members, the requests  *)
(* in flight and the codes.                                                *)
(***************************************************************************)
EXTENDS Household, TLAPS

-----------------------------------------------------------------------------
(* Type correctness *)

RequestsOK ==
    /\ requests \in [Requests -> Request]
    /\ \A r \in Requests : requests[r].pc # "idle" => requests[r].sub \in Subs

\* A request that answered is idle again.
LEMMA AnswerTyped ==
    ASSUME RequestsOK, NEW r \in Requests, Answer(r)
    PROVE  RequestsOK'
BY DEF RequestsOK, Answer, Idle, Request

\* A request that goes on keeps its caller.
LEMMA GoesTyped ==
    ASSUME RequestsOK, NEW r \in Requests, requests[r].pc # "idle",
           NEW pc \in {"mint", "probe", "role", "purge"}, Goes(r, pc)
    PROVE  RequestsOK'
<1>1. requests' \in [Requests -> Request]
  BY DEF RequestsOK, Goes, Request
<1>2. ASSUME NEW q \in Requests, requests'[q].pc # "idle"
      PROVE  requests'[q].sub \in Subs
  BY <1>2 DEF RequestsOK, Goes, Request
<1> QED
  BY <1>1, <1>2 DEF RequestsOK

\* A request begins for somebody.
LEMMA BeginsTyped ==
    ASSUME RequestsOK, NEW r \in Requests, NEW s \in Subs, NEW c \in Codes \cup {None},
           NEW pc \in {"mint", "redeem", "status", "cookie", "purge", "consume"}, Begins(r, pc, s, c)
    PROVE  RequestsOK'
BY DEF RequestsOK, Begins, Request

\* A revocation leaves members and invites well formed.
LEMMA RevocationTyped ==
    ASSUME TypeOK, NEW s \in Subs, MemberRevoked(s)
    PROVE  members' \in [Subs -> MemberRow] /\ invites' \in [Invites -> Invite]
BY DEF TypeOK, MemberRevoked, InvitesRevokedWith, MemberRow, Roles, Invite

LinksOK ==
    /\ links \in [Codes -> Link]
    /\ \A c \in Codes : links[c].state = "claimed" => links[c].sub \in Subs

\* A row written back to the links is well formed if the row is.
LEMMA LinkPut ==
    ASSUME LinksOK, NEW code \in Codes, NEW row \in Link,
           row.state = "claimed" => row.sub \in Subs,
           links' = [links EXCEPT ![code] = row]
    PROVE  LinksOK'
<1>1. links' \in [Codes -> Link]
  BY DEF LinksOK
<1>2. ASSUME NEW c \in Codes, links'[c].state = "claimed"
      PROVE  links'[c].sub \in Subs
  <2>1. links'[c] = IF c = code THEN row ELSE links[c]
    BY DEF LinksOK
  <2> QED
    BY <1>2, <2>1 DEF LinksOK
<1> QED
  BY <1>1, <1>2 DEF LinksOK

\* Binding a code, known or not, to somebody.
LEMMA ClaimTyped ==
    ASSUME LinksOK, NEW code, NEW s \in Subs,
           links' = [links EXCEPT ![code].state = "claimed", ![code].sub = s]
    PROVE  LinksOK'
<1>1. CASE code \in Codes
  <2> DEFINE row == [links[code] EXCEPT !.state = "claimed", !.sub = s]
  <2>1. links[code] \in Link
    BY <1>1 DEF LinksOK
  <2>2. row \in Link /\ row.sub = s
    BY <2>1 DEF Link
  <2>3. links' = [links EXCEPT ![code] = row]
    BY <1>1 DEF LinksOK
  <2> HIDE DEF row
  <2> QED
    BY <1>1, <2>2, <2>3, LinkPut
<1>2. CASE code \notin Codes
  <2>1. links' = links
    BY <1>2 DEF LinksOK
  <2> QED
    BY <2>1 DEF LinksOK
<1> QED
  BY <1>1, <1>2

\* Consuming a code, known or not.
LEMMA ConsumeTyped ==
    ASSUME LinksOK, NEW code, links' = [links EXCEPT ![code].state = "consumed"]
    PROVE  LinksOK'
<1>1. CASE code \in Codes
  <2> DEFINE row == [links[code] EXCEPT !.state = "consumed"]
  <2>1. links[code] \in Link
    BY <1>1 DEF LinksOK
  <2>2. row \in Link /\ row.state # "claimed"
    BY <2>1 DEF Link
  <2>3. links' = [links EXCEPT ![code] = row]
    BY <1>1 DEF LinksOK
  <2> HIDE DEF row
  <2> QED
    BY <1>1, <2>2, <2>3, LinkPut
<1>2. CASE code \notin Codes
  <2>1. links' = links
    BY <1>2 DEF LinksOK
  <2> QED
    BY <2>1 DEF LinksOK
<1> QED
  BY <1>1, <1>2

\* The rest of TypeOK.
TablesOK ==
    /\ adminSubs \subseteq Owners
    /\ members \in [Subs -> MemberRow]
    /\ invites \in [Invites -> Invite]
    /\ links \in [Codes -> Link]
    /\ tokens \in [Tokens -> Token]
    /\ \A c \in Codes : links[c].state = "claimed" => links[c].sub \in Subs

LEMMA TypeParts == TypeOK <=> RequestsOK /\ TablesOK
BY DEF TypeOK, RequestsOK, TablesOK

LEMMA TypeStep ==
    ASSUME TypeOK, [HouseholdNext]_householdVars
    PROVE  TypeOK'
<1>0. RequestsOK /\ TablesOK
  BY TypeParts
<1>1. ASSUME NEW r \in Requests, Drop(r)
      PROVE  TypeOK'
  <2>2. RequestsOK'
    BY <1>0, <1>1, AnswerTyped DEF Drop
  <2>3. TablesOK'
    BY <1>0, <1>1 DEF Drop, TablesOK
  <2> QED
    BY <2>2, <2>3 DEF TypeOK, RequestsOK, TablesOK
<1>2. ASSUME NEW r \in Requests, NEW s \in Subs, SignIn(r, s)
      PROVE  TypeOK'
  <2>2. RequestsOK'
    BY <1>0, <1>2, BeginsTyped DEF SignIn
  <2>3. TablesOK'
    BY <1>0, <1>2 DEF SignIn, TablesOK
  <2> QED
    BY <2>2, <2>3 DEF TypeOK, RequestsOK, TablesOK
<1>3. ASSUME NEW r \in Requests, NEW s \in Subs, Cookie(r, s)
      PROVE  TypeOK'
  <2>2. RequestsOK'
    BY <1>0, <1>3, BeginsTyped DEF Cookie
  <2>3. TablesOK'
    BY <1>0, <1>3 DEF Cookie, TablesOK
  <2> QED
    BY <2>2, <2>3 DEF TypeOK, RequestsOK, TablesOK
<1>4. ASSUME NEW r \in Requests, NEW s \in Subs, RevokeMember(r, s)
      PROVE  TypeOK'
  <2>2. RequestsOK'
    BY <1>0, <1>4, BeginsTyped DEF RevokeMember
  <2>3. TablesOK'
    BY <1>0, <1>4, RevocationTyped DEF RevokeMember, TablesOK
  <2> QED
    BY <2>2, <2>3 DEF TypeOK, RequestsOK, TablesOK
<1>5. ASSUME NEW r \in Requests, NEW i \in Invites, Redeem(r, i)
      PROVE  TypeOK'
  <2>2. RequestsOK'
    BY <1>0, <1>5, GoesTyped DEF Redeem
  <2>3. TablesOK'
    <3>1. members' \in [Subs -> MemberRow]
      BY <1>0, <1>5 DEF Redeem, TablesOK, MemberRow, Invite
    <3>2. CASE UNCHANGED invites
      BY <1>0, <1>5, <3>1, <3>2 DEF Redeem, TablesOK
    <3>3. CASE ~Spent(i) /\ invites' = [invites EXCEPT ![i].used = @ + 1]
      <4>1. invites[i] \in Invite
        BY <1>0 DEF TablesOK
      <4>2. invites[i].used + 1 \in 0..MaxUses
        BY <4>1, <3>3, HouseholdAssumption DEF HouseholdAssumption, Spent, Invite
      <4>3. invites' \in [Invites -> Invite]
        BY <1>0, <3>3, <4>2 DEF TablesOK, Invite
      <4> QED
        BY <1>0, <1>5, <3>1, <4>3 DEF Redeem, TablesOK
    <3> QED
      BY <1>5, <3>2, <3>3 DEF Redeem
  <2> QED
    BY <2>2, <2>3 DEF TypeOK, RequestsOK, TablesOK
<1>6. ASSUME NEW r \in Requests, NEW i \in Invites, IssueInvite(r, i)
      PROVE  TypeOK'
  <2>2. RequestsOK'
    BY <1>0, <1>6, AnswerTyped DEF IssueInvite
  <2>3. TablesOK'
    <3>1. requests[r].sub \in Subs
      BY <1>0, <1>6 DEF IssueInvite, AuthedAdmin, Authed, RequestsOK
    <3>2. PICK role \in Roles, max \in 1..MaxUses :
             invites' = [invites EXCEPT ![i] = [issuer |-> requests[r].sub, role |-> role,
                                                used |-> 0, max |-> max, revoked |-> FALSE]]
      BY <1>6 DEF IssueInvite
    <3>3. 0 \in 0..MaxUses
      BY HouseholdAssumption DEF HouseholdAssumption
    <3>4. [issuer |-> requests[r].sub, role |-> role, used |-> 0, max |-> max,
           revoked |-> FALSE] \in Invite
      BY <3>1, <3>3 DEF Invite
    <3>5. invites' \in [Invites -> Invite]
      BY <1>0, <3>2, <3>4 DEF TablesOK
    <3> QED
      BY <1>0, <1>6, <3>5 DEF IssueInvite, TablesOK
  <2> QED
    BY <2>2, <2>3 DEF TypeOK, RequestsOK, TablesOK
<1>7. ASSUME NEW r \in Requests, NEW i \in Invites, RevokeInvite(r, i)
      PROVE  TypeOK'
  <2>2. RequestsOK'
    BY <1>0, <1>7, AnswerTyped DEF RevokeInvite
  <2>3. TablesOK'
    BY <1>0, <1>7 DEF RevokeInvite, TablesOK, Invite
  <2> QED
    BY <2>2, <2>3 DEF TypeOK, RequestsOK, TablesOK
<1>8. ASSUME NEW r \in Requests, Probe(r)
      PROVE  TypeOK'
  <2>2. RequestsOK'
    BY <1>0, <1>8, GoesTyped DEF Probe
  <2>3. TablesOK'
    BY <1>0, <1>8 DEF Probe, TablesOK
  <2> QED
    BY <2>2, <2>3 DEF TypeOK, RequestsOK, TablesOK
<1>9. ASSUME NEW r \in Requests, ShareAdmits(r)
      PROVE  TypeOK'
  <2>2. RequestsOK'
    BY <1>0, <1>9, AnswerTyped DEF ShareAdmits
  <2>3. TablesOK'
    BY <1>0, <1>9 DEF ShareAdmits, ShareRow, TablesOK, MemberRow, Roles
  <2> QED
    BY <2>2, <2>3 DEF TypeOK, RequestsOK, TablesOK
<1>10. ASSUME NEW r \in Requests, Mint(r)
      PROVE  TypeOK'
  <2>2. RequestsOK'
    BY <1>0, <1>10, AnswerTyped DEF Mint
  <2>3. TablesOK'
    <3>1. requests[r].sub \in Subs
      BY <1>0, <1>10 DEF Mint, RequestsOK
    <3>2. tokens' \in [Tokens -> Token]
      <4>1. PICK t \in Tokens :
               tokens' = [tokens EXCEPT ![t] = [sub |-> requests[r].sub, revoked |-> FALSE]]
        BY <1>10 DEF Mint, Fresh
      <4> QED
        BY <1>0, <3>1, <4>1 DEF TablesOK, Token
    <3>3. links' \in [Codes -> Link]
      BY <1>0, <1>10 DEF Mint, TablesOK, Link
    <3>4. \A c \in Codes : links'[c].state = links[c].state /\ links'[c].sub = links[c].sub
      BY <1>0, <1>10 DEF Mint, TablesOK, Link
    <3> QED
      BY <1>0, <1>10, <3>2, <3>3, <3>4 DEF Mint, TablesOK
  <2> QED
    BY <2>2, <2>3 DEF TypeOK, RequestsOK, TablesOK
<1>11. ASSUME NEW r \in Requests, NEW t \in Tokens, Bearer(r, t)
      PROVE  TypeOK'
  <2>2. RequestsOK'
    BY <1>0, <1>11, BeginsTyped DEF Bearer, Token, TablesOK
  <2>3. TablesOK'
    BY <1>0, <1>11 DEF Bearer, TablesOK
  <2> QED
    BY <2>2, <2>3 DEF TypeOK, RequestsOK, TablesOK
<1>12. ASSUME NEW r \in Requests, Reconcile(r)
      PROVE  TypeOK'
  <2>2. RequestsOK'
    BY <1>0, <1>12, GoesTyped DEF Reconcile
  <2>3. TablesOK'
    BY <1>0, <1>12 DEF Reconcile, TablesOK
  <2> QED
    BY <2>2, <2>3 DEF TypeOK, RequestsOK, TablesOK
<1>13. ASSUME NEW r \in Requests, ReadRole(r)
      PROVE  TypeOK'
  <2>1. requests' \in [Requests -> Request]
    <3> DEFINE admin == IsAdmin(requests[r].sub)
    <3>1. admin \in BOOLEAN
      BY DEF IsAdmin
    <3>2. requests' = [requests EXCEPT ![r].pc = "authed", ![r].admin = admin]
      BY <1>13 DEF ReadRole
    <3> HIDE DEF admin
    <3>3. [requests[r] EXCEPT !.pc = "authed", !.admin = admin] \in Request
      <4>1. requests[r] \in Request
        BY <1>0 DEF RequestsOK
      <4> QED
        BY <3>1, <4>1 DEF Request
    <3>4. requests' = [requests EXCEPT ![r] = [requests[r] EXCEPT !.pc = "authed",
                                                                  !.admin = admin]]
      BY <1>0, <3>2 DEF RequestsOK
    <3> QED
      BY <1>0, <3>3, <3>4 DEF RequestsOK
  <2>2. RequestsOK'
    BY <1>0, <1>13, <2>1 DEF ReadRole, RequestsOK, Request
  <2>3. TablesOK'
    BY <1>0, <1>13 DEF ReadRole, TablesOK
  <2> QED
    BY <2>2, <2>3 DEF TypeOK, RequestsOK, TablesOK
<1>14. ASSUME NEW r \in Requests, Purge(r)
      PROVE  TypeOK'
  <2>2. RequestsOK'
    BY <1>0, <1>14, AnswerTyped DEF Purge
  <2>3. TablesOK'
    BY <1>0, <1>14 DEF Purge, TablesOK, Token
  <2> QED
    BY <2>2, <2>3 DEF TypeOK, RequestsOK, TablesOK
<1>15. ASSUME NEW r \in Requests, DeleteSelf(r)
      PROVE  TypeOK'
  <2>2. RequestsOK'
    BY <1>0, <1>15, GoesTyped DEF DeleteSelf, Authed
  <2>3. TablesOK'
    BY <1>0, <1>15, RevocationTyped DEF DeleteSelf, Authed, TablesOK, RequestsOK
  <2> QED
    BY <2>2, <2>3 DEF TypeOK, RequestsOK, TablesOK
<1>16. ASSUME NEW r \in Requests, NEW ts \in SUBSET Tokens, RevokeDevices(r, ts)
      PROVE  TypeOK'
  <2>2. RequestsOK'
    BY <1>0, <1>16, AnswerTyped DEF RevokeDevices, Authed
  <2>3. TablesOK'
    BY <1>0, <1>16 DEF RevokeDevices, TablesOK, Token
  <2> QED
    BY <2>2, <2>3 DEF TypeOK, RequestsOK, TablesOK
<1>17. ASSUME NEW r \in Requests, NEW c \in Codes, ReadClaim(r, c)
      PROVE  TypeOK'
  <2>2. RequestsOK'
    <3>1. requests' = [requests EXCEPT ![r].pc = "claim", ![r].code = c]
      BY <1>17 DEF ReadClaim
    <3>2. requests[r] \in Request /\ requests[r].sub \in Subs
      BY <1>0, <1>17 DEF ReadClaim, Authed, RequestsOK
    <3>3. /\ [requests[r] EXCEPT !.pc = "claim", !.code = c] \in Request
          /\ [requests[r] EXCEPT !.pc = "claim", !.code = c].sub = requests[r].sub
      BY <3>2 DEF Request
    <3>4. requests' = [requests EXCEPT ![r] = [requests[r] EXCEPT !.pc = "claim", !.code = c]]
      BY <1>0, <3>1 DEF RequestsOK
    <3> QED
      BY <1>0, <3>2, <3>3, <3>4 DEF RequestsOK
  <2>3. TablesOK'
    BY <1>0, <1>17 DEF ReadClaim, TablesOK
  <2> QED
    BY <2>2, <2>3 DEF TypeOK, RequestsOK, TablesOK
<1>18. ASSUME NEW r \in Requests, NEW c \in Codes, PollLink(r, c)
      PROVE  TypeOK'
  <2>2. RequestsOK'
    BY <1>0, <1>18, BeginsTyped DEF PollLink, TablesOK
  <2>3. TablesOK'
    BY <1>0, <1>18 DEF PollLink, TablesOK
  <2> QED
    BY <2>2, <2>3 DEF TypeOK, RequestsOK, TablesOK
<1>19. ASSUME NEW r \in Requests, BindClaim(r)
      PROVE  TypeOK'
  <2>2. RequestsOK'
    BY <1>0, <1>19, AnswerTyped DEF BindClaim
  <2>3. TablesOK'
    <3>1. /\ requests[r].sub \in Subs
          /\ UNCHANGED <<adminSubs, members, invites, tokens>>
      BY <1>0, <1>19 DEF BindClaim, RequestsOK
    <3>2. links' = [links EXCEPT ![requests[r].code].state = "claimed",
                                 ![requests[r].code].sub = requests[r].sub]
      BY <1>19 DEF BindClaim
    <3>3. LinksOK'
      BY <1>0, <3>1, <3>2, ClaimTyped DEF TablesOK, LinksOK
    <3> QED
      BY <1>0, <3>1, <3>3 DEF TablesOK, LinksOK
  <2> QED
    BY <2>2, <2>3 DEF TypeOK, RequestsOK, TablesOK
<1>20. ASSUME NEW r \in Requests, ConsumeLink(r)
      PROVE  TypeOK'
  <2>2. RequestsOK'
    BY <1>0, <1>20, GoesTyped DEF ConsumeLink
  <2>3. TablesOK'
    <3>1. /\ links' = [links EXCEPT ![requests[r].code].state = "consumed"]
          /\ UNCHANGED <<adminSubs, members, invites, tokens>>
      BY <1>20 DEF ConsumeLink
    <3>2. LinksOK'
      BY <1>0, <3>1, ConsumeTyped DEF TablesOK, LinksOK
    <3> QED
      BY <1>0, <3>1, <3>2 DEF TablesOK, LinksOK
  <2> QED
    BY <2>2, <2>3 DEF TypeOK, RequestsOK, TablesOK
<1>21. ASSUME NEW c \in Codes, StartLink(c)
      PROVE  TypeOK'
  <2>2. RequestsOK'
    BY <1>0, <1>21 DEF StartLink, RequestsOK
  <2>3. TablesOK'
    BY <1>0, <1>21 DEF StartLink, TablesOK, Link
  <2> QED
    BY <2>2, <2>3 DEF TypeOK, RequestsOK, TablesOK
<1>22. ASSUME NEW r \in Requests, PlexRefuses(r)
      PROVE  TypeOK'
  <2>2. RequestsOK'
    BY <1>0, <1>22, GoesTyped DEF PlexRefuses
  <2>3. TablesOK'
    BY <1>0, <1>22 DEF PlexRefuses, TablesOK
  <2> QED
    BY <2>2, <2>3 DEF TypeOK, RequestsOK, TablesOK
<1>23. CASE UNCHANGED householdVars
  BY <1>23 DEF householdVars, TypeOK, MemberRow, Roles, Invite, Link, Token, Request
<1> QED
  BY <1>1, <1>2, <1>3, <1>4, <1>5, <1>6, <1>7, <1>8, <1>9, <1>10, <1>11, <1>12, <1>13, <1>14, <1>15, <1>16, <1>17, <1>18, <1>19, <1>20, <1>21, <1>22, <1>23 DEF HouseholdNext, RequestNext

LEMMA TypeInit == HouseholdInit => TypeOK
BY HouseholdAssumption DEF HouseholdInit, HouseholdAssumption, TypeOK, MemberRow, Roles, Invite,
   NoInvite, Link, Token, Request, Idle

\* Every row and every request stays well formed.
THEOREM HouseholdTypeOK == HouseholdSpec => []TypeOK
BY TypeInit, TypeStep, PTL DEF HouseholdSpec

-----------------------------------------------------------------------------
(* Invites *)

\* The actions that write invites.
LEMMA InviteActions ==
    ASSUME [HouseholdNext]_householdVars
    PROVE  \/ UNCHANGED invites
           \/ \E r \in Requests, i \in Invites : Redeem(r, i)
           \/ \E r \in Requests, i \in Invites : IssueInvite(r, i)
           \/ \E r \in Requests, i \in Invites : RevokeInvite(r, i)
           \/ \E r \in Requests, s \in Subs : RevokeMember(r, s)
           \/ \E r \in Requests : DeleteSelf(r)
<1>1. ASSUME NEW r \in Requests, RequestNext(r),
             ~\E s \in Subs : RevokeMember(r, s), ~DeleteSelf(r),
             ~\E i \in Invites : Redeem(r, i) \/ IssueInvite(r, i) \/ RevokeInvite(r, i)
      PROVE  UNCHANGED invites
  BY <1>1 DEF RequestNext, Drop, SignIn, Cookie, Probe, ShareAdmits, Mint, Bearer, Reconcile,
     PlexRefuses, ReadRole, Purge, RevokeDevices, ReadClaim, PollLink, BindClaim, ConsumeLink
<1>2. ASSUME NEW c \in Codes, StartLink(c)
      PROVE  UNCHANGED invites
  BY <1>2 DEF StartLink
<1>3. UNCHANGED householdVars => UNCHANGED invites
  BY DEF householdVars
<1> QED
  BY <1>1, <1>2, <1>3 DEF HouseholdNext

\* What a step may do to an invite: spend a use that is left, or issue anew.
LEMMA InviteMoves ==
    ASSUME TypeOK, [HouseholdNext]_householdVars, NEW i \in Invites
    PROVE  \/ invites'[i].used = invites[i].used /\ invites'[i].max = invites[i].max
           \/ /\ ~Spent(i)
              /\ invites'[i].used = invites[i].used + 1
              /\ invites'[i].max = invites[i].max
           \/ invites'[i].used = 0
<1> USE DEF TypeOK, Invite
<1>1. ASSUME NEW r \in Requests, NEW j \in Invites, Redeem(r, j)
      PROVE  \/ invites'[i] = invites[i]
             \/ /\ ~Spent(i)
                /\ invites'[i] = [invites[i] EXCEPT !.used = invites[i].used + 1]
  BY <1>1 DEF Redeem
<1>2. ASSUME NEW r \in Requests, NEW j \in Invites, IssueInvite(r, j)
      PROVE  invites'[i] = invites[i] \/ invites'[i].used = 0
  BY <1>2 DEF IssueInvite
<1>3. ASSUME NEW r \in Requests, NEW j \in Invites, RevokeInvite(r, j)
      PROVE  invites'[i].used = invites[i].used /\ invites'[i].max = invites[i].max
  BY <1>3 DEF RevokeInvite
<1>4. ASSUME NEW s \in Subs, InvitesRevokedWith(s)
      PROVE  invites'[i].used = invites[i].used /\ invites'[i].max = invites[i].max
  BY <1>4 DEF InvitesRevokedWith
<1>5. ASSUME NEW r \in Requests, NEW s \in Subs, RevokeMember(r, s)
      PROVE  invites'[i].used = invites[i].used /\ invites'[i].max = invites[i].max
  BY <1>4, <1>5 DEF RevokeMember, MemberRevoked
<1>6. ASSUME NEW r \in Requests, DeleteSelf(r)
      PROVE  invites'[i].used = invites[i].used /\ invites'[i].max = invites[i].max
  <2>1. requests[r].sub \in Subs
    BY <1>6 DEF DeleteSelf, Authed
  <2> QED
    BY <1>4, <1>6, <2>1 DEF DeleteSelf, MemberRevoked
<1> QED
  BY <1>1, <1>2, <1>3, <1>5, <1>6, InviteActions

LEMMA InviteStep ==
    ASSUME TypeOK, TypeOK', InviteWithinUses, [HouseholdNext]_householdVars
    PROVE  InviteWithinUses'
<1>1. ASSUME NEW i \in Invites
      PROVE  invites'[i].used <= invites'[i].max
  <2>1. invites[i] \in Invite /\ invites'[i] \in Invite
    BY DEF TypeOK
  <2> QED
    BY <2>1, InviteMoves DEF InviteWithinUses, Invite, Spent
<1> QED
  BY <1>1 DEF InviteWithinUses

\* redeem: racing sign-ins never spend a use an invite does not have.
THEOREM HouseholdInviteWithinUses == HouseholdSpec => []InviteWithinUses
<1>1. HouseholdInit => InviteWithinUses
  BY DEF HouseholdInit, InviteWithinUses, NoInvite
<1> QED
  BY <1>1, HouseholdTypeOK, InviteStep, PTL DEF HouseholdSpec

-----------------------------------------------------------------------------
(* Members *)

\* What a step may do to the members.
LEMMA MemberMoves ==
    ASSUME [HouseholdNext]_householdVars
    PROVE  /\ adminSubs' = adminSubs
           /\ \/ UNCHANGED members
              \/ \E r \in Requests, s \in Subs : RevokeMember(r, s)
              \/ \E r \in Requests : DeleteSelf(r)
              \/ \E r \in Requests, i \in Invites : Redeem(r, i)
              \/ \E r \in Requests : ShareAdmits(r)
<1>1. ASSUME NEW r \in Requests, RequestNext(r)
      PROVE  adminSubs' = adminSubs
  <2>1. CASE \/ \E s \in Subs : SignIn(r, s) \/ Cookie(r, s) \/ RevokeMember(r, s)
             \/ \E i \in Invites : Redeem(r, i) \/ IssueInvite(r, i) \/ RevokeInvite(r, i)
    BY <2>1 DEF SignIn, Cookie, RevokeMember, Redeem, IssueInvite, RevokeInvite
  <2>2. CASE \/ Drop(r) \/ Probe(r) \/ ShareAdmits(r) \/ Mint(r)
             \/ \E t \in Tokens : Bearer(r, t)
             \/ Reconcile(r) \/ PlexRefuses(r) \/ ReadRole(r) \/ Purge(r) \/ DeleteSelf(r)
    BY <2>2 DEF Drop, Probe, ShareAdmits, Mint, Bearer, Reconcile, PlexRefuses, ReadRole, Purge,
       DeleteSelf
  <2>3. CASE \/ \E ts \in SUBSET Tokens : RevokeDevices(r, ts)
             \/ \E c \in Codes : ReadClaim(r, c) \/ PollLink(r, c)
             \/ BindClaim(r) \/ ConsumeLink(r)
    BY <2>3 DEF RevokeDevices, ReadClaim, PollLink, BindClaim, ConsumeLink
  <2> QED
    BY <1>1, <2>1, <2>2, <2>3 DEF RequestNext
<1>2. ASSUME NEW r \in Requests, RequestNext(r),
             ~\E s \in Subs : RevokeMember(r, s), ~DeleteSelf(r),
             ~\E i \in Invites : Redeem(r, i), ~ShareAdmits(r)
      PROVE  UNCHANGED members
  BY <1>2 DEF RequestNext, Drop, SignIn, Cookie, IssueInvite, RevokeInvite, Probe, Mint, Bearer,
     Reconcile, PlexRefuses, ReadRole, Purge, RevokeDevices, ReadClaim, PollLink, BindClaim,
     ConsumeLink
<1>3. ASSUME NEW c \in Codes, StartLink(c)
      PROVE  UNCHANGED <<adminSubs, members>>
  BY <1>3 DEF StartLink
<1>4. UNCHANGED householdVars => UNCHANGED <<adminSubs, members>>
  BY DEF householdVars
<1> QED
  BY <1>1, <1>2, <1>3, <1>4 DEF HouseholdNext

\* Whoever is an administrator and not revoked by this step still is one.
LEMMA AdminStays ==
    ASSUME TypeOK, adminSubs' = adminSubs, NEW x \in Admins,
           x \in adminSubs \/ members'[x] = members[x]
    PROVE  Admins' # {}
<1>1. x \in Subs /\ (x \in adminSubs \/ members[x] = "admin")
  BY DEF Admins, IsAdmin
<1>2. x \in adminSubs' \/ members'[x] = "admin"
  BY <1>1
<1>3. x \in Admins'
  BY <1>1, <1>2 DEF Admins, IsAdmin
<1> QED
  BY <1>3

LEMMA AdminStep ==
    ASSUME TypeOK, [HouseholdNext]_householdVars, Admins # {}
    PROVE  Admins' # {}
<1> USE DEF TypeOK
<1>1. adminSubs' = adminSubs
  BY MemberMoves
<1>2. PICK x \in Admins : TRUE
  OBVIOUS
<1>3. CASE UNCHANGED members
  BY <1>1, <1>2, <1>3, AdminStays
\* The actor is not the target, and was re-read as an administrator.
<1>4. ASSUME NEW r \in Requests, NEW s \in Subs, RevokeMember(r, s)
      PROVE  Admins' # {}
  <2>1. requests[r].sub \in Admins /\ requests[r].sub # s
    BY <1>4 DEF RevokeMember, AuthedAdmin, Authed, StillAdmin, Admins
  <2>2. members'[requests[r].sub] = members[requests[r].sub]
    BY <1>4, <2>1 DEF RevokeMember, MemberRevoked, Admins
  <2> QED
    BY <1>1, <2>1, <2>2, AdminStays
\* An administrator leaves another behind; anyone else was not the last one.
<1>5. ASSUME NEW r \in Requests, DeleteSelf(r)
      PROVE  Admins' # {}
  <2> DEFINE s == requests[r].sub
  <2>1. s \in Subs /\ s \notin adminSubs
    BY <1>5 DEF DeleteSelf, Authed
  <2>2. \E o \in Admins : o # s \/ UNCHANGED members
    <3>1. CASE members[s] = "admin" /\ AnotherAdmin(s)
      BY <3>1 DEF AnotherAdmin, Admins
    <3>2. CASE members[s] # "admin"
      BY <1>2, <2>1, <3>2 DEF Admins, IsAdmin
    <3>3. CASE UNCHANGED members
      BY <1>2, <3>3
    <3> QED
      BY <1>5, <3>1, <3>2, <3>3 DEF DeleteSelf
  <2>3. PICK o \in Admins : o # s \/ UNCHANGED members
    BY <2>2
  <2>4. members'[o] = members[o]
    BY <1>5, <2>1, <2>3 DEF DeleteSelf, MemberRevoked, Admins
  <2> QED
    BY <1>1, <2>4, AdminStays
<1>6. ASSUME NEW r \in Requests, NEW i \in Invites, Redeem(r, i)
      PROVE  Admins' # {}
  <2>1. x \in adminSubs \/ members'[x] = members[x]
    BY <1>2, <1>6 DEF Redeem, Admins, IsAdmin, Active, Roles
  <2> QED
    BY <1>1, <1>2, <2>1, AdminStays
<1>7. ASSUME NEW r \in Requests, ShareAdmits(r)
      PROVE  Admins' # {}
  <2>1. x \in adminSubs \/ members'[x] = members[x]
    BY <1>2, <1>7 DEF ShareAdmits, ShareRow, Admins, IsAdmin
  <2> QED
    BY <1>1, <1>2, <2>1, AdminStays
<1> QED
  BY <1>3, <1>4, <1>5, <1>6, <1>7, MemberMoves

\* revoke_safely and revoke_self: a household with an administrator keeps one.
THEOREM HouseholdAdminRemains == HouseholdSpec => AdminRemains
<1>1. TypeOK /\ [HouseholdNext]_householdVars => [Admins # {} => Admins' # {}]_householdVars
  BY AdminStep
<1> QED
  BY <1>1, HouseholdTypeOK, PTL DEF HouseholdSpec, AdminRemains

RevokedBy(s) ==
    \E r \in Requests : /\ Authed(r) /\ requests'[r] # requests[r]
                        /\ requests[r].sub = s \/ IsAdmin(requests[r].sub)

LEMMA RevokedStep ==
    ASSUME TypeOK, [HouseholdNext]_householdVars, NEW s \in Subs, Active(s), ~Active(s)'
    PROVE  RevokedBy(s)
<1> USE DEF TypeOK, Active
<1>1. ASSUME NEW r \in Requests, NEW u \in Subs, RevokeMember(r, u)
      PROVE  RevokedBy(s)
  BY <1>1 DEF RevokeMember, AuthedAdmin, Authed, StillAdmin, Begins, RevokedBy
<1>2. ASSUME NEW r \in Requests, DeleteSelf(r)
      PROVE  RevokedBy(s)
  BY <1>2 DEF DeleteSelf, Authed, MemberRevoked, Goes, Request, RevokedBy
<1>3. ASSUME NEW r \in Requests, NEW i \in Invites, Redeem(r, i)
      PROVE  FALSE
  BY <1>3 DEF Redeem, Invite, Roles
<1>4. ASSUME NEW r \in Requests, ShareAdmits(r)
      PROVE  FALSE
  BY <1>4 DEF ShareAdmits, ShareRow, Roles
<1> QED
  BY <1>1, <1>2, <1>3, <1>4, MemberMoves

\* revoke_safely: nobody is revoked on the strength of a role already lost.
THEOREM HouseholdRevokedByAdmin == HouseholdSpec => RevokedByAdmin
<1>1. TypeOK /\ [HouseholdNext]_householdVars
          => [\A s \in Subs : Active(s) /\ ~Active(s)' => RevokedBy(s)]_householdVars
  BY RevokedStep
<1>2. TypeOK /\ [HouseholdNext]_householdVars
          => [\A s \in Subs : Active(s) /\ ~Active(s)'
                 => \E r \in Requests :
                       /\ Authed(r) /\ requests'[r] # requests[r]
                       /\ requests[r].sub = s \/ IsAdmin(requests[r].sub)]_householdVars
  BY <1>1 DEF RevokedBy
<1> QED
  BY <1>2, HouseholdTypeOK, PTL DEF HouseholdSpec, RevokedByAdmin

LEMMA RegrantStep ==
    ASSUME TypeOK, [HouseholdNext]_householdVars, NEW s \in Subs, members[s] = "revoked", Active(s)'
    PROVE  \E i \in Invites : invites'[i].used > invites[i].used /\ Redeemable(i)
<1> USE DEF TypeOK, Active
<1>1. ASSUME NEW r \in Requests, NEW u \in Subs, RevokeMember(r, u)
      PROVE  FALSE
  BY <1>1 DEF RevokeMember, MemberRevoked, Roles
<1>2. ASSUME NEW r \in Requests, DeleteSelf(r)
      PROVE  FALSE
  BY <1>2 DEF DeleteSelf, MemberRevoked, Roles
<1>3. ASSUME NEW r \in Requests, NEW i \in Invites, Redeem(r, i)
      PROVE  invites'[i].used > invites[i].used /\ Redeemable(i)
  <2>1. invites[i] \in Invite
    OBVIOUS
  <2>2. invites'[i] = [invites[i] EXCEPT !.used = invites[i].used + 1]
    BY <1>3 DEF Redeem, Roles
  <2>3. invites'[i].used = invites[i].used + 1 /\ invites[i].used \in Nat
    BY <2>1, <2>2 DEF Invite
  <2> QED
    BY <1>3, <2>3 DEF Redeem
<1>4. ASSUME NEW r \in Requests, ShareAdmits(r)
      PROVE  FALSE
  BY <1>4 DEF ShareAdmits, ShareRow, Roles
<1>5. ~ UNCHANGED members
  BY DEF Roles
<1> QED
  BY <1>1, <1>2, <1>3, <1>4, <1>5, MemberMoves

\* check, redeem: an explicit revoke is only undone by an invite's use.
THEOREM HouseholdRevokeWins == HouseholdSpec => RevokeWins
<1>1. TypeOK /\ [HouseholdNext]_householdVars
          => [\A s \in Subs : members[s] = "revoked" /\ Active(s)'
                 => \E i \in Invites : /\ invites'[i].used > invites[i].used
                                       /\ Redeemable(i)]_householdVars
  BY RegrantStep
<1> QED
  BY <1>1, HouseholdTypeOK, PTL DEF HouseholdSpec, RevokeWins

-----------------------------------------------------------------------------
(* Device links *)

\* A request may mint from a code only while nothing was minted from it.
Minter(r, c) == requests[r].pc = "mint" /\ requests[r].code = c

\* Only the requests that serve a code name one; what they read of it holds.
CodeNamed ==
    \A r \in Requests :
       requests[r].code # None => requests[r].pc \in {"claim", "consume", "mint"}

ReadRow ==
    \A r \in Requests, c \in Codes :
       requests[r].code = c /\ requests[r].pc \in {"consume", "mint"}
          => links[c].state \in {"claimed", "consumed"} /\ requests[r].sub = links[c].sub

OneMinter ==
    /\ \A c \in Codes : links[c].state # "consumed" => links[c].minted = 0
    /\ \A r \in Requests, c \in Codes :
          Minter(r, c) => links[c].state = "consumed" /\ links[c].minted = 0
    /\ \A q, r \in Requests, c \in Codes : Minter(q, c) /\ Minter(r, c) => q = r

LinkInv == CodeNamed /\ ReadRow /\ OneMinter /\ OneTokenPerCode

\* A step that only ends requests, or moves those that serve no code.
LEMMA LinkUntouched ==
    ASSUME LinkInv, UNCHANGED links,
           \A r \in Requests : requests'[r] = requests[r] \/ requests'[r].code = None
    PROVE  LinkInv'
<1> USE HouseholdAssumption DEF HouseholdAssumption, LinkInv
<1>1. CodeNamed'
  BY DEF CodeNamed
<1>2. ReadRow'
  BY DEF ReadRow
<1>3. OneMinter'
  BY DEF OneMinter, Minter
<1>4. OneTokenPerCode'
  BY DEF OneTokenPerCode
<1> QED
  BY <1>1, <1>2, <1>3, <1>4

LEMMA AnswerNone ==
    ASSUME TypeOK, NEW r \in Requests, Answer(r)
    PROVE  \A q \in Requests : requests'[q] = requests[q] \/ requests'[q].code = None
BY DEF TypeOK, Answer, Idle

LEMMA BeginsNone ==
    ASSUME TypeOK, NEW r \in Requests, NEW pc, NEW s, Begins(r, pc, s, None)
    PROVE  \A q \in Requests : requests'[q] = requests[q] \/ requests'[q].code = None
BY DEF TypeOK, Begins

LEMMA GoesNone ==
    ASSUME TypeOK, LinkInv, NEW r \in Requests, NEW pc, Goes(r, pc),
           requests[r].pc \notin {"claim", "consume", "mint"}
    PROVE  \A q \in Requests : requests'[q] = requests[q] \/ requests'[q].code = None
BY DEF TypeOK, LinkInv, CodeNamed, Goes, Request

LEMMA LinkStep ==
    ASSUME TypeOK, LinkInv, [HouseholdNext]_householdVars
    PROVE  LinkInv'
<1>1. CASE UNCHANGED householdVars
  BY <1>1, LinkUntouched DEF householdVars
<1>2. ASSUME NEW r \in Requests, UNCHANGED links,
             \/ Answer(r)
             \/ \E pc, s : Begins(r, pc, s, None)
             \/ \E pc : Goes(r, pc) /\ requests[r].pc \notin {"claim", "consume", "mint"}
      PROVE  LinkInv'
  BY <1>2, LinkUntouched, AnswerNone, BeginsNone, GoesNone
<1>3. ASSUME NEW r \in Requests, ReadRole(r)
      PROVE  LinkInv'
  <2>1. \A q \in Requests : requests'[q] = requests[q] \/ requests'[q].code = None
    BY <1>3 DEF ReadRole, TypeOK, LinkInv, CodeNamed, Request
  <2> QED
    BY <1>3, <2>1, LinkUntouched DEF ReadRole
<1>4. ASSUME NEW c \in Codes, StartLink(c)
      PROVE  LinkInv'
  <2> USE <1>4 DEF LinkInv, StartLink, TypeOK, Link
  <2>1. CodeNamed' /\ ReadRow'
    BY DEF CodeNamed, ReadRow
  <2>2. OneMinter'
    BY DEF OneMinter, Minter
  <2>3. OneTokenPerCode'
    BY DEF OneTokenPerCode
  <2> QED
    BY <2>1, <2>2, <2>3
<1>5. ASSUME NEW r \in Requests, NEW c \in Codes, ReadClaim(r, c)
      PROVE  LinkInv'
  <2> USE HouseholdAssumption DEF HouseholdAssumption, LinkInv
  <2>1. requests'[r].pc = "claim" /\ requests'[r].code = c
    BY <1>5 DEF ReadClaim, TypeOK, Request
  <2>2. \A q \in Requests : q # r => requests'[q] = requests[q]
    BY <1>5 DEF ReadClaim, TypeOK
  <2>3. UNCHANGED links
    BY <1>5 DEF ReadClaim
  <2>4. CodeNamed'
    BY <2>1, <2>2 DEF CodeNamed
  <2>5. ReadRow'
    BY <2>1, <2>2, <2>3 DEF ReadRow
  <2>6. OneMinter' /\ OneTokenPerCode'
    BY <2>1, <2>2, <2>3 DEF OneMinter, Minter, OneTokenPerCode
  <2> QED
    BY <2>4, <2>5, <2>6
\* The code bound was open, so no request has read a claim of it.
<1>6. ASSUME NEW r \in Requests, BindClaim(r)
      PROVE  LinkInv'
  <2> USE <1>6, HouseholdAssumption DEF HouseholdAssumption, LinkInv, BindClaim, Bindable, Answer,
          Idle, TypeOK, Request, Link
  <2>1. CodeNamed'
    BY DEF CodeNamed
  <2>2. ReadRow'
    BY DEF ReadRow
  <2>3. OneMinter'
    BY DEF OneMinter, Minter
  <2>4. OneTokenPerCode'
    BY DEF OneTokenPerCode
  <2> QED
    BY <2>1, <2>2, <2>3, <2>4
<1>7. ASSUME NEW r \in Requests, NEW c \in Codes, PollLink(r, c)
      PROVE  LinkInv'
  <2> USE <1>7, HouseholdAssumption DEF HouseholdAssumption, LinkInv, PollLink, Begins, TypeOK,
          Request
  <2>1. CodeNamed' /\ ReadRow'
    BY DEF CodeNamed, ReadRow
  <2>2. OneMinter' /\ OneTokenPerCode'
    BY DEF OneMinter, Minter, OneTokenPerCode
  <2> QED
    BY <2>1, <2>2
\* The code was not consumed, so nobody mints from it yet.
<1>8. ASSUME NEW r \in Requests, ConsumeLink(r)
      PROVE  LinkInv'
  <2> USE <1>8, HouseholdAssumption DEF HouseholdAssumption, LinkInv, ConsumeLink, Consumable, Goes,
          TypeOK, Request, Link
  <2>1. CodeNamed'
    BY DEF CodeNamed
  <2>2. ReadRow'
    BY DEF ReadRow
  <2>3. OneMinter'
    BY DEF OneMinter, Minter
  <2>4. OneTokenPerCode'
    BY DEF OneTokenPerCode
  <2> QED
    BY <2>1, <2>2, <2>3, <2>4
\* The minter was the only one, and is done.
<1>9. ASSUME NEW r \in Requests, Mint(r)
      PROVE  LinkInv'
  <2> USE <1>9, HouseholdAssumption DEF HouseholdAssumption, LinkInv, Mint, Answer, Idle, TypeOK,
          Request, Link
  <2>1. \A c \in Codes : links'[c].state = links[c].state /\ links'[c].sub = links[c].sub
    OBVIOUS
  <2>2. \A c \in Codes :
           links'[c].minted = IF c = requests[r].code THEN links[c].minted + 1
                              ELSE links[c].minted
    OBVIOUS
  <2>3. \A q \in Requests : requests'[q] = IF q = r THEN Idle ELSE requests[q]
    OBVIOUS
  <2> HIDE <1>9 DEF Mint
  <2>4. requests[r].pc = "mint"
    BY <1>9 DEF Mint
  <2>5. CodeNamed'
    BY <2>3 DEF CodeNamed
  <2>6. ReadRow'
    BY <2>1, <2>3 DEF ReadRow
  <2>7. OneMinter'
    BY <2>1, <2>2, <2>3, <2>4 DEF OneMinter, Minter
  <2>8. OneTokenPerCode'
    BY <2>2, <2>4 DEF OneTokenPerCode, OneMinter, Minter
  <2> QED
    BY <2>5, <2>6, <2>7, <2>8
<1> QED
  BY <1>1, <1>2, <1>3, <1>4, <1>5, <1>6, <1>7, <1>8, <1>9 DEF HouseholdNext, RequestNext, Drop,
     SignIn, Cookie, RevokeMember, Redeem, IssueInvite, RevokeInvite, Probe, ShareAdmits, Bearer,
     Reconcile, PlexRefuses, Purge, DeleteSelf, Authed, RevokeDevices

LEMMA HouseholdLinkInv == HouseholdSpec => []LinkInv
<1>1. HouseholdInit => LinkInv
  BY HouseholdAssumption DEF HouseholdAssumption, HouseholdInit, LinkInv, CodeNamed, ReadRow,
     OneMinter, Minter, OneTokenPerCode, Idle
<1> QED
  BY <1>1, HouseholdTypeOK, LinkStep, PTL DEF HouseholdSpec

\* poll: a code yields at most one token, however its polls race.
THEOREM HouseholdOneTokenPerCode == HouseholdSpec => []OneTokenPerCode
BY HouseholdLinkInv, PTL DEF LinkInv

\* claim, poll: the token of a code is the claimer's.
THEOREM HouseholdTokenOfClaimer == HouseholdSpec => []TokenOfClaimer
<1>1. TypeOK /\ LinkInv => TokenOfClaimer
  BY DEF TypeOK, Request, LinkInv, ReadRow, TokenOfClaimer
<1> QED
  BY <1>1, HouseholdTypeOK, HouseholdLinkInv, PTL

-----------------------------------------------------------------------------
(* The tables alone *)

\* Only a Plex identity is asked about its share.
ProbeInv == \A r \in Requests : requests[r].pc = "probe" => requests[r].sub \in PlexSubs

LEMMA ProbeStep ==
    ASSUME TypeOK, ProbeInv, [HouseholdNext]_householdVars
    PROVE  ProbeInv'
<1> USE DEF ProbeInv
<1>t. requests \in [Requests -> Request]
  BY DEF TypeOK
<1>1. ASSUME NEW r \in Requests,
             \/ Answer(r)
             \/ \E pc \in {"redeem", "mint", "status", "cookie", "purge", "consume"} :
                   \E s, c : Begins(r, pc, s, c)
             \/ \E pc \in {"mint", "role", "purge"} : Goes(r, pc)
      PROVE  ProbeInv'
  <2>1. \A q \in Requests : q # r => requests'[q] = requests[q]
    BY <1>1, <1>t DEF Answer, Begins, Goes
  <2>2. requests'[r].pc # "probe"
    BY <1>1, <1>t DEF Answer, Begins, Goes, Idle, Request
  <2> QED
    BY <2>1, <2>2
<1>2. ASSUME NEW r \in Requests, Probe(r)
      PROVE  ProbeInv'
  BY <1>2, <1>t DEF Probe, Goes, Request
<1>3. ASSUME NEW r \in Requests, ReadRole(r) \/ \E c \in Codes : ReadClaim(r, c)
      PROVE  ProbeInv'
  BY <1>3, <1>t DEF ReadRole, ReadClaim, Request
<1>4. CASE UNCHANGED requests
  BY <1>4
<1>5. ASSUME NEW r \in Requests,
             \/ Drop(r) \/ ShareAdmits(r) \/ Mint(r) \/ Purge(r) \/ BindClaim(r)
             \/ \E i \in Invites : IssueInvite(r, i) \/ RevokeInvite(r, i)
             \/ \E ts \in SUBSET Tokens : RevokeDevices(r, ts)
      PROVE  Answer(r)
  BY <1>5 DEF Drop, ShareAdmits, Mint, Purge, BindClaim, IssueInvite, RevokeInvite, RevokeDevices
<1>6. ASSUME NEW r \in Requests,
             \/ \E s \in Subs : SignIn(r, s) \/ Cookie(r, s) \/ RevokeMember(r, s)
             \/ \E t \in Tokens : Bearer(r, t)
             \/ \E c \in Codes : PollLink(r, c)
      PROVE  \E pc \in {"redeem", "mint", "status", "cookie", "purge", "consume"} :
                \E s, c : Begins(r, pc, s, c)
  BY <1>6 DEF SignIn, Cookie, RevokeMember, Bearer, PollLink
<1>7. ASSUME NEW r \in Requests,
             \/ Reconcile(r) \/ PlexRefuses(r) \/ DeleteSelf(r) \/ ConsumeLink(r)
             \/ \E i \in Invites : Redeem(r, i)
      PROVE  \E pc \in {"mint", "role", "purge"} : Goes(r, pc)
  BY <1>7 DEF Reconcile, PlexRefuses, DeleteSelf, ConsumeLink, Redeem
<1>8. ASSUME NEW r \in Requests, RequestNext(r)
      PROVE  ProbeInv'
  BY <1>1, <1>2, <1>3, <1>5, <1>6, <1>7, <1>8 DEF RequestNext
<1> QED
  BY <1>4, <1>8 DEF HouseholdNext, StartLink, householdVars

LEMMA ProbeInvariant == HouseholdSpec => []ProbeInv
<1>1. HouseholdInit => ProbeInv
  BY DEF HouseholdInit, ProbeInv, Idle
<1> QED
  BY <1>1, HouseholdTypeOK, ProbeStep, PTL DEF HouseholdSpec

\* A revocation that may happen is one the tables allow.
LEMMA AllowLeave ==
    ASSUME TypeOK, NEW s \in Subs, s \notin adminSubs, Active(s), MemberRevoked(s),
           members[s] = "admin" => AnotherAdmin(s), UNCHANGED <<adminSubs, links, tokens>>
    PROVE  Allow!Leave(s)
<1>1. members[s] \in Allow!Roles
  BY DEF Active, Roles, Allow!Roles
<1>2. Allow!IsAdmin(s) => \E o \in Subs \ {s} : Allow!IsAdmin(o)
  BY DEF Allow!IsAdmin, AnotherAdmin, IsAdmin
<1>3. \A i \in Invites : (IF invites[i].issuer = s THEN [invites[i] EXCEPT !.revoked = TRUE]
                          ELSE invites[i])
                         = [invites[i] EXCEPT !.revoked = @ \/ invites[i].issuer = s]
  BY DEF TypeOK, Invite
<1>4. invites' = [i \in Invites |-> [invites[i] EXCEPT !.revoked = @ \/ invites[i].issuer = s]]
  BY <1>3 DEF MemberRevoked, InvitesRevokedWith
<1> QED
  BY <1>1, <1>2, <1>4 DEF MemberRevoked, Allow!Leave

\* Tokens revoked are ones that were minted.
LEMMA AllowRevoke ==
    ASSUME TypeOK, NEW ts \in SUBSET Tokens, \A t \in ts : tokens[t].sub # None,
           tokens' = [t \in Tokens |-> IF t \in ts THEN [tokens[t] EXCEPT !.revoked = TRUE]
                                       ELSE tokens[t]],
           UNCHANGED <<adminSubs, members, invites, links>>
    PROVE  Allow!Revoke(ts)
<1>1. \A t \in Tokens : (IF t \in ts THEN [tokens[t] EXCEPT !.revoked = TRUE] ELSE tokens[t])
                        = [tokens[t] EXCEPT !.revoked = @ \/ t \in ts]
  BY DEF TypeOK, Token
<1> QED
  BY <1>1 DEF Allow!Revoke, Allow!Fresh

\* The steps of a request that only read: nothing changes in the tables.
LEMMA AllowReads ==
    ASSUME NEW r \in Requests,
           \/ Drop(r) \/ Probe(r) \/ Reconcile(r) \/ PlexRefuses(r) \/ ReadRole(r)
           \/ \E s \in Subs : SignIn(r, s) \/ Cookie(r, s)
           \/ \E t \in Tokens : Bearer(r, t)
           \/ \E c \in Codes : ReadClaim(r, c) \/ PollLink(r, c)
    PROVE  UNCHANGED Allow!tables
BY DEF Drop, Probe, Reconcile, PlexRefuses, ReadRole, SignIn, Cookie, Bearer, ReadClaim, PollLink,
       Allow!tables

\* The steps that write members and invites.
LEMMA AllowMembers ==
    ASSUME TypeOK, ProbeInv, NEW r \in Requests,
           \/ ShareAdmits(r) \/ DeleteSelf(r)
           \/ \E s \in Subs : RevokeMember(r, s)
           \/ \E i \in Invites : Redeem(r, i) \/ IssueInvite(r, i) \/ RevokeInvite(r, i)
    PROVE  \/ \E s \in Subs : \/ Allow!Share(s) \/ Allow!Leave(s)
                              \/ \E i \in Invites : Allow!Enter(s, i) \/ Allow!Issue(s, i)
           \/ \E i \in Invites : Allow!Close(i)
           \/ UNCHANGED Allow!tables
<1> DEFINE me == requests[r].sub
<1>0. requests[r].pc # "idle" => me \in Subs
  BY DEF TypeOK
<1>1. CASE ShareAdmits(r)
  <2>1. me \in Subs /\ me \in PlexSubs
    BY <1>0, <1>1 DEF ShareAdmits, ProbeInv
  <2>2. CASE members[me] = "none"
    <3>1. Allow!Share(me)
      BY <1>1, <2>1, <2>2 DEF ShareAdmits, ShareRow, Allow!Share
    <3> QED
      BY <2>1, <3>1
  <2>3. CASE members[me] # "none"
    <3>1. members' = members
      BY <1>1, <2>1, <2>3 DEF ShareAdmits, ShareRow, TypeOK
    <3> QED
      BY <1>1, <3>1 DEF ShareAdmits, Allow!tables
  <2> QED
    BY <2>2, <2>3
<1>2. CASE DeleteSelf(r)
  <2>1. me \in Subs /\ me \notin adminSubs /\ UNCHANGED <<adminSubs, links, tokens>>
    BY <1>0, <1>2 DEF DeleteSelf, Authed
  <2>2. CASE Active(me)
    <3>1. MemberRevoked(me) /\ (members[me] = "admin" => AnotherAdmin(me))
      BY <1>2, <2>2 DEF DeleteSelf
    <3> HIDE DEF me
    <3>2. Allow!Leave(me)
      BY <2>1, <2>2, <3>1, AllowLeave
    <3> QED
      BY <2>1, <3>2
  <2>3. CASE ~Active(me)
    BY <1>2, <2>1, <2>3 DEF DeleteSelf, Allow!tables
  <2> QED
    BY <2>2, <2>3
<1>3. ASSUME NEW s \in Subs, RevokeMember(r, s)
      PROVE  Allow!Leave(s)
  <2>1. /\ s \notin adminSubs /\ s # me /\ Active(s) /\ MemberRevoked(s)
        /\ IsAdmin(me) /\ requests[r].pc = "authed"
        /\ UNCHANGED <<adminSubs, links, tokens>>
    BY <1>3 DEF RevokeMember, StillAdmin, AuthedAdmin, Authed
  <2>2. me \in Subs \ {s}
    BY <1>0, <2>1
  <2>3. AnotherAdmin(s)
    BY <2>1, <2>2 DEF AnotherAdmin
  <2> QED
    BY <2>1, <2>3, AllowLeave
<1>4. ASSUME NEW i \in Invites, Redeem(r, i)
      PROVE  Allow!Enter(me, i) \/ UNCHANGED Allow!tables
  <2>1. CASE Active(me) /\ UNCHANGED <<members, invites>>
    BY <1>4, <2>1 DEF Redeem, Allow!tables
  <2>2. CASE ~Active(me) /\ ~Spent(i) /\ invites' = [invites EXCEPT ![i].used = @ + 1]
             /\ members' = [members EXCEPT ![me] = invites[i].role]
    <3>1. invites[i].used < invites[i].max
      BY <2>2 DEF Spent, TypeOK, Invite
    <3> QED
      BY <1>4, <2>2, <3>1 DEF Redeem, Redeemable, Issued, Active, Roles, Allow!Enter, Allow!Roles
  <2> QED
    BY <1>4, <2>1, <2>2 DEF Redeem
<1>5. ASSUME NEW i \in Invites, IssueInvite(r, i)
      PROVE  Allow!Issue(me, i) /\ me \in Subs
  BY <1>0, <1>5 DEF IssueInvite, Issued, AuthedAdmin, Authed, Roles, Allow!Issue, Allow!Roles
<1>6. ASSUME NEW i \in Invites, RevokeInvite(r, i)
      PROVE  Allow!Close(i)
  BY <1>6 DEF RevokeInvite, Issued, Allow!Close
<1>7. ASSUME NEW i \in Invites, Redeem(r, i)
      PROVE  me \in Subs
  BY <1>0, <1>7 DEF Redeem
<1> HIDE DEF me
<1>8. CASE \E i \in Invites : Redeem(r, i) \/ IssueInvite(r, i) \/ RevokeInvite(r, i)
  BY <1>4, <1>5, <1>6, <1>7, <1>8
<1> QED
  BY <1>1, <1>2, <1>3, <1>8

\* The steps that write link codes and tokens.
LEMMA AllowDevices ==
    ASSUME TypeOK, LinkInv, NEW r \in Requests,
           \/ BindClaim(r) \/ ConsumeLink(r) \/ Mint(r) \/ Purge(r)
           \/ \E ts \in SUBSET Tokens : RevokeDevices(r, ts)
    PROVE  \/ \E c \in Codes : \/ Allow!Consume(c)
                               \/ \E s \in Subs : Allow!Claim(s, c)
                               \/ \E t \in Tokens : Allow!Pair(c, t)
           \/ \E s \in Subs, t \in Tokens : Allow!Enroll(s, t)
           \/ \E ts \in SUBSET Tokens : Allow!Revoke(ts)
           \/ UNCHANGED Allow!tables
<1> DEFINE me == requests[r].sub
           code == requests[r].code
<1>0. requests[r].pc # "idle" => me \in Subs
  BY DEF TypeOK
<1>t. links \in [Codes -> Link] /\ tokens \in [Tokens -> Token]
  BY DEF TypeOK
<1>1. CASE BindClaim(r)
  <2>1. /\ me \in Subs /\ links[code].state = "open"
        /\ links' = [links EXCEPT ![code].state = "claimed", ![code].sub = me]
        /\ UNCHANGED <<adminSubs, members, invites, tokens>>
    BY <1>0, <1>1 DEF BindClaim, Bindable
  <2> HIDE DEF me, code
  <2>2. CASE code \in Codes
    BY <2>1, <2>2 DEF Allow!Claim
  <2>3. CASE code \notin Codes
    <3>1. links' = links
      BY <1>t, <2>1, <2>3
    <3> QED
      BY <2>1, <3>1 DEF Allow!tables
  <2> QED
    BY <2>2, <2>3
<1>2. CASE ConsumeLink(r)
  <2>1. /\ links[code].state = "claimed"
        /\ links' = [links EXCEPT ![code].state = "consumed"]
        /\ UNCHANGED <<adminSubs, members, invites, tokens>>
    BY <1>2 DEF ConsumeLink, Consumable
  <2> HIDE DEF code
  <2>2. CASE code \in Codes
    BY <2>1, <2>2 DEF Allow!Consume
  <2>3. CASE code \notin Codes
    <3>1. links' = links
      BY <1>t, <2>1, <2>3
    <3> QED
      BY <2>1, <3>1 DEF Allow!tables
  <2> QED
    BY <2>2, <2>3
<1>3. CASE Mint(r)
  <2>1. PICK t \in Fresh : tokens' = [tokens EXCEPT ![t] = [sub |-> me, revoked |-> FALSE]]
    BY <1>3 DEF Mint
  <2>2. t \in Tokens /\ Allow!Fresh(t)
    BY <2>1 DEF Fresh, Allow!Fresh
  <2>3. /\ requests[r].pc = "mint" /\ me \in Subs
        /\ links' = [c \in Codes |-> IF c = code THEN [links[c] EXCEPT !.minted = @ + 1]
                                     ELSE links[c]]
        /\ UNCHANGED <<adminSubs, members, invites>>
    BY <1>0, <1>3 DEF Mint
  <2>4. CASE code \in Codes
    <3>1. links[code].state = "consumed" /\ links[code].minted = 0 /\ me = links[code].sub
      BY <2>3, <2>4 DEF LinkInv, OneMinter, Minter, ReadRow
    <3> HIDE DEF me, code
    <3>2. links' = [links EXCEPT ![code].minted = 1]
      <4>1. [links[code] EXCEPT !.minted = @ + 1] = [links[code] EXCEPT !.minted = 1]
        BY <3>1
      <4>2. links' = [c \in Codes |-> IF c = code THEN [links[code] EXCEPT !.minted = 1]
                                      ELSE links[c]]
        BY <2>3, <4>1
      <4> QED
        BY <1>t, <2>4, <4>2
    <3>3. Allow!Pair(code, t)
      BY <2>1, <2>2, <2>3, <3>1, <3>2 DEF Allow!Pair
    <3> QED
      BY <2>2, <2>4, <3>3
  <2>5. CASE code \notin Codes
    <3> HIDE DEF me, code
    <3>1. links' = links
      BY <1>t, <2>3, <2>5
    <3>2. Allow!Enroll(me, t)
      BY <2>1, <2>2, <2>3, <3>1 DEF Allow!Enroll
    <3> QED
      BY <2>2, <2>3, <3>2
  <2> QED
    BY <2>4, <2>5
<1>4. CASE Purge(r)
  <2> DEFINE ts == {t \in Tokens : tokens[t].sub = me}
  <2>1. me \in Subs
    BY <1>0, <1>4 DEF Purge
  <2>2. \A t \in ts : tokens[t].sub # None
    BY <2>1, HouseholdAssumption DEF HouseholdAssumption
  <2>3. /\ tokens' = [t \in Tokens |-> IF t \in ts THEN [tokens[t] EXCEPT !.revoked = TRUE]
                                       ELSE tokens[t]]
        /\ UNCHANGED <<adminSubs, members, invites, links>>
    BY <1>4 DEF Purge
  <2>4. ts \in SUBSET Tokens
    OBVIOUS
  <2> HIDE DEF ts
  <2>5. Allow!Revoke(ts)
    BY <2>2, <2>3, <2>4, AllowRevoke
  <2> QED
    BY <2>4, <2>5
<1>5. ASSUME NEW ts \in SUBSET Tokens, RevokeDevices(r, ts)
      PROVE  Allow!Revoke(ts)
  <2>1. me \in Subs
    BY <1>0, <1>5 DEF RevokeDevices, Authed
  <2>2. DevicesOf(me) \cap Fresh = {}
    BY <2>1, HouseholdAssumption DEF HouseholdAssumption, DevicesOf, Fresh
  <2>3. ts \subseteq DevicesOf(me) \/ ts \cap Fresh = {}
    BY <1>5 DEF RevokeDevices
  <2>4. \A t \in ts : tokens[t].sub # None
    BY <2>2, <2>3 DEF Fresh
  <2> QED
    BY <1>5, <2>4, AllowRevoke DEF RevokeDevices
<1> QED
  BY <1>1, <1>2, <1>3, <1>4, <1>5

LEMMA AllowStep ==
    ASSUME TypeOK, LinkInv, ProbeInv, [HouseholdNext]_householdVars
    PROVE  [Allow!AllowNext]_(Allow!tables)
<1>1. ASSUME NEW c \in Codes, StartLink(c)
      PROVE  Allow!Open(c)
  BY <1>1 DEF StartLink, Allow!Open
<1>2. CASE UNCHANGED householdVars
  BY <1>2 DEF householdVars, Allow!tables
<1>3. ASSUME NEW r \in Requests, RequestNext(r)
      PROVE  [Allow!AllowNext]_(Allow!tables)
  <2>1. CASE \/ ShareAdmits(r) \/ DeleteSelf(r)
             \/ \E s \in Subs : RevokeMember(r, s)
             \/ \E i \in Invites : Redeem(r, i) \/ IssueInvite(r, i) \/ RevokeInvite(r, i)
    BY <2>1, AllowMembers DEF Allow!AllowNext
  <2>2. CASE \/ BindClaim(r) \/ ConsumeLink(r) \/ Mint(r) \/ Purge(r)
             \/ \E ts \in SUBSET Tokens : RevokeDevices(r, ts)
    BY <2>2, AllowDevices DEF Allow!AllowNext
  <2> QED
    BY <1>3, <2>1, <2>2, AllowReads DEF RequestNext
<1> QED
  BY <1>1, <1>2, <1>3 DEF HouseholdNext, Allow!AllowNext

\* redeem, check, revoke_safely, revoke_self, claim, poll, mint and the
\* cascades: whatever a request checked before an await, the write that
\* follows is one the tables allow when it happens, or changes nothing.
THEOREM HouseholdImplementsAllowlist == HouseholdSpec => ImplementsAllowlist
<1>1. HouseholdInit => Allow!AllowInit
  BY HouseholdAssumption
     DEF HouseholdAssumption, HouseholdInit, NoInvite, MemberRow, Roles, Allow!AllowInit,
         Allow!Roles
<1>2. TypeOK /\ LinkInv /\ ProbeInv /\ [HouseholdNext]_householdVars
        => [Allow!AllowNext]_(Allow!tables)
  BY AllowStep
<1> QED
  BY <1>1, <1>2, HouseholdTypeOK, HouseholdLinkInv, ProbeInvariant, PTL
     DEF HouseholdSpec, ImplementsAllowlist, Allow!AllowSpec

=============================================================================
