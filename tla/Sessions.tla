------------------------------ MODULE Sessions ------------------------------
(***************************************************************************)
(* The session of one user in one browser tab: signing up and in, the      *)
(* refresh of an access token and the sign-out (auth/auth.controller.ts,   *)
(* auth/jwt.service.ts), the check of every request                        *)
(* (auth/tenant-context.middleware.ts, auth/permissions.guard.ts) and the  *)
(* client that refreshes and retries (web lib/api.ts, the layout).  Tokens *)
(* are signed and never stored: only their expiry ends them.  Membership   *)
(* and role are changed by others, at any moment.                          *)
(***************************************************************************)
EXTENDS Integers, FiniteSets

CONSTANTS
    Perms,         \* permissions a role may have
    Fetches,       \* calls of api() under way at once
    Grants,        \* handlers of login and refresh at once
    AccessTTL,     \* JWT_ACCESS_TTL_SECONDS: 900
    RefreshTTL,    \* JWT_REFRESH_TTL_SECONDS: 604800
    MaxNow,        \* bound: ticks
    MaxChanges     \* bound: changes of membership and role

ASSUME SessionsAssumption ==
    {AccessTTL, RefreshTTL} \subseteq Nat \ {0} /\ {MaxNow, MaxChanges} \subseteq Nat

VARIABLES
    now,
    registered,  \* the user, the tenant and the membership of its owner exist
    member,      \* the membership is active
    role,        \* permissions of its role
    grants,      \* where each login or refresh is; had: it has found the user a member
    tab,         \* accessToken, and the cookie of the browser
    fetches,     \* where each call of api() is
    lastHeld,    \* history: when the user last had each permission, or a handler that
                 \* had read so was still to sign it
    overdue,     \* history: how long after that a request was served, at most
    changes      \* history: changes of membership and role

sessionVars == <<now, registered, member, role, grants, tab, fetches, lastHeld, overdue, changes>>

Never == 0
NoToken == [perms |-> {}, exp |-> Never]
\* Nobody is signed in here.
NoSession == [access |-> NoToken, cookie |-> Never]
NoGrant == [at |-> "idle", perms |-> {}, for |-> {}, had |-> FALSE]
NoFetch == [at |-> "idle", perm |-> {}, token |-> NoToken]

InitSessions ==
    /\ now = 1 /\ registered \in BOOLEAN /\ member = registered /\ changes = 0
    /\ role = IF registered THEN Perms ELSE {}
    /\ grants = [g \in Grants |-> NoGrant]
    /\ tab = NoSession
    /\ fetches = [f \in Fetches |-> NoFetch]
    /\ lastHeld = [p \in Perms |-> 1] /\ overdue = 0

Valid(token) == now < token.exp

-----------------------------------------------------------------------------
(* Others, and time *)

TimePasses ==
    /\ now < MaxNow /\ now' = now + 1
    /\ UNCHANGED <<registered, member, role, grants, tab, fetches, overdue, changes>>

MembershipChanges ==
    /\ registered /\ changes < MaxChanges /\ changes' = changes + 1 /\ member' = ~member
    /\ UNCHANGED <<now, registered, role, grants, tab, fetches, overdue>>

RoleChanges(perms) ==
    /\ registered /\ perms # role /\ changes < MaxChanges /\ changes' = changes + 1 /\ role' = perms
    /\ UNCHANGED <<now, registered, member, grants, tab, fetches, overdue>>

-----------------------------------------------------------------------------
(* signup, login and refresh *)

\* The transaction: a tenant whose owner has every permission.  The page sends no
\* credentials with it and drops the session of the answer: it signs in next.
Signup ==
    /\ ~registered /\ registered' = TRUE /\ member' = TRUE /\ role' = Perms
    /\ UNCHANGED <<now, grants, tab, fetches, overdue, changes>>

\* A fetch waits for its refresh; a login and the layout's refresh are for none.
StartLogin(g) ==
    /\ registered /\ grants[g] = NoGrant
    /\ grants' = [grants EXCEPT ![g].at = "membership"]
    /\ UNCHANGED <<now, registered, member, role, tab, fetches, overdue, changes>>

\* 401, and who waited for it has failed.
Refused(g) ==
    /\ grants' = [grants EXCEPT ![g] = NoGrant]
    /\ fetches' = [f \in Fetches |-> IF f \in grants[g].for THEN NoFetch ELSE fetches[f]]

StartRefresh(g, for) ==
    /\ grants[g] = NoGrant /\ now < tab.cookie
    /\ for \subseteq {f \in Fetches : fetches[f].at = "refresh"}
    /\ grants' = [grants EXCEPT ![g] = [NoGrant EXCEPT !.at = "membership", !.for = for]]
    /\ fetches' = [f \in Fetches |-> IF f \in for THEN [fetches[f] EXCEPT !.at = "wait"]
                                     ELSE fetches[f]]
    /\ UNCHANGED <<now, registered, member, role, tab, overdue, changes>>

\* No cookie, one that has expired, or no answer.
CannotRefresh(f) ==
    /\ fetches[f].at = "refresh"
    /\ fetches' = [fetches EXCEPT ![f] = NoFetch]
    /\ UNCHANGED <<now, registered, member, role, grants, tab, overdue, changes>>

\* Mutant of ReadMembership: a membership of any status will do.
ReadAnyMembership(g) ==
    /\ grants[g].at = "membership"
    /\ grants' = [grants EXCEPT ![g].at = "role", ![g].had = member] /\ UNCHANGED fetches
    /\ UNCHANGED <<now, registered, member, role, tab, overdue, changes>>

\* The active membership, or 401.
ReadMembership(g) ==
    /\ grants[g].at = "membership"
    /\ IF member
       THEN grants' = [grants EXCEPT ![g].at = "role", ![g].had = member] /\ UNCHANGED fetches
       ELSE Refused(g)
    /\ UNCHANGED <<now, registered, member, role, tab, overdue, changes>>

\* The role of that membership: its permissions go into the token.
ReadRole(g) ==
    /\ grants[g].at = "role"
    /\ grants' = [grants EXCEPT ![g].at = "sign", ![g].perms = role]
    /\ UNCHANGED <<now, registered, member, role, tab, fetches, overdue, changes>>

\* The two tokens signed with these permissions.
issueSession(perms) == [access |-> [perms |-> perms, exp |-> now + AccessTTL],
                        cookie |-> now + RefreshTTL]

\* The answer: the browser keeps the cookie, the tab the token, and who waited
\* tries again.
TakeSession(g) ==
    /\ grants[g].at = "sign"
    /\ tab' = issueSession(grants[g].perms)
    /\ grants' = [grants EXCEPT ![g] = NoGrant]
    /\ fetches' = [f \in Fetches |-> IF f \in grants[g].for
                      THEN [fetches[f] EXCEPT !.at = "again", !.token = tab'.access]
                      ELSE fetches[f]]
    /\ UNCHANGED <<now, registered, member, role, overdue, changes>>

\* The answer clears the cookie, the layout the token; signed tokens stay valid.
Logout ==
    /\ tab # NoSession /\ tab' = NoSession
    /\ UNCHANGED <<now, registered, member, role, grants, fetches, overdue, changes>>

\* Another load of the page: the token was in memory only.
Reload ==
    /\ tab.access # NoToken
    /\ tab' = [tab EXCEPT !.access = NoToken]
    /\ fetches' = [f \in Fetches |-> NoFetch]
    /\ grants' = [g \in Grants |-> [grants[g] EXCEPT !.for = {}]]
    /\ UNCHANGED <<now, registered, member, role, overdue, changes>>

\* The layout could not reach the API and shows no page: its button forgets the
\* token and keeps the cookie.
LeaveForLogin ==
    /\ tab.access # NoToken /\ \A f \in Fetches : fetches[f] = NoFetch
    /\ tab' = [tab EXCEPT !.access = NoToken]
    /\ UNCHANGED <<now, registered, member, role, grants, fetches, overdue, changes>>

-----------------------------------------------------------------------------
(* api() and the check of a request *)

\* A request takes the token along.
Fetch(f, p) ==
    /\ fetches[f] = NoFetch
    /\ fetches' = [fetches EXCEPT ![f] = [at |-> "sent", perm |-> {p}, token |-> tab.access]]
    /\ UNCHANGED <<now, registered, member, role, grants, tab, overdue, changes>>

\* TenantContextMiddleware and PermissionsGuard let it through, by what the token
\* says.
Serve(f) ==
    /\ fetches[f].at \in {"sent", "again"} /\ Valid(fetches[f].token)
    /\ fetches[f].perm \subseteq fetches[f].token.perms
    /\ overdue' = CHOOSE n \in {overdue} \cup {now - lastHeld[p] : p \in fetches[f].perm} :
                     \A p \in fetches[f].perm : n >= overdue /\ n >= now - lastHeld[p]
    /\ fetches' = [fetches EXCEPT ![f] = NoFetch]
    /\ UNCHANGED <<now, registered, member, role, grants, tab, changes>>

\* 401: refreshed and tried again once; 403 is final.
Refuse(f) ==
    /\ fetches[f].at \in {"sent", "again"}
    /\ ~(Valid(fetches[f].token) /\ fetches[f].perm \subseteq fetches[f].token.perms)
    /\ fetches' = [fetches EXCEPT ![f] =
                      IF fetches[f].at = "sent" /\ ~Valid(fetches[f].token)
                      THEN [fetches[f] EXCEPT !.at = "refresh"] ELSE NoFetch]
    /\ UNCHANGED <<now, registered, member, role, grants, tab, overdue, changes>>

-----------------------------------------------------------------------------

SessionSteps ==
    \/ TimePasses \/ MembershipChanges \/ Signup \/ Logout \/ Reload \/ LeaveForLogin
    \/ \E perms \in SUBSET Perms : RoleChanges(perms)
    \/ \E g \in Grants : \/ StartLogin(g)
                         \/ ReadMembership(g) \/ ReadRole(g) \/ TakeSession(g)
                         \/ StartRefresh(g, {}) \/ \E f \in Fetches : StartRefresh(g, {f})
    \/ \E f \in Fetches : \/ CannotRefresh(f) \/ Serve(f) \/ Refuse(f)
                          \/ \E p \in Perms : Fetch(f, p)

\* The user has p, or a handler that has found the user to have it is under way.
Held(p) ==
    \/ member /\ p \in role
    \/ \E g \in Grants :
          /\ grants[g].had
          /\ \/ grants[g].at = "role" /\ p \in role
             \/ grants[g].at = "sign" /\ p \in grants[g].perms

NextSessions ==
    SessionSteps /\ lastHeld' = [p \in Perms |-> IF Held(p)' THEN now' ELSE lastHeld[p]]

SpecSessions == InitSessions /\ [][NextSessions]_sessionVars

-----------------------------------------------------------------------------
(* Properties *)

SessionsOK ==
    /\ {now, overdue} \subseteq Nat /\ {registered, member} \subseteq BOOLEAN
    /\ role \subseteq Perms
    /\ grants \in [Grants -> [at : {"idle", "membership", "role", "sign"},
                              perms : SUBSET Perms, for : SUBSET Fetches,
                              had : BOOLEAN]]
    /\ tab \in [access : [perms : SUBSET Perms, exp : Nat], cookie : Nat]
    /\ fetches \in [Fetches -> [at : {"idle", "sent", "refresh", "wait", "again"},
                       perm : SUBSET Perms, token : [perms : SUBSET Perms, exp : Nat]]]
    /\ lastHeld \in [Perms -> Nat]

\* A permission that was taken away, with the membership or with the role, serves
\* requests for less than one access TTL more, however often the tab refreshed,
\* signed in again or retried meanwhile.
GoneWithinOneTTL == overdue < AccessTTL
=============================================================================
