------------------------------ MODULE Accounts ------------------------------
(***************************************************************************)
(* Accounts, sessions and roles in one organisation: registration and      *)
(* login (src/src/auth/local.provider.ts, session.ts), administration      *)
(* (src/src/admin/users.ts), SCIM provisioning (src/src/integrations/      *)
(* scim.ts) and single sign-on (src/src/admin/sso.ts and its routes).      *)
(*                                                                         *)
(* A request authenticates, reads and writes in separate statements and    *)
(* transactions; requests overlap between them and may die between them.   *)
(* What an identity provider confirms is taken from it.  Audit entries,    *)
(* which nothing here reads, are left out.                                 *)
(***************************************************************************)
EXTENDS Integers

CONSTANTS
    Requests,   \* concurrent requests
    Users,      \* people, known by their e-mail address
    Founder,    \* the user who registered and owns the organisation
    Admin,      \* a registered user who administers it
    GivenRoles, \* bound: roles that requests and configurations hand out
    MaxRequests \* bound: requests in all

Roles == {"viewer", "member", "admin", "owner"}
Statuses == {"active", "invited", "inactive"}
ROLE_RANK == [none |-> -1, viewer |-> 0, member |-> 1, admin |-> 2, owner |-> 3]

hasAtLeastRole(r, minimum) == ROLE_RANK[r] >= ROLE_RANK[minimum]

Idle == [op |-> "idle"]
NoSso == [role |-> "none", active |-> FALSE]

VARIABLES
    status,    \* users.status, "none" without a row
    role,      \* memberships.role in the organisation, "none" without a row
    passwords, \* users whose password_hash some password matches
    homes,     \* users with an organisation of their own
    sessions,  \* sessions neither revoked nor expired
    scim,      \* whether the organisation's SCIM token is valid
    sso,       \* oidc_configs of the organisation
    begun,     \* requests begun (bounded by MaxRequests)
    job,       \* job[q]: what request q has read and has still to do
    unrevoked  \* history: users a deactivation of whom died half-way

accounts == <<status, passwords, homes>>
configs == <<scim, sso>>
vars == <<accounts, role, sessions, configs, begun, job, unrevoked>>

Init ==
    /\ status = [u \in Users |-> IF u \in {Founder, Admin} THEN "active" ELSE "none"]
    /\ role = [u \in Users |-> IF u = Founder THEN "owner"
                               ELSE IF u = Admin THEN "admin" ELSE "none"]
    /\ passwords = {Founder, Admin}
    /\ homes = {}
    /\ sessions = {}
    /\ scim = TRUE
    /\ sso = NoSso
    /\ begun = 0
    /\ job = [q \in Requests |-> Idle]
    /\ unrevoked = {}

Count == begun < MaxRequests /\ begun' = begun + 1

\* Request q begins: its caller is authorised.
Start(q, work) ==
    /\ Count
    /\ job[q] = Idle
    /\ job' = [job EXCEPT ![q] = work]
    /\ UNCHANGED <<accounts, role, sessions, configs, unrevoked>>

Goto(q, phase) == job' = [job EXCEPT ![q].phase = phase] /\ UNCHANGED begun
Done(q) == job' = [job EXCEPT ![q] = Idle] /\ UNCHANGED begun

At(q, ops, phase) == job[q].op \in ops /\ job[q].phase = phase

\* The callers of the administrative routes.
Admins == {a \in Users : hasAtLeastRole(role[a], "admin")}

-----------------------------------------------------------------------------
(* Provisioning: registration, invitation, SCIM, single sign-on *)

Provision(how, phase, u, r, s) ==
    [op |-> how, phase |-> phase, user |-> u, role |-> r, status |-> s]

register(q, u) == Start(q, Provision("register", "look", u, "none", "active"))

inviteUser(q, u, r) ==
    /\ Admins # {}
    /\ Start(q, Provision("invite", "look", u, r, "invited"))

scimCreateUser(q, u, s) == scim /\ Start(q, Provision("scim", "look", u, "member", s))

\* The login route looks up the active configuration of a domain.
ssoLogin(q, u) ==
    sso.active /\ Start(q, Provision("sso", "secret", u, sso.role, "active"))

\* It reads the configuration again for the secret, active or not.
ReadSecret(q) ==
    /\ At(q, {"sso"}, "secret")
    /\ IF sso = NoSso THEN Done(q) ELSE Goto(q, "look")
    /\ UNCHANGED <<accounts, role, sessions, configs, unrevoked>>

Provisioning == {"register", "invite", "scim", "sso"}

\* The address is looked up: only SCIM and single sign-on take an account that is there.
LookUp(q) ==
    /\ At(q, Provisioning, "look")
    /\ IF status[job[q].user] = "none" THEN Goto(q, "insert")
       ELSE IF job[q].op \in {"scim", "sso"} THEN Goto(q, "join")
       ELSE Done(q)
    /\ UNCHANGED <<accounts, role, sessions, configs, unrevoked>>

\* INSERT, which UNIQUE (email) refuses if the account has appeared meanwhile.
InsertAccount(q) ==
    /\ At(q, Provisioning, "insert")
    /\ LET u == job[q].user
       IN  IF status[u] = "none"
             THEN /\ status' = [status EXCEPT ![u] = job[q].status]
                  /\ passwords' = IF job[q].op = "register" THEN passwords \cup {u} ELSE passwords
                  /\ Goto(q, "join")
             ELSE Done(q) /\ UNCHANGED <<status, passwords>>
    /\ UNCHANGED <<homes, role, sessions, configs, unrevoked>>

\* The membership: an organisation of its own for a registration, otherwise a row
\* of this one, unless the user is a member already.
Join(q) ==
    /\ At(q, Provisioning, "join")
    /\ LET u == job[q].user
       IN  IF job[q].op = "register"
             THEN homes' = homes \cup {u} /\ UNCHANGED role
             ELSE /\ role' = [role EXCEPT ![u] = IF @ = "none" THEN job[q].role ELSE @]
                  /\ UNCHANGED homes
    /\ Done(q)
    /\ UNCHANGED <<status, passwords, sessions, configs, unrevoked>>

-----------------------------------------------------------------------------
(* Sessions *)

\* authenticate: the account is active and the password its own.
authenticate(q, u) ==
    /\ status[u] = "active" /\ u \in passwords
    /\ Start(q, [op |-> "login", phase |-> "session", user |-> u, id |-> begun])

\* createSession does not look at the account again.
createSession(q) ==
    /\ At(q, {"login"}, "session")
    /\ LET u == job[q].user
       IN  sessions' = sessions \cup
               {[id |-> job[q].id, user |-> u, late |-> status[u] # "active"]}
    /\ Done(q)
    /\ UNCHANGED <<accounts, role, configs, unrevoked>>

\* revokeSession at logout, or seven days pass.
EndSession(s) ==
    /\ sessions' = sessions \ {s}
    /\ UNCHANGED <<accounts, role, configs, begun, job, unrevoked>>

\* validateSession: not revoked, not expired, and the account exists.
validateSession(s) == s \in sessions /\ status[s.user] # "none"

-----------------------------------------------------------------------------
(* Activation *)

Activation(op, u, active) == [op |-> op, phase |-> "status", user |-> u, active |-> active]

deactivateUser(q, u) ==
    /\ Admins \ {u} # {} /\ status[u] # "none"
    /\ Start(q, Activation("deactivate", u, FALSE))

\* scimReplaceUser, scimPatchUser and scimDeleteUser.
setActive(q, u, active) ==
    /\ scim /\ status[u] # "none"
    /\ Start(q, Activation("setActive", u, active))

\* Mutant: SCIM switches the account off and leaves its sessions.
SwitchStatus(q) ==
    /\ At(q, {"deactivate", "setActive"}, "status")
    /\ LET active == job[q].active
       IN  /\ status' = [status EXCEPT ![job[q].user] = IF active THEN "active" ELSE "inactive"]
           /\ IF job[q].op = "setActive" THEN Done(q) ELSE Goto(q, "sessions")
    /\ UNCHANGED <<passwords, homes, role, sessions, configs, unrevoked>>

SetStatus(q) ==
    /\ At(q, {"deactivate", "setActive"}, "status")
    /\ LET active == job[q].active
       IN  /\ status' = [status EXCEPT ![job[q].user] = IF active THEN "active" ELSE "inactive"]
           /\ IF active THEN Done(q) ELSE Goto(q, "sessions")
    /\ UNCHANGED <<passwords, homes, role, sessions, configs, unrevoked>>

RevokeSessions(q) ==
    /\ At(q, {"deactivate", "setActive"}, "sessions")
    /\ sessions' = {s \in sessions : s.user # job[q].user}
    /\ unrevoked' = unrevoked \ {job[q].user}
    /\ Done(q)
    /\ UNCHANGED <<accounts, role, configs>>

-----------------------------------------------------------------------------
(* Roles *)

\* The request carries the role its caller had when it was authenticated.
changeRole(q, a, u, r) ==
    /\ a \in Admins
    /\ Start(q, [op |-> "role", phase |-> "read", user |-> u, role |-> r,
                 actor |-> role[a], was |-> "none"])

\* Mutant: whoever asks may demote an owner.
ReadRoleOnly(q) ==
    /\ At(q, {"role"}, "read")
    /\ LET current == role[job[q].user]
       IN  IF current = "none"
             THEN Done(q)
             ELSE /\ job' = [job EXCEPT ![q].phase = "write", ![q].was = current]
                  /\ UNCHANGED begun
    /\ UNCHANGED <<accounts, role, sessions, configs, unrevoked>>

\* The unlocked read of changeRole, and what it refuses.
ReadRole(q) ==
    /\ At(q, {"role"}, "read")
    /\ LET j == job[q]
           current == role[j.user]
       IN  IF current = "none" \/ (current = "owner" /\ j.role # "owner" /\ j.actor # "owner")
             THEN Done(q)
             ELSE /\ job' = [job EXCEPT ![q].phase = "write", ![q].was = current]
                  /\ UNCHANGED begun
    /\ UNCHANGED <<accounts, role, sessions, configs, unrevoked>>

\* PATCH of a SCIM group: no role is read.
scimPatchGroup(q, u, r) ==
    scim /\ Start(q, [op |-> "group", phase |-> "write", user |-> u, role |-> r])

\* UPDATE memberships: finds nothing if the user is no member.
WriteRole(q) ==
    /\ At(q, {"role", "group"}, "write")
    /\ role' = [role EXCEPT ![job[q].user] = IF @ = "none" THEN @ ELSE job[q].role]
    /\ Done(q)
    /\ UNCHANGED <<accounts, sessions, configs, unrevoked>>

-----------------------------------------------------------------------------
(* Configuration of SCIM and single sign-on, by an administrator *)

Configure == Admins # {} /\ Count /\ UNCHANGED <<accounts, role, sessions, job, unrevoked>>

generateScimToken == Configure /\ scim' = TRUE /\ UNCHANGED sso
revokeScimToken == Configure /\ scim /\ scim' = FALSE /\ UNCHANGED sso
upsertSsoConfig(r, active) ==
    Configure /\ sso' = [role |-> r, active |-> active] /\ UNCHANGED scim
deleteSsoConfig == Configure /\ sso # NoSso /\ sso' = NoSso /\ UNCHANGED scim

\* The process dies, a statement fails, or the identity provider's answer does not
\* verify: what was written stays.
RequestDies(q) ==
    /\ job[q] # Idle
    /\ unrevoked' = IF job[q].phase = "sessions" THEN unrevoked \cup {job[q].user} ELSE unrevoked
    /\ Done(q)
    /\ UNCHANGED <<accounts, role, sessions, configs>>

Next ==
    \/ \E q \in Requests :
          \/ \E u \in Users :
                \/ register(q, u) \/ authenticate(q, u) \/ deactivateUser(q, u) \/ ssoLogin(q, u)
                \/ \E s \in {"active", "inactive"} : scimCreateUser(q, u, s)
                \/ \E active \in BOOLEAN : setActive(q, u, active)
                \/ \E r \in GivenRoles :
                      \/ inviteUser(q, u, r) \/ scimPatchGroup(q, u, r)
                      \/ \E a \in Users : changeRole(q, a, u, r)
          \/ ReadSecret(q) \/ LookUp(q) \/ InsertAccount(q) \/ Join(q)
          \/ createSession(q) \/ SetStatus(q) \/ RevokeSessions(q)
          \/ ReadRole(q) \/ WriteRole(q) \/ RequestDies(q)
    \/ \E s \in sessions : EndSession(s)
    \/ generateScimToken \/ revokeScimToken \/ deleteSsoConfig
    \/ \E r \in GivenRoles, active \in BOOLEAN : upsertSsoConfig(r, active)

Spec == Init /\ [][Next]_vars
-----------------------------------------------------------------------------
NoneOr(S) == S \cup {"none"}

\* Every variable keeps its type.
TypeOK ==
    /\ status \in [Users -> NoneOr(Statuses)]
    /\ role \in [Users -> NoneOr(Roles)]
    /\ passwords \subseteq Users
    /\ homes \subseteq Users
    /\ sessions \subseteq [id : 0 .. MaxRequests, user : Users, late : BOOLEAN]
    /\ scim \in BOOLEAN
    /\ sso \in [role : NoneOr(Roles), active : BOOLEAN]
    /\ begun \in 0 .. MaxRequests
    /\ job \in [Requests -> {Idle}
          \cup [op : Provisioning, phase : {"secret", "look", "insert", "join"}, user : Users,
                role : NoneOr(Roles), status : Statuses]
          \cup [op : {"login"}, phase : {"session"}, user : Users, id : 0 .. MaxRequests]
          \cup [op : {"deactivate", "setActive"}, phase : {"status", "sessions"}, user : Users,
                active : BOOLEAN]
          \cup [op : {"role"}, phase : {"read", "write"}, user : Users, role : Roles,
                actor : Roles, was : NoneOr(Roles)]
          \cup [op : {"group"}, phase : {"write"}, user : Users, role : Roles]]
    /\ unrevoked \subseteq Users

\* A session that still validates although its account is inactive was created by a
\* login that had read the account before it was switched off, or its revocation is
\* under way, or died (users.ts:121-139, scim.ts:97-103, session.ts:56-88, which
\* does not look at the status).
SessionsOutliveOnlyOverlaps ==
    \A s \in sessions :
        validateSession(s) /\ status[s.user] = "inactive" =>
            \/ s.late
            \/ s.user \in unrevoked
            \/ \E q \in Requests :
                  At(q, {"deactivate", "setActive"}, "sessions") /\ job[q].user = s.user

\* An owner loses the role only to somebody who was an owner when the request came
\* in, to the directory (a SCIM group change asks nobody), or to a request that had
\* read the role before it became owner's (users.ts:104-108, "An owner may only be
\* demoted by another owner"; scim.ts:142-154).
OwnersFallToOwners ==
    [][\A u \in Users :
          role[u] = "owner" /\ role'[u] # "owner" =>
              \E q \in Requests :
                  /\ At(q, {"role", "group"}, "write") /\ job[q].user = u /\ job'[q] = Idle
                  /\ job[q].op = "role" => job[q].actor = "owner" \/ job[q].was # "owner"]_vars
=============================================================================
