------------------------------ MODULE Auth0Sync ------------------------------
(***************************************************************************)
(* How the database follows Auth0 (content_services/src/auth0_sync).       *)
(*                                                                         *)
(* Auth0 owns users, organizations and memberships.  Each change of a user *)
(* or a membership emits a signal that names only what changed; the Lambda *)
(* runs one handler per delivery, up to ten at a time, in any order, late  *)
(* or twice.  A handler fetches the current state, opens a session, reads, *)
(* and commits.  A nightly run fetches everything page by page and then    *)
(* corrects the database in one transaction.  Neither holds a lock from    *)
(* its reads to its commit.                                                *)
(*                                                                         *)
(* A profile is its updated_at; team memberships and asset grants of a     *)
(* user in an organization are one local access row, deleted together.     *)
(***************************************************************************)
EXTENDS Naturals, FiniteSets

CONSTANTS User, Org,
          Handler,         (* Lambda invocations that may exist at a time  *)
          MaxActive,       (* handlers and runs active at a time           *)
          Recreate,        (* whether Auth0 gives a deleted user's id out  *)
                           (* again, as it does for a social login         *)
          MaxChanges,      (* bound: changes made in Auth0                 *)
          MaxRedeliveries, (* bound: signals delivered again               *)
          MaxFaults        (* bound: fetches of a run that fail            *)

ASSUME BoundAssumption ==
  /\ {MaxChanges, MaxRedeliveries, MaxFaults, MaxActive} \subseteq Nat
  /\ Recreate \in BOOLEAN

VARIABLES
  aUser,     (* Auth0: aUser[u] is the updated_at of u, 0 if there is none *)
  aOrg,      (* Auth0: organizations                                       *)
  aMember,   (* Auth0: members, pairs of an organization and a user        *)
  stamp,     (* stamp[u]: the last updated_at Auth0 gave to u              *)
  born,      (* organizations that exist or existed: ids are not reused    *)
  dbUser,    (* auth0_updated_at of the row of u, 0 if there is no row     *)
  dbOrg,     (* rows of Organization                                       *)
  dbMember,  (* rows of OrgMembership                                      *)
  dbTeam,    (* organizations that own rows with no ON DELETE, as teams    *)
  access,    (* pairs with TeamMembership or PrimaryAssetRoleGrant rows    *)
  pending,   (* signals not delivered yet                                  *)
  emitted,   (* every signal emitted so far                                *)
  handler,   (* the state of each handler                                  *)
  run,       (* the state of the reconciliation                            *)
  absent,    (* users Auth0 did not have at some time since the run began  *)
  budget     (* changes, redeliveries and faults so far                    *)

auth0 == <<aUser, aOrg, aMember, stamp, born>>
db == <<dbUser, dbOrg, dbMember, dbTeam, access>>
signals == <<pending, emitted>>
vars == <<auth0, db, signals, handler, run, absent, budget>>

-----------------------------------------------------------------------------
UserSignal(u) == [kind |-> "user", user |-> u]
DeleteSignal(u) == [kind |-> "delete", user |-> u]
MemberSignal(o, u) == [kind |-> "member", user |-> u, org |-> o]

Signal == {UserSignal(u) : u \in User} \union {DeleteSignal(u) : u \in User}
          \union {MemberSignal(p[1], p[2]) : p \in Org \X User}

Version == 0 .. MaxChanges + 1

Idle == [pc |-> "idle"]
NoRun == [pc |-> "idle"]

Active == {h \in Handler : handler[h] # Idle}
Room == Cardinality(Active) + (IF run = NoRun THEN 0 ELSE 1) < MaxActive

InAuth0 == {u \in User : aUser[u] # 0}
InDb == {u \in User : dbUser[u] # 0}
Pairs(o) == {o} \X User
Of(u) == Org \X {u}

(* The database follows Auth0, and they agree.                             *)
Init ==
  /\ \E us \in SUBSET User :
       aUser = [u \in User |-> IF u \in us THEN 1 ELSE 0]
  /\ stamp = aUser
  /\ aOrg \in SUBSET Org /\ born = aOrg
  /\ aMember \in SUBSET (aOrg \X InAuth0)
  /\ dbUser = aUser /\ dbOrg = aOrg /\ dbMember = aMember
  /\ dbTeam = {} /\ access = {}
  /\ pending = {} /\ emitted = {}
  /\ handler = [h \in Handler |-> Idle]
  /\ run = NoRun
  /\ absent = {}
  /\ budget = [changes |-> 0, redeliveries |-> 0, faults |-> 0]

Spend(what, bound) ==
  /\ budget[what] < bound
  /\ budget' = [budget EXCEPT ![what] = @ + 1]

-----------------------------------------------------------------------------
(* Auth0, an external service: what its administrators and users change,   *)
(* and the log events the pipeline forwards.  Deleting a user or an        *)
(* organization ends its memberships with no event of their own; no event  *)
(* of an organization is handled.                                          *)

Emit(s) == pending' = pending \union {s} /\ emitted' = emitted \union {s}

SaveUser(u) ==
  /\ Spend("changes", MaxChanges)
  /\ aUser[u] = 0 /\ stamp[u] # 0 => Recreate
  /\ stamp' = [stamp EXCEPT ![u] = @ + 1]
  /\ aUser' = [aUser EXCEPT ![u] = stamp[u] + 1]
  /\ Emit(UserSignal(u))
  /\ UNCHANGED <<aOrg, aMember, born, db, handler, run, absent>>

DeleteUser(u) ==
  /\ Spend("changes", MaxChanges)
  /\ aUser[u] # 0
  /\ aUser' = [aUser EXCEPT ![u] = 0]
  /\ aMember' = aMember \ Of(u)
  /\ absent' = IF run = NoRun THEN {} ELSE absent \union {u}
  /\ Emit(DeleteSignal(u))
  /\ UNCHANGED <<aOrg, stamp, born, db, handler, run>>

CreateOrg(o) ==
  /\ Spend("changes", MaxChanges)
  /\ o \notin born
  /\ aOrg' = aOrg \union {o} /\ born' = born \union {o}
  /\ UNCHANGED <<aUser, aMember, stamp, db, signals, handler, run, absent>>

DeleteOrg(o) ==
  /\ Spend("changes", MaxChanges)
  /\ o \in aOrg
  /\ aOrg' = aOrg \ {o} /\ aMember' = aMember \ Pairs(o)
  /\ UNCHANGED <<aUser, stamp, born, db, signals, handler, run, absent>>

AddMember(o, u) ==
  /\ Spend("changes", MaxChanges)
  /\ o \in aOrg /\ aUser[u] # 0 /\ <<o, u>> \notin aMember
  /\ aMember' = aMember \union {<<o, u>>}
  /\ Emit(MemberSignal(o, u))
  /\ UNCHANGED <<aUser, aOrg, stamp, born, db, handler, run, absent>>

RemoveMember(o, u) ==
  /\ Spend("changes", MaxChanges)
  /\ <<o, u>> \in aMember
  /\ aMember' = aMember \ {<<o, u>>}
  /\ Emit(MemberSignal(o, u))
  /\ UNCHANGED <<aUser, aOrg, stamp, born, db, handler, run, absent>>

(* The backend puts a member of the organization into one of its teams.    *)
GrantAccess(o, u) ==
  /\ <<o, u>> \in dbMember \ access
  /\ access' = access \union {<<o, u>>}
  /\ dbTeam' = dbTeam \union {o}
  /\ UNCHANGED <<auth0, dbUser, dbOrg, dbMember, signals, handler, run, absent,
                 budget>>

-----------------------------------------------------------------------------
(* process_auth0_event: one handler per delivery.                          *)

Pick(h, s) ==
  /\ handler[h] = Idle /\ Room
  /\ handler' = [handler EXCEPT ![h] = [pc |-> "fetch", signal |-> s]]
  /\ UNCHANGED <<auth0, db, emitted, run, absent>>

Deliver(h, s) ==
  /\ s \in pending
  /\ pending' = pending \ {s}
  /\ Pick(h, s)
  /\ UNCHANGED budget

(* EventBridge and Lambda deliver at least once, and the event of a        *)
(* deletion is logged both as sdu and as sapi.                             *)
Redeliver(h, s) ==
  /\ s \in emitted \ pending
  /\ Spend("redeliveries", MaxRedeliveries)
  /\ Pick(h, s)
  /\ UNCHANGED pending

At(h, pc, kind) ==
  /\ handler[h] # Idle
  /\ handler[h].pc = pc /\ handler[h].signal.kind = kind

Finish(h) == handler' = [handler EXCEPT ![h] = Idle]

(* Mutant of DropUsers: the memberships have no ON DELETE CASCADE.         *)
DropUsersAccess(us) ==
  /\ access' = access \ (Org \X us)
  /\ UNCHANGED dbMember

(* The rows of a user the database cascades a deletion to.                 *)
DropUsers(us) ==
  /\ dbMember' = dbMember \ (Org \X us)
  /\ access' = access \ (Org \X us)

(* _process_user_update: fetch the profile; a user that is gone is         *)
(* skipped.                                                                *)
FetchUser(h) ==
  /\ At(h, "fetch", "user")
  /\ LET u == handler[h].signal.user IN
     IF aUser[u] = 0 THEN Finish(h)
     ELSE handler' = [handler EXCEPT ![h] =
            [pc |-> "read", signal |-> UserSignal(u), profile |-> aUser[u]]]
  /\ UNCHANGED <<auth0, db, signals, run, absent, budget>>

ReadUser(h) ==
  /\ At(h, "read", "user")
  /\ handler' = [handler EXCEPT ![h] =
       [pc |-> "write", signal |-> @.signal, profile |-> @.profile,
        seen |-> dbUser[@.signal.user]]]
  /\ UNCHANGED <<auth0, db, signals, run, absent, budget>>

(* Mutants of Upserted: no timestamp guard; ON CONFLICT DO NOTHING.        *)
UpsertedUnguarded(row, seen, profile) ==
  IF (seen = 0) = (row = 0) /\ profile # 0 THEN profile ELSE row

UpsertedOnce(row, seen, profile) ==
  IF seen = 0 /\ row = 0 THEN profile ELSE row

(* The row _upsert_user leaves, given the row it read.  The insert of a    *)
(* row that appeared since and the update of one that went fail; with an   *)
(* equal stamp no column changes, so no UPDATE is issued.                  *)
Upserted(row, seen, profile) ==
  IF (seen = 0) = (row = 0) /\ profile > seen THEN profile ELSE row

WriteUser(h) ==
  /\ At(h, "write", "user")
  /\ LET u == handler[h].signal.user IN
     dbUser' = [dbUser EXCEPT ![u] =
                  Upserted(@, handler[h].seen, handler[h].profile)]
  /\ Finish(h)
  /\ UNCHANGED <<auth0, dbOrg, dbMember, dbTeam, access, signals, run, absent,
                 budget>>

(* _handle_user_delete_event: the row is deleted on the word of the event. *)
DeleteUserRow(h) ==
  /\ At(h, "fetch", "delete")
  /\ dbUser' = [dbUser EXCEPT ![handler[h].signal.user] = 0]
  /\ DropUsers({handler[h].signal.user})
  /\ Finish(h)
  /\ UNCHANGED <<auth0, dbOrg, dbTeam, signals, run, absent, budget>>

(* _process_membership_change: fetch the organizations of the user; read   *)
(* the rows, and fetch the user or organization a member needs; commit.    *)
FetchMember(h) ==
  /\ At(h, "fetch", "member")
  /\ LET s == handler[h].signal IN
     IF aUser[s.user] = 0 THEN Finish(h)
     ELSE handler' = [handler EXCEPT ![h] =
            [pc |-> "read", signal |-> s,
             member |-> <<s.org, s.user>> \in aMember]]
  /\ UNCHANGED <<auth0, db, signals, run, absent, budget>>

ReadMember(h) ==
  /\ At(h, "read", "member")
  /\ LET s == handler[h].signal
         member == handler[h].member
         noUser == member /\ dbUser[s.user] = 0
         noOrg == member /\ s.org \notin dbOrg
     IN IF (noUser /\ aUser[s.user] = 0) \/ (noOrg /\ s.org \notin aOrg)
        THEN Finish(h)
        ELSE handler' = [handler EXCEPT ![h] =
               [pc |-> "write", signal |-> s, member |-> member,
                newUser |-> IF noUser THEN aUser[s.user] ELSE 0,
                newOrg |-> noOrg,
                had |-> <<s.org, s.user>> \in dbMember]]
  /\ UNCHANGED <<auth0, db, signals, run, absent, budget>>

(* Mutant of AddMembership: no backfill of a missing user.                 *)
AddMembershipOfKnownUser(h) ==
  LET w == handler[h]  o == w.signal.org  u == w.signal.user IN
  /\ At(h, "write", "member") /\ w.member /\ ~w.had
  /\ Finish(h)
  /\ IF dbUser[u] # 0 /\ aUser[u] # 0 /\ <<o, u>> \notin dbMember
     THEN /\ dbOrg' = dbOrg \union {o}
          /\ dbMember' = dbMember \union {<<o, u>>}
     ELSE UNCHANGED <<dbOrg, dbMember>>
  /\ UNCHANGED <<auth0, dbUser, dbTeam, access, signals, run, absent, budget>>

(* The member's profile is fetched for its role; a row that appeared or    *)
(* went since the reads breaks a constraint and the commit fails.          *)
AddMembership(h) ==
  LET w == handler[h]  o == w.signal.org  u == w.signal.user IN
  /\ At(h, "write", "member") /\ w.member /\ ~w.had
  /\ Finish(h)
  /\ IF /\ aUser[u] # 0
        /\ (w.newUser # 0) = (dbUser[u] = 0)
        /\ w.newOrg = (o \notin dbOrg)
        /\ <<o, u>> \notin dbMember
     THEN /\ dbUser' = IF w.newUser = 0 THEN dbUser
                       ELSE [dbUser EXCEPT ![u] = w.newUser]
          /\ dbOrg' = dbOrg \union {o}
          /\ dbMember' = dbMember \union {<<o, u>>}
     ELSE UNCHANGED <<dbUser, dbOrg, dbMember>>
  /\ UNCHANGED <<auth0, dbTeam, access, signals, run, absent, budget>>

RemoveMembership(h) ==
  LET w == handler[h]  pair == <<w.signal.org, w.signal.user>> IN
  /\ At(h, "write", "member") /\ ~w.member /\ w.had
  /\ Finish(h)
  /\ dbMember' = dbMember \ {pair}
  /\ access' = access \ {pair}
  /\ UNCHANGED <<auth0, dbUser, dbOrg, dbTeam, signals, run, absent, budget>>

KeepMembership(h) ==
  /\ At(h, "write", "member") /\ handler[h].member = handler[h].had
  /\ Finish(h)
  /\ UNCHANGED <<auth0, db, signals, run, absent, budget>>

HandlerStep(h) ==
  \/ FetchUser(h) \/ ReadUser(h) \/ WriteUser(h)
  \/ DeleteUserRow(h)
  \/ FetchMember(h) \/ ReadMember(h)
  \/ AddMembership(h) \/ RemoveMembership(h) \/ KeepMembership(h)

-----------------------------------------------------------------------------
(* Auth0Sync.run: the nightly reconciliation.                              *)

(* What a paginated fetch of the set S returns: all of it, or what came    *)
(* before the page that failed, and an entry in stats["errors"].           *)
Fetched(S, got, failed) ==
  IF failed THEN got \in SUBSET S /\ Spend("faults", MaxFaults)
  ELSE got = S /\ UNCHANGED budget

FetchOrgs ==
  \E failed \in BOOLEAN, got \in SUBSET Org :
    /\ run = NoRun /\ Room
    /\ Fetched(aOrg, got, failed)
    /\ run' = [pc |-> "users", orgs |-> got, errors |-> failed]
    /\ absent' = User \ InAuth0
    /\ UNCHANGED <<auth0, db, signals, handler>>

FetchUsers ==
  \E failed \in BOOLEAN, got \in SUBSET User :
    /\ run.pc = "users"
    /\ Fetched(InAuth0, got, failed)
    /\ run' = [pc |-> "members", orgs |-> run.orgs,
               users |-> [u \in User |-> IF u \in got THEN aUser[u] ELSE 0],
               left |-> got, members |-> {},
               errors |-> run.errors \/ failed]
    /\ UNCHANGED <<auth0, db, signals, handler, absent>>

(* The organizations of one user of the list; a user that is gone by now   *)
(* is an error.                                                            *)
FetchMembers(u) ==
  \E failed \in BOOLEAN, got \in SUBSET Of(u) :
    /\ run.pc = "members" /\ u \in run.left
    /\ Fetched(aMember \cap Of(u), got, failed)
    /\ run' = [run EXCEPT !.left = @ \ {u}, !.members = @ \union got,
                          !.errors = @ \/ failed \/ aUser[u] = 0]
    /\ UNCHANGED <<auth0, db, signals, handler, absent>>

Fetching == run.pc = "members" /\ run.left # {}
(* Mutant of Complete: the run goes on after a failed fetch.               *)
CompleteDespiteErrors == run.orgs # {} /\ \E u \in User : run.users[u] # 0

Complete == ~run.errors /\ run.orgs # {} /\ \E u \in User : run.users[u] # 0

EndRun == run' = NoRun /\ absent' = {}

Abort ==
  /\ run.pc = "members" /\ ~Fetching
  /\ ~Complete
  /\ EndRun
  /\ UNCHANGED <<auth0, db, signals, handler, budget>>

(* The transaction opens: the rows the sync_ methods find.                 *)
ReadRows ==
  /\ run.pc = "members" /\ ~Fetching
  /\ Complete
  /\ run' = [pc |-> "write", orgs |-> run.orgs, users |-> run.users,
             members |-> run.members,
             seen |-> dbUser, newOrgs |-> run.orgs \ dbOrg,
             newMembers |-> run.members \ dbMember]
  /\ UNCHANGED <<auth0, db, signals, handler, absent, budget>>

(* The rows of users after sync_user, whose guard is the same as that of   *)
(* the handlers.                                                           *)
SyncedUsers == [u \in User |-> Upserted(dbUser[u], run.seen[u], run.users[u])]

(* The transaction breaks no constraint: no inserted row exists by now, no *)
(* updated row is gone, memberships have their user and organization, and  *)
(* no organization to be deleted owns a team.                              *)
Commits ==
  /\ \A u \in User :
       run.users[u] > run.seen[u] => (run.seen[u] = 0) = (dbUser[u] = 0)
  /\ run.newOrgs \cap dbOrg = {}
  /\ run.newMembers \cap dbMember = {}
  /\ run.newMembers \subseteq
       (dbOrg \union run.orgs) \X {u \in User : SyncedUsers[u] # 0}
  /\ dbTeam \cap dbOrg \subseteq run.orgs

(* Upserts, then delete_stale_memberships, _users and _organizations, which*)
(* read their tables again; deletions cascade.                             *)
Commit ==
  /\ run.pc = "write"
  /\ Commits
  /\ LET gone == {u \in User : run.users[u] = 0} IN
     /\ dbUser' = [u \in User |-> IF u \in gone THEN 0 ELSE SyncedUsers[u]]
     /\ dbOrg' = run.orgs
     /\ dbMember' = ((dbMember \union run.newMembers) \cap run.members)
                    \cap (run.orgs \X (User \ gone))
     /\ access' = access \ (Org \X gone)
  /\ EndRun
  /\ UNCHANGED <<auth0, dbTeam, signals, handler, budget>>

Rollback ==
  /\ run.pc = "write"
  /\ ~Commits
  /\ EndRun
  /\ UNCHANGED <<auth0, db, signals, handler, budget>>

RunStep ==
  \/ FetchOrgs \/ FetchUsers \/ (\E u \in User : FetchMembers(u))
  \/ Abort \/ ReadRows \/ Commit \/ Rollback

-----------------------------------------------------------------------------
Auth0Step ==
  \/ \E u \in User : SaveUser(u) \/ DeleteUser(u)
  \/ \E o \in Org : CreateOrg(o) \/ DeleteOrg(o)
  \/ \E o \in Org, u \in User : AddMember(o, u) \/ RemoveMember(o, u)

Next ==
  \/ Auth0Step
  \/ \E o \in Org, u \in User : GrantAccess(o, u)
  \/ \E h \in Handler, s \in emitted : Deliver(h, s) \/ Redeliver(h, s)
  \/ \E h \in Handler : HandlerStep(h)
  \/ RunStep

Spec == Init /\ [][Next]_vars

(* A handler that was started ends, and the reconciliation is run every    *)
(* night.  No signal has to be delivered: the queue loses some.            *)
FairSpec ==
  /\ Spec
  /\ \A h \in Handler : WF_vars(HandlerStep(h))
  /\ WF_vars(RunStep)

-----------------------------------------------------------------------------
(* Properties.                                                             *)

(* Types, and the foreign keys of the schema.                              *)
TypeOK ==
  /\ aUser \in [User -> Version] /\ stamp \in [User -> Version]
  /\ aOrg \subseteq born /\ born \subseteq Org
  /\ aMember \subseteq aOrg \X InAuth0
  /\ dbUser \in [User -> Version]
  /\ dbOrg \subseteq Org
  /\ dbMember \subseteq dbOrg \X InDb
  /\ access \subseteq dbTeam \X InDb
  /\ pending \subseteq emitted /\ emitted \subseteq Signal
  /\ absent \subseteq User
  /\ \A h \in Handler : handler[h] # Idle => handler[h].signal \in emitted

(* The guard is sound for what was read: a profile is replaced by an older *)
(* one only by a lost update, when the row changed after its writer had    *)
(* read it; fetching early or late never does it.                          *)
OlderOnlyByLostUpdate ==
  [][\A u \in User :
       dbUser[u] # 0 /\ dbUser'[u] # 0 /\ dbUser'[u] < dbUser[u] =>
         \/ Commit /\ run.seen[u] # dbUser[u]
         \/ \E h \in Handler : WriteUser(h) /\ handler[h].seen # dbUser[u]]_vars

(* A run deletes a user only if Auth0 really lacked it at some time during *)
(* that run, whatever fetches failed: a partial list never deletes anyone. *)
GroundedDeletes ==
  [][Commit => \A u \in User : dbUser[u] # 0 /\ dbUser'[u] = 0 => u \in absent]_vars

(* When every signal has been delivered and every handler is done, users   *)
(* and memberships agree: no change of Auth0, wherever it falls between a  *)
(* fetch and a commit, is missed or undone by the signals of earlier ones. *)
QuietInSync ==
  pending = {} /\ Active = {} /\ run = NoRun =>
    dbUser = aUser /\ dbMember \cap (aOrg \X User) = aMember

InSync == dbUser = aUser /\ dbOrg = aOrg /\ dbMember = aMember

(* Once Auth0 rests, the nightly run brings the database to its state,     *)
(* whatever was lost, late, repeated or raced before: provided that Auth0  *)
(* has a user and an organization left and kept those that own teams here. *)
ConvergesIfDeletable ==
  <>[](InAuth0 # {} /\ aOrg # {} /\ dbTeam \cap dbOrg \subseteq aOrg) => <>[]InSync
=============================================================================
