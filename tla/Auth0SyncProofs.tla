--------------------------- MODULE Auth0SyncProofs ----------------------------
(***************************************************************************)
(* Theorems about Auth0Sync, for any users, organizations, handlers and    *)
(* bounds.                                                                 *)
(***************************************************************************)
EXTENDS Auth0Sync, FiniteSetTheorems, TLAPS

(* Auth0 gives a user a stamp with every change, and stamps are bounded by *)
(* the changes.                                                            *)
Stamps ==
  /\ budget \in [changes : Nat, redeliveries : Nat, faults : Nat]
  /\ budget.changes <= MaxChanges
  /\ aUser \in [User -> Nat] /\ stamp \in [User -> Nat]
  /\ \A u \in User : aUser[u] \in {0, stamp[u]} /\ stamp[u] <= budget.changes + 1

(* The memberships of Auth0 have their organization and user.              *)
Members ==
  /\ aOrg \subseteq born /\ born \subseteq Org
  /\ aMember \subseteq aOrg \X InAuth0

(* What is on the way to a handler, or with one.                           *)
Signals ==
  /\ pending \subseteq emitted /\ emitted \subseteq Signal
  /\ \A h \in Handler : handler[h] # Idle => handler[h].signal \in emitted

(* What a handler keeps between its steps.                                 *)
HandlerState ==
  {Idle} \cup [pc : {"fetch"}, signal : Signal]
  \cup [pc : {"read"}, signal : Signal, profile : Version]
  \cup [pc : {"write"}, signal : Signal, profile : Version, seen : Version]
  \cup [pc : {"read"}, signal : Signal, member : BOOLEAN]
  \cup [pc : {"write"}, signal : Signal, member : BOOLEAN, newUser : Version,
        newOrg : BOOLEAN, had : BOOLEAN]

Handlers ==
  /\ handler \in [Handler -> HandlerState]
  /\ \A h \in Handler : At(h, "read", "user") => handler[h].profile \in Version
  /\ \A h \in Handler : At(h, "write", "user") =>
       handler[h].profile \in Version /\ handler[h].seen \in Version
  /\ \A h \in Handler : At(h, "read", "member") => handler[h].member \in BOOLEAN
  /\ \A h \in Handler : At(h, "write", "member") =>
       /\ handler[h].newUser \in Version
       /\ {handler[h].member, handler[h].newOrg, handler[h].had} \subseteq BOOLEAN

(* What the reconciliation keeps between its steps.                        *)
UsersRun == [pc : {"users"}, orgs : SUBSET Org, errors : BOOLEAN]

MembersRun ==
  [pc : {"members"}, orgs : SUBSET Org, users : [User -> Version],
   left : SUBSET User, members : SUBSET (Org \X User), errors : BOOLEAN]

WriteRun ==
  [pc : {"write"}, orgs : SUBSET Org, users : [User -> Version],
   members : SUBSET (Org \X User), seen : [User -> Version],
   newOrgs : SUBSET Org, newMembers : SUBSET (Org \X User)]

Running ==
  run \in {NoRun} \cup UsersRun \cup MembersRun \cup WriteRun

(* The rows, and the foreign keys between them.                            *)
DbKeys ==
  /\ dbUser \in [User -> Version] /\ dbOrg \subseteq Org
  /\ dbMember \subseteq dbOrg \X InDb
  /\ access \subseteq dbTeam \X InDb

Teams == dbTeam \subseteq Org

(* Whoever Auth0 lacks now, or lacked when the run fetched the users, it   *)
(* has lacked during the run.                                              *)
Absence ==
  /\ absent \subseteq User
  /\ run # NoRun => \A u \in User : aUser[u] = 0 => u \in absent
  /\ run.pc = "members" /\ ~run.errors => \A u \in User : run.users[u] = 0 => u \in absent
  /\ run.pc = "write" => \A u \in User : run.users[u] = 0 => u \in absent

IInv == Stamps /\ Members /\ Signals /\ Handlers /\ Running /\ DbKeys /\ Teams /\ Absence

------------------------------------------------------------------------------
(* A signal is one of a user, of a deletion or of a membership.            *)
LEMMA SignalForms ==
  ASSUME NEW s \in Signal
  PROVE /\ s.user \in User /\ s.kind \in {"user", "delete", "member"}
        /\ s.kind = "user" => s = UserSignal(s.user)
        /\ s.kind = "delete" => s = DeleteSignal(s.user)
        /\ s.kind = "member" => s.org \in Org /\ s = MemberSignal(s.org, s.user)
<1>1. CASE s \in {UserSignal(u) : u \in User}
  BY <1>1 DEF UserSignal
<1>2. CASE s \in {DeleteSignal(u) : u \in User}
  BY <1>2 DEF DeleteSignal
<1>3. CASE s \in {MemberSignal(p[1], p[2]) : p \in Org \X User}
  BY <1>3 DEF MemberSignal
<1> QED
  BY <1>1, <1>2, <1>3 DEF Signal

LEMMA SignalsAre ==
  ASSUME NEW u \in User
  PROVE /\ UserSignal(u) \in Signal /\ DeleteSignal(u) \in Signal
        /\ \A o \in Org : MemberSignal(o, u) \in Signal
<1>1. \A o \in Org : MemberSignal(o, u) \in Signal
  <2> TAKE o \in Org
  <2>1. <<o, u>> \in Org \X User /\ <<o, u>>[1] = o /\ <<o, u>>[2] = u
    OBVIOUS
  <2> QED
    BY <2>1 DEF Signal
<1> QED
  BY <1>1 DEF Signal

(* A redelivery or a fault spends no change.                               *)
LEMMA NoChangeSpent ==
  ASSUME NEW what \in {"redeliveries", "faults"}, NEW bound,
         Stamps, Spend(what, bound), UNCHANGED <<aUser, stamp>>
  PROVE  Stamps'
<1> DEFINE more == budget[what] + 1
<1>0. more \in Nat
  BY DEF Stamps
<1> HIDE DEF more
<1>1. budget' = [budget EXCEPT ![what] = more]
  BY DEF Spend, more
<1>2. budget' \in [changes : Nat, redeliveries : Nat, faults : Nat]
  BY <1>0, <1>1 DEF Stamps
<1>3. budget'.changes = budget.changes
  BY <1>1 DEF Stamps
<1> QED
  BY <1>2, <1>3 DEF Stamps

LEMMA StampsAreVersions ==
  Stamps => aUser \in [User -> Version] /\ stamp \in [User -> Version]
BY BoundAssumption DEF Stamps, Version

LEMMA StampsNext == IInv /\ [Next]_vars => Stamps'
<1> SUFFICES ASSUME IInv, [Next]_vars PROVE Stamps'
  OBVIOUS
<1>0. Stamps
  BY DEF IInv
<1>1. ASSUME UNCHANGED <<budget, aUser, stamp>> PROVE Stamps'
  BY <1>0, <1>1 DEF Stamps
<1>2. ASSUME NEW u \in User, SaveUser(u) PROVE Stamps'
  BY <1>0, <1>2, BoundAssumption DEF Stamps, SaveUser, Spend, Emit
<1>3. ASSUME NEW u \in User, DeleteUser(u) PROVE Stamps'
  BY <1>0, <1>3, BoundAssumption DEF Stamps, DeleteUser, Spend, Emit, Of
<1>4. ASSUME NEW o \in Org, CreateOrg(o) PROVE Stamps'
  BY <1>0, <1>4, BoundAssumption DEF Stamps, CreateOrg, Spend
<1>5. ASSUME NEW o \in Org, DeleteOrg(o) PROVE Stamps'
  BY <1>0, <1>5, BoundAssumption DEF Stamps, DeleteOrg, Spend, Pairs
<1>6. ASSUME NEW o \in Org, NEW u \in User, AddMember(o, u) PROVE Stamps'
  BY <1>0, <1>6, BoundAssumption DEF Stamps, AddMember, Spend, Emit
<1>7. ASSUME NEW o \in Org, NEW u \in User, RemoveMember(o, u) PROVE Stamps'
  BY <1>0, <1>7, BoundAssumption DEF Stamps, RemoveMember, Spend, Emit
<1>8. ASSUME NEW h \in Handler, NEW s \in emitted, Redeliver(h, s) PROVE Stamps'
  BY <1>0, <1>8, NoChangeSpent DEF Redeliver, Pick, auth0
<1>9. ASSUME FetchOrgs PROVE Stamps'
  <2>1. UNCHANGED <<aUser, stamp>>
    BY <1>9 DEF FetchOrgs, auth0
  <2>2. UNCHANGED budget \/ Spend("faults", MaxFaults)
    BY <1>9 DEF FetchOrgs, Fetched
  <2>3. CASE UNCHANGED budget
    BY <1>0, <2>1, <2>3 DEF Stamps
  <2>4. CASE Spend("faults", MaxFaults)
    BY <1>0, <2>1, <2>4, NoChangeSpent
  <2> QED
    BY <2>2, <2>3, <2>4
<1>10. ASSUME FetchUsers PROVE Stamps'
  <2>1. UNCHANGED <<aUser, stamp>>
    BY <1>10 DEF FetchUsers, auth0
  <2>2. UNCHANGED budget \/ Spend("faults", MaxFaults)
    BY <1>10 DEF FetchUsers, Fetched
  <2>3. CASE UNCHANGED budget
    BY <1>0, <2>1, <2>3 DEF Stamps
  <2>4. CASE Spend("faults", MaxFaults)
    BY <1>0, <2>1, <2>4, NoChangeSpent
  <2> QED
    BY <2>2, <2>3, <2>4
<1>11. ASSUME NEW u \in User, FetchMembers(u) PROVE Stamps'
  <2>1. UNCHANGED <<aUser, stamp>>
    BY <1>11 DEF FetchMembers, auth0
  <2>2. UNCHANGED budget \/ Spend("faults", MaxFaults)
    BY <1>11 DEF FetchMembers, Fetched
  <2>3. CASE UNCHANGED budget
    BY <1>0, <2>1, <2>3 DEF Stamps
  <2>4. CASE Spend("faults", MaxFaults)
    BY <1>0, <2>1, <2>4, NoChangeSpent
  <2> QED
    BY <2>2, <2>3, <2>4
<1>12. ASSUME Auth0Step PROVE Stamps'
  BY <1>2, <1>3, <1>4, <1>5, <1>6, <1>7, <1>12 DEF Auth0Step
<1>13. ASSUME NEW o \in Org, NEW u \in User,
            GrantAccess(o, u)
      PROVE  Stamps'
  BY <1>1, <1>13 DEF GrantAccess, auth0, db, signals
<1>14. ASSUME NEW h \in Handler, NEW s \in emitted,
            Deliver(h, s) \/ Redeliver(h, s)
      PROVE  Stamps'
  BY <1>1, <1>8, <1>14 DEF Deliver, Pick, auth0, db, signals
<1>15. ASSUME NEW h \in Handler,
            HandlerStep(h)
      PROVE  Stamps'
  BY <1>1, <1>15 DEF HandlerStep, FetchUser, ReadUser, WriteUser,
     DeleteUserRow, FetchMember, ReadMember, AddMembership, RemoveMembership,
     KeepMembership, auth0, db, signals
<1>16. ASSUME RunStep PROVE Stamps'
  BY <1>1, <1>9, <1>10, <1>11, <1>16 DEF RunStep, Abort, ReadRows, Commit,
     Rollback, EndRun, auth0, db, signals
<1> QED
  BY <1>1, <1>12, <1>13, <1>14, <1>15, <1>16 DEF Next, vars, auth0, db,
     signals

LEMMA MembersNext == IInv /\ [Next]_vars => Members'
<1> SUFFICES ASSUME IInv, [Next]_vars PROVE Members'
  OBVIOUS
<1>0. Stamps /\ Members
  BY DEF IInv
<1>1. ASSUME UNCHANGED <<aOrg, born, aMember, aUser>> PROVE Members'
  BY <1>0, <1>1 DEF Members, InAuth0
<1>2. ASSUME NEW u \in User, SaveUser(u) PROVE Members'
  BY <1>0, <1>2 DEF Members, SaveUser, Spend, Emit, InAuth0, Stamps
<1>3. ASSUME NEW u \in User, DeleteUser(u) PROVE Members'
  BY <1>0, <1>3 DEF Members, DeleteUser, Spend, Emit, Of, InAuth0, Stamps
<1>4. ASSUME NEW o \in Org, CreateOrg(o) PROVE Members'
  BY <1>0, <1>4 DEF Members, CreateOrg, Spend, InAuth0, Stamps
<1>5. ASSUME NEW o \in Org, DeleteOrg(o) PROVE Members'
  BY <1>0, <1>5 DEF Members, DeleteOrg, Spend, Pairs, InAuth0, Stamps
<1>6. ASSUME NEW o \in Org, NEW u \in User, AddMember(o, u) PROVE Members'
  BY <1>0, <1>6 DEF Members, AddMember, Spend, Emit, InAuth0, Stamps
<1>7. ASSUME NEW o \in Org, NEW u \in User, RemoveMember(o, u) PROVE Members'
  BY <1>0, <1>7 DEF Members, RemoveMember, Spend, Emit, InAuth0, Stamps
<1>8. ASSUME Auth0Step PROVE Members'
  BY <1>2, <1>3, <1>4, <1>5, <1>6, <1>7, <1>8 DEF Auth0Step
<1>9. ASSUME NEW o \in Org, NEW u \in User,
            GrantAccess(o, u)
      PROVE  Members'
  BY <1>1, <1>9 DEF GrantAccess, auth0, db, signals
<1>10. ASSUME NEW h \in Handler, NEW s \in emitted,
            Deliver(h, s) \/ Redeliver(h, s)
      PROVE  Members'
  BY <1>1, <1>10 DEF Deliver, Redeliver, Pick, auth0, db, signals
<1>11. ASSUME NEW h \in Handler,
            HandlerStep(h)
      PROVE  Members'
  BY <1>1, <1>11 DEF HandlerStep, FetchUser, ReadUser, WriteUser,
     DeleteUserRow, FetchMember, ReadMember, AddMembership, RemoveMembership,
     KeepMembership, auth0, db, signals
<1>12. ASSUME RunStep PROVE Members'
  BY <1>1, <1>12 DEF RunStep, FetchOrgs, FetchUsers, FetchMembers, Abort,
     ReadRows, Commit, Rollback, EndRun, auth0, db, signals
<1> QED
  BY <1>1, <1>8, <1>9, <1>10, <1>11, <1>12 DEF Next, vars, auth0, db, signals

(* A handler keeps the signal it was started with.                         *)
LEMMA SignalsNext == IInv /\ [Next]_vars => Signals'
<1> SUFFICES ASSUME IInv, [Next]_vars PROVE Signals'
  OBVIOUS
<1>0. Signals /\ DOMAIN handler = Handler
  BY DEF IInv, Handlers
<1>1. ASSUME UNCHANGED <<pending, emitted, handler>> PROVE Signals'
  BY <1>0, <1>1 DEF Signals
<1>2. ASSUME NEW u \in User, SaveUser(u) PROVE Signals'
  BY <1>0, <1>2, SignalsAre DEF Signals, SaveUser, Emit
<1>3. ASSUME NEW u \in User, DeleteUser(u) PROVE Signals'
  BY <1>0, <1>3, SignalsAre DEF Signals, DeleteUser, Emit, Of
<1>4. ASSUME NEW o \in Org, NEW u \in User, AddMember(o, u) PROVE Signals'
  BY <1>0, <1>4, SignalsAre DEF Signals, AddMember, Emit
<1>5. ASSUME NEW o \in Org, NEW u \in User, RemoveMember(o, u) PROVE Signals'
  BY <1>0, <1>5, SignalsAre DEF Signals, RemoveMember, Emit
<1>6. ASSUME NEW h \in Handler, NEW s \in emitted, Deliver(h, s) PROVE Signals'
  BY <1>0, <1>6 DEF Signals, Deliver, Pick
<1>7. ASSUME NEW h \in Handler, NEW s \in emitted, Redeliver(h, s) PROVE Signals'
  BY <1>0, <1>7 DEF Signals, Redeliver, Pick
<1>8. ASSUME NEW h \in Handler, FetchUser(h) PROVE Signals'
  <2>1. handler[h].signal \in Signal /\ handler[h].signal.kind = "user"
    BY <1>0, <1>8 DEF Signals, FetchUser, At
  <2>2. UserSignal(handler[h].signal.user) = handler[h].signal
    BY <2>1, SignalForms
  <2> QED
    BY <1>0, <1>8, <2>2 DEF Signals, FetchUser, Finish, At, signals
<1>9. ASSUME NEW h \in Handler, ReadUser(h) PROVE Signals'
  BY <1>0, <1>9 DEF Signals, ReadUser, At, signals
<1>10. ASSUME NEW h \in Handler, WriteUser(h) PROVE Signals'
  BY <1>0, <1>10 DEF Signals, WriteUser, Finish, At, signals
<1>11. ASSUME NEW h \in Handler, DeleteUserRow(h) PROVE Signals'
  BY <1>0, <1>11 DEF Signals, DeleteUserRow, Finish, At, signals
<1>12. ASSUME NEW h \in Handler, FetchMember(h) PROVE Signals'
  BY <1>0, <1>12 DEF Signals, FetchMember, Finish, At, signals
<1>13. ASSUME NEW h \in Handler, ReadMember(h) PROVE Signals'
  BY <1>0, <1>13 DEF Signals, ReadMember, Finish, At, signals
<1>14. ASSUME NEW h \in Handler, AddMembership(h) PROVE Signals'
  BY <1>0, <1>14 DEF Signals, AddMembership, Finish, At, signals
<1>15. ASSUME NEW h \in Handler, RemoveMembership(h) PROVE Signals'
  BY <1>0, <1>15 DEF Signals, RemoveMembership, Finish, At, signals
<1>16. ASSUME NEW h \in Handler, KeepMembership(h) PROVE Signals'
  BY <1>0, <1>16 DEF Signals, KeepMembership, Finish, At, signals
<1>17. ASSUME Auth0Step PROVE Signals'
  BY <1>1, <1>2, <1>3, <1>4, <1>5, <1>17 DEF Auth0Step, CreateOrg, DeleteOrg,
     Emit, auth0, db, signals
<1>18. ASSUME NEW o \in Org, NEW u \in User,
            GrantAccess(o, u)
      PROVE  Signals'
  BY <1>1, <1>18 DEF GrantAccess, auth0, db, signals
<1>19. ASSUME NEW h \in Handler,
            HandlerStep(h)
      PROVE  Signals'
  BY <1>8, <1>9, <1>10, <1>11, <1>12, <1>13, <1>14, <1>15, <1>16, <1>19 DEF
     HandlerStep
<1>20. ASSUME RunStep PROVE Signals'
  BY <1>1, <1>20 DEF RunStep, FetchOrgs, FetchUsers, FetchMembers, Abort,
     ReadRows, Commit, Rollback, EndRun, auth0, db, signals
<1> QED
  BY <1>1, <1>17, <1>18, <1>6, <1>7, <1>19, <1>20 DEF Next, vars, auth0, db,
     signals

(* A handler that is started, goes on or ends leaves the others alone.      *)
LEMMA HandlerMoves ==
  ASSUME NEW h \in Handler, NEW w \in HandlerState, Handlers,
         handler' = [handler EXCEPT ![h] = w],
         w # Idle /\ w.pc = "read" /\ w.signal.kind = "user" => w.profile \in Version,
         w # Idle /\ w.pc = "write" /\ w.signal.kind = "user" =>
           w.profile \in Version /\ w.seen \in Version,
         w # Idle /\ w.pc = "read" /\ w.signal.kind = "member" => w.member \in BOOLEAN,
         w # Idle /\ w.pc = "write" /\ w.signal.kind = "member" =>
           /\ w.newUser \in Version
           /\ {w.member, w.newOrg, w.had} \subseteq BOOLEAN
  PROVE  Handlers'
<1>1. handler' \in [Handler -> HandlerState]
  BY DEF Handlers
<1>2. handler'[h] = w /\ \A g \in Handler \ {h} : handler'[g] = handler[g]
  BY DEF Handlers
<1>3. \A g \in Handler \ {h} :
        /\ At(g, "read", "user")' = At(g, "read", "user")
        /\ At(g, "write", "user")' = At(g, "write", "user")
        /\ At(g, "read", "member")' = At(g, "read", "member")
        /\ At(g, "write", "member")' = At(g, "write", "member")
  BY <1>2 DEF At
<1>4. \A g \in Handler : At(g, "read", "user")' => handler'[g].profile \in Version
  BY <1>2, <1>3 DEF Handlers, At
<1>5. \A g \in Handler : At(g, "write", "user")' =>
        handler'[g].profile \in Version /\ handler'[g].seen \in Version
  BY <1>2, <1>3 DEF Handlers, At
<1>6. \A g \in Handler : At(g, "read", "member")' => handler'[g].member \in BOOLEAN
  BY <1>2, <1>3 DEF Handlers, At
<1>7. \A g \in Handler : At(g, "write", "member")' =>
        /\ handler'[g].newUser \in Version
        /\ {handler'[g].member, handler'[g].newOrg, handler'[g].had} \subseteq BOOLEAN
  BY <1>2, <1>3 DEF Handlers, At
<1> QED
  BY <1>1, <1>4, <1>5, <1>6, <1>7 DEF Handlers

LEMMA HandlerEnds ==
  ASSUME NEW h \in Handler, Handlers, Finish(h)
  PROVE  Handlers'
<1>1. Idle \in HandlerState
  BY DEF HandlerState
<1> QED
  BY <1>1, HandlerMoves DEF Finish

(* What a handler keeps is typed.                                          *)
LEMMA HandlersNext == IInv /\ [Next]_vars => Handlers'
<1> SUFFICES ASSUME IInv, [Next]_vars PROVE Handlers'
  OBVIOUS
<1>0. Stamps /\ Signals /\ Handlers /\ DbKeys
  BY DEF IInv
<1>1. ASSUME UNCHANGED <<handler>> PROVE Handlers'
  BY <1>0, <1>1 DEF Handlers, At
<1>2. ASSUME NEW h \in Handler, NEW s \in emitted, Deliver(h, s) PROVE Handlers'
  <2> DEFINE w == [pc |-> "fetch", signal |-> s]
  <2>1. w \in HandlerState
    BY <1>0, <1>2 DEF HandlerState, Signals
  <2>2. w.pc = "fetch"
    OBVIOUS
  <2>3. handler' = [handler EXCEPT ![h] = w]
    BY <1>2 DEF Deliver, Pick
  <2> HIDE DEF w
  <2> QED
    BY <1>0, <2>1, <2>2, <2>3, HandlerMoves
<1>3. ASSUME NEW h \in Handler, NEW s \in emitted, Redeliver(h, s) PROVE Handlers'
  <2> DEFINE w == [pc |-> "fetch", signal |-> s]
  <2>1. w \in HandlerState
    BY <1>0, <1>3 DEF HandlerState, Signals
  <2>2. w.pc = "fetch"
    OBVIOUS
  <2>3. handler' = [handler EXCEPT ![h] = w]
    BY <1>3 DEF Redeliver, Pick
  <2> HIDE DEF w
  <2> QED
    BY <1>0, <2>1, <2>2, <2>3, HandlerMoves
<1>4. ASSUME NEW h \in Handler, FetchUser(h) PROVE Handlers'
  <2> DEFINE u == handler[h].signal.user
             w == [pc |-> "read", signal |-> UserSignal(u), profile |-> aUser[u]]
  <2>1. u \in User /\ aUser[u] \in Version
    BY <1>0, <1>4, SignalForms, StampsAreVersions DEF Signals, FetchUser, At
  <2>2. UserSignal(u) \in Signal /\ UserSignal(u).kind = "user"
    BY <2>1, SignalsAre DEF UserSignal
  <2>3. w \in HandlerState /\ w.pc = "read" /\ w.signal.kind = "user"
        /\ w.profile \in Version
    BY <2>1, <2>2 DEF HandlerState
  <2>4. Finish(h) \/ handler' = [handler EXCEPT ![h] = w]
    BY <1>4 DEF FetchUser
  <2> HIDE DEF w
  <2> QED
    BY <1>0, <2>3, <2>4, HandlerMoves, HandlerEnds
<1>5. ASSUME NEW h \in Handler, ReadUser(h) PROVE Handlers'
  <2> DEFINE s == handler[h].signal
             w == [pc |-> "write", signal |-> s, profile |-> handler[h].profile,
                   seen |-> dbUser[s.user]]
  <2>1. s \in Signal /\ s.kind = "user" /\ handler[h].profile \in Version
    BY <1>0, <1>5 DEF Signals, Handlers, ReadUser, At
  <2>2. dbUser[s.user] \in Version
    BY <1>0, <2>1, SignalForms DEF DbKeys
  <2>3. w \in HandlerState /\ w.pc = "write" /\ w.signal.kind = "user"
        /\ w.profile \in Version /\ w.seen \in Version
    BY <2>1, <2>2 DEF HandlerState
  <2>4. handler' = [handler EXCEPT ![h] = w]
    BY <1>0, <1>5 DEF ReadUser, Handlers
  <2> HIDE DEF w
  <2> QED
    BY <1>0, <2>3, <2>4, HandlerMoves
<1>6. ASSUME NEW h \in Handler, WriteUser(h) PROVE Handlers'
  BY <1>0, <1>6, HandlerEnds DEF WriteUser
<1>7. ASSUME NEW h \in Handler, DeleteUserRow(h) PROVE Handlers'
  BY <1>0, <1>7, HandlerEnds DEF DeleteUserRow
<1>8. ASSUME NEW h \in Handler, FetchMember(h) PROVE Handlers'
  <2> DEFINE s == handler[h].signal
             m == <<s.org, s.user>> \in aMember
             w == [pc |-> "read", signal |-> s, member |-> m]
  <2>1. s \in Signal /\ s.kind = "member" /\ m \in BOOLEAN
    BY <1>0, <1>8 DEF Signals, FetchMember, At
  <2>4. Finish(h) \/ handler' = [handler EXCEPT ![h] = w]
    BY <1>8 DEF FetchMember
  <2> HIDE DEF m
  <2>3. w \in HandlerState /\ w.pc = "read" /\ w.signal.kind = "member"
        /\ w.member \in BOOLEAN
    BY <2>1 DEF HandlerState
  <2> HIDE DEF w
  <2> QED
    BY <1>0, <2>3, <2>4, HandlerMoves, HandlerEnds
<1>9. ASSUME NEW h \in Handler, ReadMember(h) PROVE Handlers'
  <2> DEFINE s == handler[h].signal
             m == handler[h].member
             newUser == IF m /\ dbUser[s.user] = 0 THEN aUser[s.user] ELSE 0
             newOrg == m /\ s.org \notin dbOrg
             had == <<s.org, s.user>> \in dbMember
             w == [pc |-> "write", signal |-> s, member |-> m, newUser |-> newUser,
                   newOrg |-> newOrg, had |-> had]
  <2>1. s \in Signal /\ s.kind = "member" /\ m \in BOOLEAN
    BY <1>0, <1>9 DEF Signals, Handlers, ReadMember, At
  <2>2. newUser \in Version
    BY <1>0, <2>1, SignalForms, StampsAreVersions, BoundAssumption DEF Version
  <2>3. newOrg \in BOOLEAN /\ had \in BOOLEAN
    BY <2>1
  <2>4. Finish(h) \/ handler' = [handler EXCEPT ![h] = w]
    BY <1>9 DEF ReadMember
  <2> HIDE DEF m, newUser, newOrg, had
  <2>5. w \in HandlerState
    BY <2>1, <2>2, <2>3 DEF HandlerState
  <2>6. /\ w.pc = "write" /\ w.signal.kind = "member"
        /\ w.newUser \in Version
        /\ {w.member, w.newOrg, w.had} \subseteq BOOLEAN
    BY <2>1, <2>2, <2>3
  <2> HIDE DEF w
  <2> QED
    BY <1>0, <2>4, <2>5, <2>6, HandlerMoves, HandlerEnds
<1>10. ASSUME NEW h \in Handler, AddMembership(h) PROVE Handlers'
  BY <1>0, <1>10, HandlerEnds DEF AddMembership
<1>11. ASSUME NEW h \in Handler, RemoveMembership(h) PROVE Handlers'
  BY <1>0, <1>11, HandlerEnds DEF RemoveMembership
<1>12. ASSUME NEW h \in Handler, KeepMembership(h) PROVE Handlers'
  BY <1>0, <1>12, HandlerEnds DEF KeepMembership
<1>13. ASSUME Auth0Step PROVE Handlers'
  BY <1>1, <1>13 DEF Auth0Step, SaveUser, DeleteUser, CreateOrg, DeleteOrg,
     AddMember, RemoveMember, Emit, auth0, db, signals
<1>14. ASSUME NEW o \in Org, NEW u \in User,
            GrantAccess(o, u)
      PROVE  Handlers'
  BY <1>1, <1>14 DEF GrantAccess, auth0, db, signals
<1>15. ASSUME NEW h \in Handler,
            HandlerStep(h)
      PROVE  Handlers'
  BY <1>4, <1>5, <1>6, <1>7, <1>8, <1>9, <1>10, <1>11, <1>12, <1>15 DEF
     HandlerStep
<1>16. ASSUME RunStep PROVE Handlers'
  BY <1>1, <1>16 DEF RunStep, FetchOrgs, FetchUsers, FetchMembers, Abort,
     ReadRows, Commit, Rollback, EndRun, auth0, db, signals
<1> QED
  BY <1>1, <1>13, <1>14, <1>2, <1>3, <1>15, <1>16 DEF Next, vars, auth0, db,
     signals

(* What a run that has reached a stage keeps.                              *)
LEMMA RunStages ==
  ASSUME Running
  PROVE  /\ run.pc = "users" => run \in UsersRun
         /\ run.pc = "members" => run \in MembersRun
         /\ run.pc = "write" => run \in WriteRun
         /\ run.pc \in {"users", "members", "write"} => run # NoRun
BY DEF Running, NoRun, UsersRun, MembersRun, WriteRun

(* What the reconciliation keeps is typed.                                 *)
LEMMA RunningNext == IInv /\ [Next]_vars => Running'
<1> SUFFICES ASSUME IInv, [Next]_vars PROVE Running'
  OBVIOUS
<1>0. Stamps /\ DbKeys /\ Running
  BY DEF IInv
<1>1. ASSUME UNCHANGED <<run>> PROVE Running'
  BY <1>0, <1>1 DEF Running
<1>2. ASSUME FetchOrgs PROVE Running'
  <2> PICK failed \in BOOLEAN, got \in SUBSET Org :
          run' = [pc |-> "users", orgs |-> got, errors |-> failed]
    BY <1>2 DEF FetchOrgs
  <2> QED
    BY DEF Running, UsersRun
<1>3. ASSUME FetchUsers PROVE Running'
  <2>1. PICK failed \in BOOLEAN, got \in SUBSET User :
          /\ run.pc = "users"
          /\ run' = [pc |-> "members", orgs |-> run.orgs,
                     users |-> [u \in User |-> IF u \in got THEN aUser[u] ELSE 0],
                     left |-> got, members |-> {},
                     errors |-> run.errors \/ failed]
    BY <1>3 DEF FetchUsers
  <2>2. run \in UsersRun
    BY <1>0, <2>1, RunStages
  <2> DEFINE us == [u \in User |-> IF u \in got THEN aUser[u] ELSE 0]
             e == run.errors \/ failed
  <2>3. us \in [User -> Version]
    BY <1>0, StampsAreVersions, BoundAssumption DEF Version
  <2>4. e \in BOOLEAN /\ run.orgs \in SUBSET Org
    BY <2>2 DEF UsersRun
  <2>5. run' = [pc |-> "members", orgs |-> run.orgs, users |-> us,
                left |-> got, members |-> {}, errors |-> e]
    BY <2>1
  <2> HIDE DEF us, e
  <2> QED
    BY <2>3, <2>4, <2>5 DEF Running, MembersRun
<1>4. ASSUME NEW u \in User, FetchMembers(u) PROVE Running'
  <2>1. PICK failed \in BOOLEAN, got \in SUBSET Of(u) :
          /\ run.pc = "members"
          /\ run' = [run EXCEPT !.left = run.left \ {u},
                                !.members = run.members \union got,
                                !.errors = run.errors \/ failed \/ aUser[u] = 0]
    BY <1>4 DEF FetchMembers
  <2>2. run \in MembersRun
    BY <1>0, <2>1, RunStages
  <2> DEFINE e == run.errors \/ failed \/ aUser[u] = 0
             l == run.left \ {u}
             m == run.members \union got
  <2>3. e \in BOOLEAN
    OBVIOUS
  <2>4. l \in SUBSET User /\ m \in SUBSET (Org \X User)
    BY <2>2 DEF MembersRun, Of
  <2>5. run' = [run EXCEPT !.left = l, !.members = m, !.errors = e]
    BY <2>1
  <2> HIDE DEF e, l, m
  <2>6. run' \in MembersRun
    BY <2>2, <2>3, <2>4, <2>5 DEF MembersRun
  <2> QED
    BY <2>6 DEF Running
<1>5. ASSUME Abort PROVE Running'
  BY <1>0, <1>5 DEF Running, Abort, EndRun
<1>6. ASSUME ReadRows PROVE Running'
  <2>1. run.pc = "members"
    BY <1>6 DEF ReadRows
  <2>2. run \in MembersRun
    BY <1>0, <2>1, RunStages
  <2>3. run' \in WriteRun
    BY <1>0, <1>6, <2>2 DEF ReadRows, MembersRun, WriteRun, DbKeys
  <2> QED
    BY <2>3 DEF Running
<1>7. ASSUME Commit PROVE Running'
  BY <1>0, <1>7 DEF Running, Commit, EndRun
<1>8. ASSUME Rollback PROVE Running'
  BY <1>0, <1>8 DEF Running, Rollback, EndRun
<1>9. ASSUME Auth0Step PROVE Running'
  BY <1>1, <1>9 DEF Auth0Step, SaveUser, DeleteUser, CreateOrg, DeleteOrg,
     AddMember, RemoveMember, Emit, auth0, db, signals
<1>10. ASSUME NEW o \in Org, NEW u \in User,
            GrantAccess(o, u)
      PROVE  Running'
  BY <1>1, <1>10 DEF GrantAccess, auth0, db, signals
<1>11. ASSUME NEW h \in Handler, NEW s \in emitted,
            Deliver(h, s) \/ Redeliver(h, s)
      PROVE  Running'
  BY <1>1, <1>11 DEF Deliver, Redeliver, Pick, auth0, db, signals
<1>12. ASSUME NEW h \in Handler,
            HandlerStep(h)
      PROVE  Running'
  BY <1>1, <1>12 DEF HandlerStep, FetchUser, ReadUser, WriteUser,
     DeleteUserRow, FetchMember, ReadMember, AddMembership, RemoveMembership,
     KeepMembership, auth0, db, signals
<1>13. ASSUME RunStep PROVE Running'
  BY <1>2, <1>3, <1>4, <1>5, <1>6, <1>7, <1>8, <1>13 DEF RunStep
<1> QED
  BY <1>1, <1>9, <1>10, <1>11, <1>12, <1>13 DEF Next, vars, auth0, db,
     signals

(* The row an upsert leaves is a version, and there is one if there was.    *)
LEMMA UpsertedRow ==
  ASSUME NEW row \in Version, NEW seen \in Version, NEW profile \in Version
  PROVE  /\ Upserted(row, seen, profile) \in Version
         /\ row # 0 => Upserted(row, seen, profile) # 0
BY BoundAssumption DEF Upserted, Version

(* Every write of a row leaves the foreign keys of the schema satisfied.   *)
LEMMA DbKeysNext == IInv /\ [Next]_vars => DbKeys'
<1> SUFFICES ASSUME IInv, [Next]_vars PROVE DbKeys'
  OBVIOUS
<1>0. Signals /\ Handlers /\ Running /\ Teams /\ DbKeys
  BY DEF IInv
<1>1. ASSUME UNCHANGED <<dbUser, dbOrg, dbMember, dbTeam, access>> PROVE DbKeys'
  BY <1>0, <1>1 DEF DbKeys, InDb
<1>2. ASSUME NEW o \in Org, NEW u \in User, GrantAccess(o, u) PROVE DbKeys'
  BY <1>0, <1>2 DEF DbKeys, GrantAccess, InDb
<1>3. ASSUME NEW h \in Handler, WriteUser(h) PROVE DbKeys'
  <2> DEFINE u == handler[h].signal.user
             row == Upserted(dbUser[u], handler[h].seen, handler[h].profile)
  <2>1. u \in User /\ handler[h].seen \in Version /\ handler[h].profile \in Version
    BY <1>0, <1>3, SignalForms DEF Signals, Handlers, WriteUser, At
  <2>2. row \in Version /\ (dbUser[u] # 0 => row # 0)
    BY <1>0, <2>1, UpsertedRow DEF DbKeys
  <2>3. dbUser' = [dbUser EXCEPT ![u] = row]
    BY <1>0, <1>3, <2>1 DEF WriteUser, DbKeys
  <2> HIDE DEF u, row
  <2>4. dbUser' \in [User -> Version] /\ InDb \subseteq InDb'
    BY <1>0, <2>1, <2>2, <2>3 DEF DbKeys, InDb
  <2>5. UNCHANGED <<dbOrg, dbMember, dbTeam, access>>
    BY <1>3 DEF WriteUser
  <2> QED
    BY <1>0, <2>4, <2>5 DEF DbKeys
<1>4. ASSUME NEW h \in Handler, DeleteUserRow(h) PROVE DbKeys'
  <2> DEFINE u == handler[h].signal.user
  <2>1. u \in User
    BY <1>0, <1>4, SignalForms DEF Signals, DeleteUserRow, At
  <2>2. dbUser' = [dbUser EXCEPT ![u] = 0]
    BY <1>4 DEF DeleteUserRow
  <2>3. dbMember' = dbMember \ (Org \X {u}) /\ access' = access \ (Org \X {u})
    BY <1>4 DEF DeleteUserRow, DropUsers
  <2>4. UNCHANGED <<dbOrg, dbTeam>>
    BY <1>4 DEF DeleteUserRow
  <2> HIDE DEF u
  <2>5. 0 \in Version
    BY BoundAssumption DEF Version
  <2>6. dbUser' \in [User -> Version] /\ InDb' = InDb \ {u}
    BY <1>0, <2>1, <2>2, <2>5 DEF DbKeys, InDb
  <2>7. dbTeam \subseteq Org
    BY <1>0 DEF Teams
  <2> QED
    BY <1>0, <2>3, <2>4, <2>6, <2>7 DEF DbKeys
<1>5. ASSUME NEW h \in Handler, AddMembership(h) PROVE DbKeys'
  <2> DEFINE w == handler[h]  o == w.signal.org  u == w.signal.user
  <2>1. u \in User /\ o \in Org /\ w.newUser \in Version
    BY <1>0, <1>5, SignalForms DEF Signals, Handlers, AddMembership, At
  <2>2. UNCHANGED <<dbTeam, access>>
    BY <1>5 DEF AddMembership
  <2>3. CASE UNCHANGED <<dbUser, dbOrg, dbMember>>
    BY <1>0, <2>2, <2>3 DEF DbKeys, InDb
  <2>4. CASE ~UNCHANGED <<dbUser, dbOrg, dbMember>>
    <3>1. /\ (w.newUser # 0) = (dbUser[u] = 0)
          /\ dbUser' = IF w.newUser = 0 THEN dbUser ELSE [dbUser EXCEPT ![u] = w.newUser]
          /\ dbOrg' = dbOrg \union {o}
          /\ dbMember' = dbMember \union {<<o, u>>}
      BY <1>5, <2>4 DEF AddMembership
    <3> HIDE DEF o, u
    <3>2. dbUser' \in [User -> Version] /\ InDb \subseteq InDb' /\ u \in InDb'
      BY <1>0, <2>1, <3>1 DEF DbKeys, InDb
    <3> QED
      BY <1>0, <2>1, <2>2, <3>1, <3>2 DEF DbKeys
  <2> QED
    BY <2>3, <2>4
<1>6. ASSUME NEW h \in Handler, RemoveMembership(h) PROVE DbKeys'
  BY <1>0, <1>6 DEF DbKeys, RemoveMembership, InDb
<1>7. ASSUME Commit PROVE DbKeys'
  <2> DEFINE gone == {u \in User : run.users[u] = 0}
  <2>1. run \in WriteRun
    BY <1>0, <1>7, RunStages DEF Commit
  <2>2. /\ dbUser' = [u \in User |-> IF u \in gone THEN 0 ELSE SyncedUsers[u]]
        /\ dbOrg' = run.orgs
        /\ dbMember' = ((dbMember \union run.newMembers) \cap run.members)
                       \cap (run.orgs \X (User \ gone))
        /\ access' = access \ (Org \X gone)
        /\ UNCHANGED dbTeam
    BY <1>7 DEF Commit
  <2>3. run.newMembers \subseteq
          (dbOrg \union run.orgs) \X {u \in User : SyncedUsers[u] # 0}
    BY <1>7 DEF Commit, Commits
  <2>4. \A u \in User : SyncedUsers[u] \in Version /\ (dbUser[u] # 0 => SyncedUsers[u] # 0)
    BY <1>0, <2>1, UpsertedRow DEF SyncedUsers, DbKeys, WriteRun
  <2>5. 0 \in Version
    BY BoundAssumption DEF Version
  <2> HIDE DEF gone
  <2>6. dbUser' \in [User -> Version]
    BY <2>2, <2>4, <2>5
  <2>7. \A u \in User : u \notin gone /\ SyncedUsers[u] # 0 => u \in InDb'
    BY <2>2 DEF InDb
  <2>8. InDb \ gone \subseteq InDb'
    BY <2>4, <2>7 DEF InDb
  <2>9. dbMember \subseteq dbOrg \X InDb /\ access \subseteq dbTeam \X InDb
        /\ dbTeam \subseteq Org
    BY <1>0 DEF DbKeys, Teams
  <2>10. dbMember' \subseteq dbOrg' \X InDb'
    <3>1. \A p \in dbMember' : p \in dbMember \/ p \in run.newMembers
      BY <2>2
    <3>2. \A p \in dbMember' : p[1] \in run.orgs /\ p[2] \in User \ gone /\ p = <<p[1], p[2]>>
      BY <2>2
    <3>3. \A p \in dbMember' : p[2] \in InDb'
      BY <2>3, <2>7, <2>8, <2>9, <3>1, <3>2
    <3> QED
      BY <2>2, <3>2, <3>3
  <2>11. access' \subseteq dbTeam' \X InDb'
    BY <2>2, <2>8, <2>9
  <2>12. dbOrg' \subseteq Org
    BY <2>1, <2>2 DEF WriteRun
  <2> QED
    BY <2>6, <2>10, <2>11, <2>12 DEF DbKeys
<1>8. ASSUME Auth0Step PROVE DbKeys'
  BY <1>1, <1>8 DEF Auth0Step, SaveUser, DeleteUser, CreateOrg, DeleteOrg,
     AddMember, RemoveMember, Emit, auth0, db, signals
<1>9. ASSUME NEW h \in Handler, NEW s \in emitted,
            Deliver(h, s) \/ Redeliver(h, s)
      PROVE  DbKeys'
  BY <1>1, <1>9 DEF Deliver, Redeliver, Pick, auth0, db, signals
<1>10. ASSUME NEW h \in Handler,
            HandlerStep(h)
      PROVE  DbKeys'
  BY <1>1, <1>3, <1>4, <1>5, <1>6, <1>10 DEF HandlerStep, FetchUser,
     ReadUser, FetchMember, ReadMember, KeepMembership, auth0, db, signals
<1>11. ASSUME RunStep PROVE DbKeys'
  BY <1>1, <1>7, <1>11 DEF RunStep, FetchOrgs, FetchUsers, FetchMembers,
     Abort, ReadRows, Rollback, EndRun, auth0, db, signals
<1> QED
  BY <1>1, <1>8, <1>2, <1>9, <1>10, <1>11 DEF Next, vars, auth0, db, signals

LEMMA TeamsNext == IInv /\ [Next]_vars => Teams'
<1> SUFFICES ASSUME IInv, [Next]_vars PROVE Teams'
  OBVIOUS
<1>0. DbKeys /\ Teams
  BY DEF IInv
<1>1. ASSUME UNCHANGED <<dbTeam>> PROVE Teams'
  BY <1>0, <1>1 DEF Teams
<1>2. ASSUME NEW o \in Org, NEW u \in User, GrantAccess(o, u) PROVE Teams'
  BY <1>0, <1>2 DEF Teams, GrantAccess, DbKeys
<1>3. ASSUME Auth0Step PROVE Teams'
  BY <1>1, <1>3 DEF Auth0Step, SaveUser, DeleteUser, CreateOrg, DeleteOrg,
     AddMember, RemoveMember, Emit, auth0, db, signals
<1>4. ASSUME NEW h \in Handler, NEW s \in emitted,
            Deliver(h, s) \/ Redeliver(h, s)
      PROVE  Teams'
  BY <1>1, <1>4 DEF Deliver, Redeliver, Pick, auth0, db, signals
<1>5. ASSUME NEW h \in Handler,
            HandlerStep(h)
      PROVE  Teams'
  BY <1>1, <1>5 DEF HandlerStep, FetchUser, ReadUser, WriteUser,
     DeleteUserRow, FetchMember, ReadMember, AddMembership, RemoveMembership,
     KeepMembership, auth0, db, signals
<1>6. ASSUME RunStep PROVE Teams'
  BY <1>1, <1>6 DEF RunStep, FetchOrgs, FetchUsers, FetchMembers, Abort,
     ReadRows, Commit, Rollback, EndRun, auth0, db, signals
<1> QED
  BY <1>1, <1>3, <1>2, <1>4, <1>5, <1>6 DEF Next, vars, auth0, db, signals

(* A list of users lacks only users that Auth0 lacked during the run.      *)
LEMMA AbsenceNext == IInv /\ [Next]_vars => Absence'
<1> SUFFICES ASSUME IInv, [Next]_vars PROVE Absence'
  OBVIOUS
<1>0. Stamps /\ Running /\ Absence
  BY DEF IInv
<1>1. ASSUME UNCHANGED <<run, absent, aUser>> PROVE Absence'
  BY <1>0, <1>1 DEF Absence
<1>2. ASSUME NEW u \in User, SaveUser(u) PROVE Absence'
  <2>1. \A x \in User : aUser'[x] = 0 => aUser[x] = 0
    BY <1>0, <1>2 DEF SaveUser, Stamps
  <2>2. UNCHANGED <<run, absent>>
    BY <1>2 DEF SaveUser
  <2> QED
    BY <1>0, <2>1, <2>2 DEF Absence
<1>3. ASSUME NEW u \in User, DeleteUser(u) PROVE Absence'
  <2>1. \A x \in User : aUser'[x] = 0 => x = u \/ aUser[x] = 0
    BY <1>0, <1>3 DEF DeleteUser, Stamps
  <2>2. UNCHANGED run /\ absent' = IF run = NoRun THEN {} ELSE absent \union {u}
    BY <1>3 DEF DeleteUser
  <2> QED
    BY <1>0, <2>1, <2>2, RunStages DEF Absence
<1>4. ASSUME FetchOrgs PROVE Absence'
  <2>1. run'.pc = "users" /\ absent' = User \ InAuth0 /\ UNCHANGED aUser
    BY <1>4 DEF FetchOrgs, auth0
  <2> QED
    BY <2>1 DEF Absence, InAuth0
<1>5. ASSUME FetchUsers PROVE Absence'
  <2>1. PICK failed \in BOOLEAN, got \in SUBSET User :
          /\ run.pc = "users"
          /\ Fetched(InAuth0, got, failed)
          /\ run' = [pc |-> "members", orgs |-> run.orgs,
                     users |-> [u \in User |-> IF u \in got THEN aUser[u] ELSE 0],
                     left |-> got, members |-> {},
                     errors |-> run.errors \/ failed]
          /\ UNCHANGED <<aUser, absent>>
    BY <1>5 DEF FetchUsers, auth0
  <2>2. \A u \in User : aUser[u] = 0 => u \in absent
    BY <1>0, <2>1, RunStages DEF Absence
  <2>3. run'.pc = "members" /\ (run'.errors \/ ~failed)
        /\ \A u \in User : run'.users[u] = IF u \in got THEN aUser[u] ELSE 0
    BY <2>1
  <2>4. ~run'.errors => got = InAuth0
    BY <2>1, <2>3 DEF Fetched
  <2>5. \A u \in User : ~run'.errors /\ run'.users[u] = 0 => aUser[u] = 0
    BY <2>3, <2>4 DEF InAuth0
  <2> QED
    BY <1>0, <2>1, <2>2, <2>3, <2>5 DEF Absence
<1>6. ASSUME NEW u \in User, FetchMembers(u) PROVE Absence'
  <2>1. PICK failed \in BOOLEAN, got \in SUBSET Of(u) :
          /\ run.pc = "members"
          /\ run' = [run EXCEPT !.left = run.left \ {u},
                                !.members = run.members \union got,
                                !.errors = run.errors \/ failed \/ aUser[u] = 0]
          /\ UNCHANGED <<aUser, absent>>
    BY <1>6 DEF FetchMembers, auth0
  <2>2. run \in MembersRun /\ run # NoRun
    BY <1>0, <2>1, RunStages
  <2>3. run'.pc = "members" /\ run'.users = run.users /\ (run.errors => run'.errors)
    BY <2>1, <2>2 DEF MembersRun
  <2> QED
    BY <1>0, <2>1, <2>2, <2>3 DEF Absence
<1>7. ASSUME Abort PROVE Absence'
  BY <1>0, <1>7 DEF Absence, Abort, EndRun, NoRun
<1>8. ASSUME ReadRows PROVE Absence'
  <2>1. run.pc = "members" /\ ~run.errors
    BY <1>8 DEF ReadRows, Complete
  <2>2. run'.pc = "write" /\ run'.users = run.users /\ UNCHANGED <<aUser, absent>>
    BY <1>8 DEF ReadRows, auth0
  <2> QED
    BY <1>0, <2>1, <2>2, RunStages DEF Absence
<1>9. ASSUME Commit PROVE Absence'
  BY <1>0, <1>9 DEF Absence, Commit, EndRun, NoRun
<1>10. ASSUME Rollback PROVE Absence'
  BY <1>0, <1>10 DEF Absence, Rollback, EndRun, NoRun
<1>11. ASSUME Auth0Step PROVE Absence'
  BY <1>1, <1>2, <1>3, <1>11 DEF Auth0Step, CreateOrg, DeleteOrg, AddMember,
     RemoveMember, Emit, auth0, db, signals
<1>12. ASSUME NEW o \in Org, NEW u \in User,
            GrantAccess(o, u)
      PROVE  Absence'
  BY <1>1, <1>12 DEF GrantAccess, auth0, db, signals
<1>13. ASSUME NEW h \in Handler, NEW s \in emitted,
            Deliver(h, s) \/ Redeliver(h, s)
      PROVE  Absence'
  BY <1>1, <1>13 DEF Deliver, Redeliver, Pick, auth0, db, signals
<1>14. ASSUME NEW h \in Handler,
            HandlerStep(h)
      PROVE  Absence'
  BY <1>1, <1>14 DEF HandlerStep, FetchUser, ReadUser, WriteUser,
     DeleteUserRow, FetchMember, ReadMember, AddMembership, RemoveMembership,
     KeepMembership, auth0, db, signals
<1>15. ASSUME RunStep PROVE Absence'
  BY <1>4, <1>5, <1>6, <1>7, <1>8, <1>9, <1>10, <1>15 DEF RunStep
<1> QED
  BY <1>1, <1>11, <1>12, <1>13, <1>14, <1>15 DEF Next, vars, auth0, db,
     signals

------------------------------------------------------------------------------
LEMMA InitIInv == Init => IInv
<1> SUFFICES ASSUME Init PROVE IInv
  OBVIOUS
<1>1. {0, 1} \subseteq Version
  BY BoundAssumption DEF Version
<1>2. aUser \in [User -> {0, 1}] /\ stamp = aUser
  <2> PICK us \in SUBSET User : aUser = [u \in User |-> IF u \in us THEN 1 ELSE 0]
    BY DEF Init
  <2> QED
    BY DEF Init
<1>3. Stamps
  BY <1>2, BoundAssumption DEF Init, Stamps
<1>4. Members
  BY DEF Init, Members
<1>5. Signals
  BY DEF Init, Signals
<1>6. Handlers
  BY DEF Init, Handlers, HandlerState, At
<1>7. Running
  BY DEF Init, Running
<1>8. DbKeys /\ Teams
  BY <1>1, <1>2 DEF Init, DbKeys, Teams, InDb, InAuth0
<1>9. Absence
  BY DEF Init, Absence, NoRun
<1> QED
  BY <1>3, <1>4, <1>5, <1>6, <1>7, <1>8, <1>9 DEF IInv

LEMMA NextIInv == IInv /\ [Next]_vars => IInv'
<1> SUFFICES ASSUME IInv, [Next]_vars PROVE IInv'
  OBVIOUS
<1>1. Stamps /\ Members /\ Signals /\ Handlers /\ Running /\ DbKeys /\ Teams /\ Absence
      /\ DOMAIN handler = Handler
  BY DEF IInv, Handlers
<1>2. Stamps' /\ Members'
  BY <1>1, StampsNext, MembersNext
<1>3. Signals' /\ Handlers'
  BY <1>1, SignalsNext, HandlersNext
<1>4. Running' /\ DbKeys' /\ Teams' /\ Absence'
  BY <1>1, RunningNext, DbKeysNext, TeamsNext, AbsenceNext
<1> QED
  BY <1>2, <1>3, <1>4 DEF IInv

(* The inductive invariant of the signals, the handlers and the run.       *)
THEOREM Invariance == Spec => []IInv
BY InitIInv, NextIInv, PTL DEF Spec

(* Every reachable state is typed and satisfies the foreign keys of the    *)
(* schema (driver_db models/base.py), whatever the handlers and the run    *)
(* interleave.                                                             *)
THEOREM TypeCorrect == Spec => []TypeOK
<1>1. IInv => TypeOK
  BY StampsAreVersions DEF IInv, Stamps, Members, Signals, DbKeys, Absence,
     TypeOK
<1> QED
  BY <1>1, Invariance, PTL

(* delete_stale_users deletes only users that Auth0 lacked at some time    *)
(* during the run, whatever pages failed and whatever changed meanwhile.   *)
THEOREM DeletesAreGrounded == Spec => GroundedDeletes
<1>1. ASSUME IInv, Commit, NEW u \in User, dbUser[u] # 0, dbUser'[u] = 0
      PROVE  u \in absent
  <2>1. run.pc = "write" /\ run \in WriteRun
    BY <1>1, RunStages DEF Commit, IInv
  <2>2. dbUser'[u] = IF run.users[u] = 0 THEN 0 ELSE SyncedUsers[u]
    BY <1>1 DEF Commit
  <2>3. SyncedUsers[u] # 0
    BY <1>1, <2>1, UpsertedRow DEF SyncedUsers, IInv, DbKeys, WriteRun
  <2> QED
    BY <1>1, <2>1, <2>2, <2>3 DEF IInv, Absence
<1>2. IInv /\ [Next]_vars =>
        [Commit => \A u \in User : dbUser[u] # 0 /\ dbUser'[u] = 0 => u \in absent]_vars
  BY <1>1
<1> QED
  BY <1>2, Invariance, PTL DEF Spec, GroundedDeletes

(* A profile gets older only through a row that changed between the read   *)
(* and the commit of its writer: the guard of _upsert_user and sync_user   *)
(* stops every other stale write.                                          *)
THEOREM OlderIsALostUpdate == Spec => OlderOnlyByLostUpdate
<1> DEFINE Older(u) == dbUser[u] # 0 /\ dbUser'[u] # 0 /\ dbUser'[u] < dbUser[u]
           Lost(u) == \/ Commit /\ run.seen[u] # dbUser[u]
                      \/ \E h \in Handler : WriteUser(h) /\ handler[h].seen # dbUser[u]
<1>0. ASSUME NEW row \in Version, NEW profile \in Version,
             Upserted(row, row, profile) < row
      PROVE  FALSE
  BY <1>0, BoundAssumption DEF Upserted, Version
<1>1. ASSUME IInv, NEW u \in User, Older(u), Commit PROVE Lost(u)
  <2>1. run \in WriteRun
    BY <1>1, RunStages DEF Commit, IInv
  <2>2. dbUser'[u] = Upserted(dbUser[u], run.seen[u], run.users[u])
    BY <1>1 DEF Commit, SyncedUsers
  <2>3. dbUser[u] \in Version /\ run.users[u] \in Version
    BY <1>1, <2>1 DEF IInv, DbKeys, WriteRun
  <2> QED
    BY <1>0, <1>1, <2>2, <2>3
<1>2. ASSUME IInv, NEW u \in User, Older(u), NEW h \in Handler, WriteUser(h)
      PROVE  Lost(u)
  <2> DEFINE v == handler[h].signal.user
  <2>1. v \in User /\ handler[h].profile \in Version
    BY <1>2, SignalForms DEF IInv, Signals, Handlers, WriteUser, At
  <2>2. dbUser \in [User -> Version]
    BY <1>2 DEF IInv, DbKeys
  <2>3. dbUser' = [dbUser EXCEPT ![v] =
                     Upserted(dbUser[v], handler[h].seen, handler[h].profile)]
    BY <1>2, <2>1, <2>2 DEF WriteUser
  <2>4. u = v
    <3>1. u # v => dbUser'[u] = dbUser[u]
      BY <2>2, <2>3
    <3>2. dbUser[u] \in Nat
      BY <2>2, BoundAssumption DEF Version
    <3> QED
      BY <1>2, <3>1, <3>2
  <2>5. dbUser'[v] = Upserted(dbUser[v], handler[h].seen, handler[h].profile)
    BY <2>1, <2>2, <2>3
  <2> HIDE DEF v
  <2> QED
    BY <1>0, <1>2, <2>1, <2>2, <2>4, <2>5
<1>3. ASSUME IInv, NEW u \in User, Older(u), NEW h \in Handler, AddMembership(h)
      PROVE  FALSE
  <2> DEFINE w == handler[h]  v == w.signal.user
  <2>1. dbUser \in [User -> Version]
    BY <1>3 DEF IInv, DbKeys
  <2>2. dbUser' = dbUser \/ (dbUser[v] = 0 /\ dbUser' = [dbUser EXCEPT ![v] = w.newUser])
    BY <1>3 DEF AddMembership
  <2>3. dbUser'[u] = dbUser[u] \/ dbUser[u] = 0
    BY <2>1, <2>2
  <2>4. dbUser[u] \in Nat
    BY <2>1, BoundAssumption DEF Version
  <2> QED
    BY <1>3, <2>3, <2>4
<1>4. ASSUME IInv, NEW u \in User, Older(u), NEW h \in Handler, DeleteUserRow(h)
      PROVE  FALSE
  <2>1. dbUser \in [User -> Version]
    BY <1>4 DEF IInv, DbKeys
  <2>2. dbUser' = [dbUser EXCEPT ![handler[h].signal.user] = 0]
    BY <1>4 DEF DeleteUserRow
  <2>3. dbUser'[u] = dbUser[u] \/ dbUser'[u] = 0
    BY <2>1, <2>2
  <2>4. dbUser[u] \in Nat
    BY <2>1, BoundAssumption DEF Version
  <2> QED
    BY <1>4, <2>3, <2>4
<1>5. ASSUME IInv, NEW u \in User, Older(u), dbUser' = dbUser PROVE FALSE
  <2>1. dbUser \in [User -> Version]
    BY <1>5 DEF IInv, DbKeys
  <2>2. dbUser[u] \in Nat
    BY <2>1, BoundAssumption DEF Version
  <2>3. dbUser'[u] = dbUser[u]
    BY <1>5
  <2> QED
    BY <1>5, <2>2, <2>3
<1> HIDE DEF Older, Lost
<1>6. ASSUME IInv, Next, NEW u \in User, Older(u) PROVE Lost(u)
  <2>1. CASE dbUser' = dbUser
    BY <1>5, <1>6, <2>1
  <2>2. ASSUME Auth0Step PROVE dbUser' = dbUser
    BY <2>2 DEF Auth0Step, SaveUser, DeleteUser, CreateOrg, DeleteOrg, AddMember,
                RemoveMember, db
  <2>3. ASSUME NEW o \in Org, NEW v \in User, GrantAccess(o, v) PROVE dbUser' = dbUser
    BY <2>3 DEF GrantAccess
  <2>4. ASSUME NEW h \in Handler, NEW s \in emitted, Deliver(h, s) \/ Redeliver(h, s)
        PROVE  dbUser' = dbUser
    BY <2>4 DEF Deliver, Redeliver, Pick, db
  <2>5. ASSUME NEW h \in Handler, HandlerStep(h)
        PROVE  WriteUser(h) \/ AddMembership(h) \/ DeleteUserRow(h) \/ dbUser' = dbUser
    BY <2>5 DEF HandlerStep, FetchUser, ReadUser, FetchMember, ReadMember,
                RemoveMembership, KeepMembership, db
  <2>6. ASSUME RunStep PROVE Commit \/ dbUser' = dbUser
    BY <2>6 DEF RunStep, FetchOrgs, FetchUsers, FetchMembers, Abort, ReadRows, Rollback, db
  <2>7. CASE \E h \in Handler : HandlerStep(h)
    BY <1>2, <1>3, <1>4, <1>6, <2>1, <2>5, <2>7
  <2>8. CASE RunStep
    BY <1>1, <1>6, <2>1, <2>6, <2>8
  <2> QED
    BY <1>6, <2>1, <2>2, <2>3, <2>4, <2>7, <2>8 DEF Next
<1>7. IInv /\ [Next]_vars => [\A u \in User : Older(u) => Lost(u)]_vars
  BY <1>6
<1> QED
  BY <1>7, Invariance, PTL DEF Spec, OlderOnlyByLostUpdate, Older, Lost
------------------------------------------------------------------------------
(* What the handlers guarantee when one of them, or the nightly run, is    *)
(* active at a time and Auth0 gives no id out twice: once every signal has *)
(* been handled the database agrees with Auth0, wherever its changes fell. *)

Serial == MaxActive <= 1 /\ ~Recreate

(* The last change of a user is still on its way.                          *)
Told(u) == (IF aUser[u] = 0 THEN DeleteSignal(u) ELSE UserSignal(u)) \in pending

Handling(h, s) == handler[h] # Idle /\ handler[h].signal = s

(* A handler that is active is alone.                                      *)
OneAtATime ==
  \A h \in Handler : handler[h] # Idle => Active = {h} /\ run = NoRun

(* Ids are not reused, and the rows are no newer than Auth0.               *)
Past ==
  /\ \A u \in User : DeleteSignal(u) \in emitted => aUser[u] = 0 /\ stamp[u] # 0
  /\ \A u \in User : dbUser[u] <= stamp[u]
  /\ \A o \in Org, u \in User :
       MemberSignal(o, u) \in emitted => o \in born /\ stamp[u] # 0
  /\ dbOrg \subseteq born

(* What a handler of a user read is still so, or its change is on its way. *)
ReadOfUser(h) ==
  LET u == handler[h].signal.user  p == handler[h].profile IN
  /\ p # 0 /\ dbUser[u] <= p /\ p <= stamp[u]
  /\ p = aUser[u] \/ Told(u)
  /\ handler[h].pc = "write" => handler[h].seen = dbUser[u]

ReadOfMember(h) ==
  LET w == handler[h]  o == w.signal.org  u == w.signal.user IN
  /\ aUser[u] # 0 /\ o \in aOrg =>
       w.member = (<<o, u>> \in aMember) \/ w.signal \in pending
  /\ w.pc = "write" =>
       /\ w.had = (<<o, u>> \in dbMember)
       /\ w.newOrg = (w.member /\ o \notin dbOrg)
       /\ (w.newUser # 0) = (w.member /\ dbUser[u] = 0)
       /\ w.newUser # 0 => w.newUser <= stamp[u] /\ (w.newUser = aUser[u] \/ Told(u))

Reads ==
  \A h \in Handler :
    /\ At(h, "read", "user") \/ At(h, "write", "user") => ReadOfUser(h)
    /\ At(h, "read", "member") \/ At(h, "write", "member") => ReadOfMember(h)

(* The same of what the run has fetched: of the users, and of the pairs    *)
(* whose user it is done with.                                             *)
FetchedUsers ==
  \A u \in User :
    /\ run.users[u] <= stamp[u]
    /\ run.users[u] = aUser[u] \/ Told(u)
    /\ run.users[u] # 0 => dbUser[u] <= run.users[u]

FetchedPairs(left) ==
  \A o \in aOrg, u \in User :
    \/ aUser[u] = 0 \/ MemberSignal(o, u) \in pending
    \/ run.users[u] # 0 /\ u \in left /\ (<<o, u>> \in aMember => o \in run.orgs)
    \/ (<<o, u>> \in aMember) =
         (o \in run.orgs /\ run.users[u] # 0 /\ <<o, u>> \in run.members)

Fetches ==
  /\ run # NoRun => run.orgs \subseteq born
  /\ run.pc = "users" /\ ~run.errors =>
       \A o \in Org, u \in User :
         <<o, u>> \in aMember => o \in run.orgs \/ MemberSignal(o, u) \in pending
  /\ run.pc = "members" => run.members \cap (Org \X run.left) = {}
  /\ run.pc = "members" /\ ~run.errors => FetchedUsers /\ FetchedPairs(run.left)
  /\ run.pc = "write" =>
       /\ FetchedUsers /\ FetchedPairs({})
       /\ run.seen = dbUser
       /\ run.newOrgs = run.orgs \ dbOrg
       /\ run.newMembers = run.members \ dbMember

(* A row differs only while a signal that will repair it is waiting or     *)
(* with a handler.                                                         *)
Repaired ==
  /\ \A u \in User :
       \/ dbUser[u] = aUser[u] \/ Told(u)
       \/ aUser[u] = 0 /\ \E h \in Handler : Handling(h, DeleteSignal(u))
       \/ aUser[u] # 0 /\ \E h \in Handler : Handling(h, UserSignal(u))
  /\ \A o \in aOrg, u \in User :
       \/ aUser[u] = 0 \/ MemberSignal(o, u) \in pending
       \/ (<<o, u>> \in dbMember) = (<<o, u>> \in aMember)
       \/ \E h \in Handler : Handling(h, MemberSignal(o, u))

Followed == OneAtATime /\ Past /\ Reads /\ Fetches /\ Repaired

------------------------------------------------------------------------------
(* A handler or a run starts only when nothing else is active.             *)
LEMMA RoomIsEmpty ==
  ASSUME Serial, IInv, OneAtATime, Room
  PROVE  Active = {} /\ run = NoRun
<1>1. MaxActive <= 1 /\ MaxActive \in Nat
  BY BoundAssumption DEF Serial
<1>2. ASSUME NEW h \in Handler, handler[h] # Idle PROVE FALSE
  <2>1. Active = {h} /\ run = NoRun
    BY <1>2 DEF OneAtATime
  <2>2. Cardinality({h}) = 1
    BY FS_Singleton
  <2>3. Cardinality(Active) = 1
    BY <2>1, <2>2
  <2>4. 1 < MaxActive
    BY <2>1, <2>3 DEF Room
  <2> QED
    BY <1>1, <2>4
<1>3. Active = {}
  BY <1>2 DEF Active
<1>4. Cardinality({}) = 0
  BY FS_EmptySet
<1>5. run # NoRun => 1 < MaxActive
  BY <1>3, <1>4 DEF Room
<1> QED
  BY <1>1, <1>3, <1>5

(* A step of a handler is taken with no other handler and no run.          *)
LEMMA HandlerIsAlone ==
  ASSUME IInv, OneAtATime, NEW h \in Handler, HandlerStep(h)
  PROVE  /\ handler[h] # Idle /\ run = NoRun /\ run' = run
         /\ \A g \in Handler \ {h} : handler[g] = Idle /\ handler'[g] = Idle
         /\ handler[h].signal \in Signal /\ handler[h].signal \in emitted
         /\ UNCHANGED <<aUser, aOrg, aMember, stamp, born, pending, emitted>>
<1>1. handler[h] # Idle
  BY DEF HandlerStep, FetchUser, ReadUser, WriteUser, DeleteUserRow, FetchMember,
         ReadMember, AddMembership, RemoveMembership, KeepMembership, At
<1>2. Active = {h} /\ run = NoRun
  BY <1>1 DEF OneAtATime
<1>3. \A g \in Handler \ {h} : handler[g] = Idle
  BY <1>2 DEF Active
<1>4. DOMAIN handler = Handler
  BY DEF IInv, Handlers
<1>5. \E w : handler' = [handler EXCEPT ![h] = w]
  BY DEF HandlerStep, FetchUser, ReadUser, WriteUser, DeleteUserRow, FetchMember,
         ReadMember, AddMembership, RemoveMembership, KeepMembership, Finish
<1>6. \A g \in Handler \ {h} : handler'[g] = handler[g]
  BY <1>4, <1>5
<1>7. handler[h].signal \in Signal /\ handler[h].signal \in emitted
  BY <1>1 DEF IInv, Signals
<1>8. run' = run /\ UNCHANGED <<aUser, aOrg, aMember, stamp, born, pending, emitted>>
  BY DEF HandlerStep, FetchUser, ReadUser, WriteUser, DeleteUserRow, FetchMember,
         ReadMember, AddMembership, RemoveMembership, KeepMembership, auth0, signals
<1> QED
  BY <1>1, <1>2, <1>3, <1>6, <1>7, <1>8

(* A signal is given to a handler when nothing is active.                  *)
LEMMA PickStarts ==
  ASSUME Serial, IInv, OneAtATime, NEW h \in Handler, NEW s \in emitted,
         Deliver(h, s) \/ Redeliver(h, s)
  PROVE  /\ Active = {} /\ run = NoRun /\ run' = run
         /\ handler'[h] = [pc |-> "fetch", signal |-> s]
         /\ \A g \in Handler : handler[g] = Idle /\ (g # h => handler'[g] = Idle)
         /\ UNCHANGED <<aUser, aOrg, aMember, stamp, born, emitted, dbUser, dbOrg, dbMember>>
         /\ pending \ {s} \subseteq pending'
<1>1. Pick(h, s) /\ pending \ {s} \subseteq pending'
  BY DEF Deliver, Redeliver
<1>2. Active = {} /\ run = NoRun
  BY <1>1, RoomIsEmpty DEF Pick
<1>3. \A g \in Handler : handler[g] = Idle
  BY <1>2 DEF Active
<1>4. DOMAIN handler = Handler
  BY DEF IInv, Handlers
<1>5. /\ handler'[h] = [pc |-> "fetch", signal |-> s]
      /\ \A g \in Handler : g # h => handler'[g] = handler[g]
  BY <1>1, <1>4 DEF Pick
<1>6. UNCHANGED <<aUser, aOrg, aMember, stamp, born, emitted, dbUser, dbOrg, dbMember>>
      /\ run' = run
  BY <1>1 DEF Pick, auth0, db
<1> QED
  BY <1>1, <1>2, <1>3, <1>5, <1>6

(* A step of the run is taken with no handler.                             *)
LEMMA RunIsAlone ==
  ASSUME Serial, IInv, OneAtATime, RunStep
  PROVE  /\ Active = {} /\ handler' = handler
         /\ \A h \in Handler : handler[h] = Idle
         /\ UNCHANGED <<aUser, aOrg, aMember, stamp, born, pending, emitted>>
<1>1. FetchOrgs \/ run.pc \in {"users", "members", "write"}
  <2>1. FetchUsers => run.pc = "users"
    BY DEF FetchUsers
  <2>2. \A u \in User : FetchMembers(u) => run.pc = "members"
    BY DEF FetchMembers
  <2>3. Abort \/ ReadRows \/ Commit \/ Rollback => run.pc \in {"members", "write"}
    BY DEF Abort, ReadRows, Commit, Rollback
  <2> QED
    BY <2>1, <2>2, <2>3 DEF RunStep
<1>2. ASSUME FetchOrgs PROVE Active = {}
  <2>1. Room
    BY <1>2 DEF FetchOrgs
  <2> QED
    BY <2>1, RoomIsEmpty
<1>3. ASSUME run.pc \in {"users", "members", "write"} PROVE Active = {}
  <2>1. run # NoRun
    BY <1>3 DEF NoRun
  <2>2. \A h \in Handler : handler[h] = Idle
    BY <2>1 DEF OneAtATime
  <2> QED
    BY <2>2 DEF Active
<1>4. Active = {}
  BY <1>1, <1>2, <1>3
<1>5. handler' = handler /\ UNCHANGED <<aUser, aOrg, aMember, stamp, born, pending, emitted>>
  BY DEF RunStep, FetchOrgs, FetchUsers, FetchMembers, Abort, ReadRows, Commit, Rollback,
         auth0, signals
<1> QED
  BY <1>4, <1>5 DEF Active

(* What a change made in Auth0 does to what the database follows: every    *)
(* difference it makes to a row is told of by a signal.                    *)
ToldChange ==
  /\ UNCHANGED <<dbUser, dbOrg, dbMember, handler, run>>
  /\ pending \subseteq pending' /\ born \subseteq born'
  /\ \A u \in User :
       /\ stamp[u] <= stamp'[u]
       /\ aUser'[u] = aUser[u] \/ Told(u)'
       /\ Told(u) => Told(u)'
       /\ aUser[u] = 0 /\ aUser'[u] # 0 => stamp[u] = 0
  /\ aOrg' \cap born \subseteq aOrg
  /\ \A o \in Org, u \in User :
       \/ o \notin aOrg' \/ aUser'[u] = 0 \/ MemberSignal(o, u) \in pending'
       \/ (<<o, u>> \in aMember') = (<<o, u>> \in aMember)
  /\ \A o \in Org, u \in User :
       <<o, u>> \in aMember' => <<o, u>> \in aMember \/ MemberSignal(o, u) \in pending'

LEMMA Auth0Tells ==
  ASSUME Serial, IInv, Past, Auth0Step
  PROVE  ToldChange
<1>0. /\ aUser \in [User -> Nat] /\ stamp \in [User -> Nat]
      /\ aOrg \subseteq born /\ born \subseteq Org /\ aMember \subseteq aOrg \X InAuth0
      /\ \A u \in User : aUser[u] \in {0, stamp[u]}
  BY DEF IInv, Stamps, Members
<1>1. ASSUME NEW u \in User, SaveUser(u) PROVE ToldChange
  <2>1. /\ UNCHANGED <<dbUser, dbOrg, dbMember, handler, run, aOrg, aMember, born>>
        /\ pending' = pending \cup {UserSignal(u)}
        /\ stamp' = [stamp EXCEPT ![u] = stamp[u] + 1]
        /\ aUser' = [aUser EXCEPT ![u] = stamp[u] + 1]
        /\ aUser[u] = 0 => stamp[u] = 0
    BY <1>1 DEF SaveUser, Emit, db, Serial
  <2>2. \A v \in User : v # u => aUser'[v] = aUser[v] /\ stamp'[v] = stamp[v]
    BY <1>0, <2>1
  <2>3. aUser'[u] = stamp[u] + 1 /\ stamp'[u] = stamp[u] + 1 /\ stamp[u] \in Nat
    BY <1>0, <2>1
  <2>4. Told(u)'
    BY <2>1, <2>3 DEF Told
  <2>5. \A v \in User : v # u => (Told(v) => Told(v)')
    BY <2>1, <2>2 DEF Told
  <2>6. \A v \in User : stamp[v] <= stamp'[v]
    BY <1>0, <2>2, <2>3
  <2> QED
    BY <2>1, <2>2, <2>4, <2>5, <2>6 DEF ToldChange
<1>2. ASSUME NEW u \in User, DeleteUser(u) PROVE ToldChange
  <2>1. /\ UNCHANGED <<dbUser, dbOrg, dbMember, handler, run, aOrg, stamp, born>>
        /\ pending' = pending \cup {DeleteSignal(u)}
        /\ aUser' = [aUser EXCEPT ![u] = 0]
        /\ aMember' = aMember \ Of(u)
    BY <1>2 DEF DeleteUser, Emit, db
  <2>2. \A v \in User : v # u => aUser'[v] = aUser[v]
    BY <1>0, <2>1
  <2>3. aUser'[u] = 0
    BY <1>0, <2>1
  <2>4. Told(u)'
    BY <2>1, <2>3 DEF Told
  <2>5. \A v \in User : v # u => (Told(v) => Told(v)')
    BY <2>1, <2>2 DEF Told
  <2>6. \A v \in User : stamp[v] <= stamp'[v]
    BY <1>0, <2>1
  <2>7. \A o \in Org, v \in User : v # u => (<<o, v>> \in aMember') = (<<o, v>> \in aMember)
    BY <2>1 DEF Of
  <2> QED
    BY <2>1, <2>2, <2>3, <2>4, <2>5, <2>6, <2>7 DEF ToldChange
<1>3. ASSUME NEW o \in Org, CreateOrg(o) \/ DeleteOrg(o) PROVE ToldChange
  <2>1. /\ UNCHANGED <<dbUser, dbOrg, dbMember, handler, run, aUser, stamp, pending>>
        /\ born \subseteq born' /\ aOrg' \cap born \subseteq aOrg
        /\ aMember' \subseteq aMember
        /\ \A x \in aOrg' : \A v \in User : (<<x, v>> \in aMember') = (<<x, v>> \in aMember)
    BY <1>3 DEF CreateOrg, DeleteOrg, db, signals, Pairs
  <2>2. \A v \in User : Told(v)' = Told(v)
    BY <2>1 DEF Told
  <2>3. \A v \in User : stamp[v] <= stamp'[v]
    BY <1>0, <2>1
  <2> QED
    BY <2>1, <2>2, <2>3 DEF ToldChange
<1>4. ASSUME NEW o \in Org, NEW u \in User, AddMember(o, u) \/ RemoveMember(o, u)
      PROVE  ToldChange
  <2>1. /\ UNCHANGED <<dbUser, dbOrg, dbMember, handler, run, aUser, stamp, aOrg, born>>
        /\ pending' = pending \cup {MemberSignal(o, u)}
        /\ aMember' \in {aMember \cup {<<o, u>>}, aMember \ {<<o, u>>}}
    BY <1>4 DEF AddMember, RemoveMember, Emit, db
  <2>2. \A x \in Org, v \in User :
          MemberSignal(x, v) \in pending' \/ (<<x, v>> \in aMember') = (<<x, v>> \in aMember)
    BY <2>1
  <2>3. \A v \in User : Told(v) => Told(v)'
    BY <2>1 DEF Told
  <2>4. \A v \in User : stamp[v] <= stamp'[v]
    BY <1>0, <2>1
  <2> QED
    BY <2>1, <2>2, <2>3, <2>4 DEF ToldChange
<1> QED
  BY <1>1, <1>2, <1>3, <1>4 DEF Auth0Step

------------------------------------------------------------------------------
(* Each conjunct, under each kind of step.                                 *)
LEMMA OneNext ==
  ASSUME Serial, IInv, Past, OneAtATime, [Next]_vars
  PROVE  OneAtATime'
<1>1. ASSUME handler' = handler, run' = run PROVE OneAtATime'
  BY <1>1 DEF OneAtATime, Active
<1>2. CASE UNCHANGED vars
  BY <1>1, <1>2 DEF vars
<1>3. CASE Auth0Step
  BY <1>1, <1>3, Auth0Tells DEF ToldChange
<1>4. ASSUME NEW o \in Org, NEW u \in User, GrantAccess(o, u) PROVE OneAtATime'
  BY <1>1, <1>4 DEF GrantAccess
<1>5. ASSUME NEW h \in Handler, NEW s \in emitted, Deliver(h, s) \/ Redeliver(h, s)
      PROVE  OneAtATime'
  <2>1. run' = NoRun /\ \A g \in Handler : g # h => handler'[g] = Idle
    BY <1>5, PickStarts
  <2>2. handler'[h] = [pc |-> "fetch", signal |-> s]
    BY <1>5, PickStarts
  <2>3. handler'[h] # Idle
    BY <2>2 DEF Idle
  <2> QED
    BY <2>1, <2>3 DEF OneAtATime, Active
<1>6. ASSUME NEW h \in Handler, HandlerStep(h) PROVE OneAtATime'
  <2>1. run' = NoRun /\ \A g \in Handler : g # h => handler'[g] = Idle
    BY <1>6, HandlerIsAlone
  <2> QED
    BY <2>1 DEF OneAtATime, Active
<1>7. CASE RunStep
  BY <1>7, RunIsAlone DEF OneAtATime
<1> QED
  BY <1>2, <1>3, <1>4, <1>5, <1>6, <1>7 DEF Next

(* What the writes are, given what their handler or run has read.          *)
LEMMA WriteUserIs ==
  ASSUME IInv, Reads, NEW h \in Handler, WriteUser(h)
  PROVE  \E u \in User, p \in Nat :
           /\ handler[h].signal = UserSignal(u)
           /\ p # 0 /\ p <= stamp[u] /\ (p = aUser[u] \/ Told(u))
           /\ dbUser' = [dbUser EXCEPT ![u] = p]
           /\ UNCHANGED <<dbOrg, dbMember>> /\ handler'[h] = Idle
<1> DEFINE w == handler[h]  u == w.signal.user
<1>1. At(h, "write", "user") /\ w.signal \in Signal /\ w.profile \in Version
      /\ dbUser \in [User -> Version] /\ handler \in [Handler -> HandlerState]
  BY DEF WriteUser, At, IInv, Handlers, Signals, DbKeys
<1>2. u \in User /\ w.signal = UserSignal(u)
  BY <1>1, SignalForms DEF At
<1>3. w.pc = "write" /\ w.profile \in Nat /\ dbUser[u] \in Nat
  BY <1>1, <1>2, BoundAssumption DEF At, Version
<1>4. /\ w.profile # 0 /\ dbUser[u] <= w.profile /\ w.profile <= stamp[u]
      /\ w.profile = aUser[u] \/ Told(u)
      /\ w.seen = dbUser[u]
  BY <1>1, <1>3 DEF Reads, ReadOfUser
<1>5. Upserted(dbUser[u], w.seen, w.profile) = w.profile
  BY <1>3, <1>4 DEF Upserted
<1>6. dbUser' = [dbUser EXCEPT ![u] = Upserted(dbUser[u], w.seen, w.profile)]
      /\ UNCHANGED <<dbOrg, dbMember>> /\ Finish(h)
  BY DEF WriteUser
<1>7. handler'[h] = Idle
  BY <1>1, <1>6 DEF Finish
<1> QED
  BY <1>2, <1>3, <1>4, <1>5, <1>6, <1>7

LEMMA AddMembershipIs ==
  ASSUME IInv, Reads, NEW h \in Handler, AddMembership(h)
  PROVE  \E o \in Org, u \in User :
           /\ handler[h].signal = MemberSignal(o, u)
           /\ \/ dbUser' = dbUser
              \/ \E n \in Nat : /\ n # 0 /\ n <= stamp[u] /\ (n = aUser[u] \/ Told(u))
                                /\ dbUser' = [dbUser EXCEPT ![u] = n]
           /\ dbOrg' \subseteq dbOrg \cup {o}
           /\ dbMember' \in {dbMember, dbMember \cup {<<o, u>>}}
           /\ aUser[u] # 0 => <<o, u>> \in dbMember'
           /\ handler[h].member /\ handler'[h] = Idle
<1> DEFINE w == handler[h]  o == w.signal.org  u == w.signal.user
<1>1. At(h, "write", "member") /\ w.signal \in Signal /\ w.newUser \in Version
      /\ w.member /\ ~w.had /\ Finish(h)
  BY DEF AddMembership, At, IInv, Handlers, Signals
<1>2. handler \in [Handler -> HandlerState]
  BY DEF IInv, Handlers
<1>3. u \in User /\ o \in Org /\ w.signal = MemberSignal(o, u)
  BY <1>1, SignalForms DEF At
<1>4. w.pc = "write" /\ w.newUser \in Nat
  BY <1>1, BoundAssumption DEF At, Version
<1>5. /\ w.had = (<<o, u>> \in dbMember)
      /\ w.newOrg = (w.member /\ o \notin dbOrg)
      /\ (w.newUser # 0) = (w.member /\ dbUser[u] = 0)
      /\ w.newUser # 0 => w.newUser <= stamp[u] /\ (w.newUser = aUser[u] \/ Told(u))
  BY <1>1, <1>4 DEF Reads, ReadOfMember
<1>6. handler'[h] = Idle
  BY <1>1, <1>2 DEF Finish
<1>7. CASE aUser[u] # 0
  <2>1. /\ dbUser' = IF w.newUser = 0 THEN dbUser ELSE [dbUser EXCEPT ![u] = w.newUser]
        /\ dbOrg' = dbOrg \cup {o}
        /\ dbMember' = dbMember \cup {<<o, u>>}
    BY <1>1, <1>5, <1>7 DEF AddMembership
  <2> HIDE DEF u, o
  <2> QED
    BY <1>1, <1>3, <1>4, <1>5, <1>6, <2>1
<1>8. CASE aUser[u] = 0
  <2>1. UNCHANGED <<dbUser, dbOrg, dbMember>>
    BY <1>8 DEF AddMembership
  <2> HIDE DEF u, o
  <2> QED
    BY <1>1, <1>3, <1>6, <1>8, <2>1
<1> QED
  BY <1>7, <1>8

LEMMA CommitIs ==
  ASSUME IInv, Fetches, Commit
  PROVE  /\ run \in WriteRun /\ FetchedUsers /\ FetchedPairs({}) /\ run.orgs \subseteq born
         /\ \A u \in User : dbUser'[u] = run.users[u]
         /\ dbOrg' = run.orgs /\ run' = NoRun
         /\ \A o \in Org, u \in User :
              (<<o, u>> \in dbMember') =
                (o \in run.orgs /\ run.users[u] # 0 /\ <<o, u>> \in run.members)
<1>1. run.pc = "write"
  BY DEF Commit
<1>2. run \in WriteRun /\ run # NoRun
  BY <1>1, RunStages DEF IInv
<1>3. FetchedUsers /\ FetchedPairs({}) /\ run.orgs \subseteq born /\ run.seen = dbUser
      /\ run.newMembers = run.members \ dbMember
  BY <1>1, <1>2 DEF Fetches
<1>4. dbUser \in [User -> Version] /\ run.users \in [User -> Version]
  BY <1>2 DEF IInv, DbKeys, WriteRun
<1> DEFINE gone == {u \in User : run.users[u] = 0}
<1>5. /\ dbUser' = [u \in User |-> IF u \in gone THEN 0 ELSE SyncedUsers[u]]
      /\ dbOrg' = run.orgs /\ run' = NoRun
      /\ dbMember' = ((dbMember \cup run.newMembers) \cap run.members)
                     \cap (run.orgs \X (User \ gone))
  BY DEF Commit, EndRun
<1>6. ASSUME NEW u \in User PROVE dbUser'[u] = run.users[u]
  <2>1. dbUser[u] \in Nat /\ run.users[u] \in Nat
    BY <1>4, BoundAssumption DEF Version
  <2>2. run.users[u] # 0 => dbUser[u] <= run.users[u]
    BY <1>3 DEF FetchedUsers
  <2>3. SyncedUsers[u] = Upserted(dbUser[u], dbUser[u], run.users[u])
    BY <1>3 DEF SyncedUsers
  <2>4. run.users[u] # 0 => Upserted(dbUser[u], dbUser[u], run.users[u]) = run.users[u]
    BY <2>1, <2>2 DEF Upserted
  <2> QED
    BY <1>5, <2>3, <2>4
<1>7. ASSUME NEW o \in Org, NEW u \in User
      PROVE  (<<o, u>> \in dbMember') =
               (o \in run.orgs /\ run.users[u] # 0 /\ <<o, u>> \in run.members)
  BY <1>3, <1>5
<1> QED
  BY <1>2, <1>3, <1>5, <1>6, <1>7

(* A signal of a deletion is emitted when the user goes, one of a          *)
(* membership when its user and organization are there.                    *)
LEMMA Auth0Emits ==
  ASSUME IInv, Auth0Step
  PROVE  /\ \A u \in User : DeleteSignal(u) \in emitted' =>
              DeleteSignal(u) \in emitted \/ (aUser[u] # 0 /\ aUser'[u] = 0)
         /\ \A o \in Org, u \in User : MemberSignal(o, u) \in emitted' =>
              MemberSignal(o, u) \in emitted \/ (aUser[u] # 0 /\ o \in born)
<1>0. aUser \in [User -> Nat] /\ aOrg \subseteq born /\ aMember \subseteq aOrg \X InAuth0
  BY DEF IInv, Stamps, Members
<1>1. ASSUME NEW u \in User, SaveUser(u)
      PROVE  emitted' = emitted \cup {UserSignal(u)}
  BY <1>1 DEF SaveUser, Emit
<1>2. ASSUME NEW u \in User, DeleteUser(u)
      PROVE  emitted' = emitted \cup {DeleteSignal(u)} /\ aUser[u] # 0 /\ aUser'[u] = 0
  BY <1>0, <1>2 DEF DeleteUser, Emit
<1>3. ASSUME NEW o \in Org, CreateOrg(o) \/ DeleteOrg(o)
      PROVE  emitted' = emitted
  BY <1>3 DEF CreateOrg, DeleteOrg, signals
<1>4. ASSUME NEW o \in Org, NEW u \in User, AddMember(o, u) \/ RemoveMember(o, u)
      PROVE  emitted' = emitted \cup {MemberSignal(o, u)} /\ aUser[u] # 0 /\ o \in born
  BY <1>0, <1>4 DEF AddMember, RemoveMember, Emit, InAuth0
<1>5. \A u, v \in User :
        /\ DeleteSignal(u) # UserSignal(v)
        /\ DeleteSignal(u) = DeleteSignal(v) => u = v
        /\ \A o \in Org :
             /\ MemberSignal(o, u) # UserSignal(v) /\ MemberSignal(o, u) # DeleteSignal(v)
             /\ \A x \in Org : MemberSignal(o, u) = MemberSignal(x, v) => o = x /\ u = v
  BY DEF DeleteSignal, UserSignal, MemberSignal
<1>6. ASSUME NEW u \in User, DeleteSignal(u) \in emitted'
      PROVE  DeleteSignal(u) \in emitted \/ (aUser[u] # 0 /\ aUser'[u] = 0)
  <2>1. ASSUME NEW v \in User, SaveUser(v)
        PROVE  DeleteSignal(u) \in emitted \/ (aUser[u] # 0 /\ aUser'[u] = 0)
    <3>1. emitted' = emitted \cup {UserSignal(v)}
      BY <1>1, <2>1
    <3> QED
      BY <1>5, <1>6, <3>1
  <2>2. ASSUME NEW v \in User, DeleteUser(v)
        PROVE  DeleteSignal(u) \in emitted \/ (aUser[u] # 0 /\ aUser'[u] = 0)
    <3>1. emitted' = emitted \cup {DeleteSignal(v)} /\ aUser[v] # 0 /\ aUser'[v] = 0
      BY <1>2, <2>2
    <3> QED
      BY <1>5, <1>6, <3>1
  <2>3. CASE \E o \in Org : CreateOrg(o) \/ DeleteOrg(o)
    BY <1>3, <1>6, <2>3
  <2>4. CASE \E o \in Org, v \in User : AddMember(o, v) \/ RemoveMember(o, v)
    BY <1>4, <1>5, <1>6, <2>4
  <2> QED
    BY <2>1, <2>2, <2>3, <2>4 DEF Auth0Step
<1>7. ASSUME NEW o \in Org, NEW u \in User, MemberSignal(o, u) \in emitted'
      PROVE  MemberSignal(o, u) \in emitted \/ (aUser[u] # 0 /\ o \in born)
  <2>1. ASSUME NEW v \in User, SaveUser(v)
        PROVE  MemberSignal(o, u) \in emitted \/ (aUser[u] # 0 /\ o \in born)
    <3>1. emitted' = emitted \cup {UserSignal(v)}
      BY <1>1, <2>1
    <3> QED
      BY <1>5, <1>7, <3>1
  <2>2. ASSUME NEW v \in User, DeleteUser(v)
        PROVE  MemberSignal(o, u) \in emitted \/ (aUser[u] # 0 /\ o \in born)
    <3>1. emitted' = emitted \cup {DeleteSignal(v)} /\ aUser[v] # 0 /\ aUser'[v] = 0
      BY <1>2, <2>2
    <3> QED
      BY <1>5, <1>7, <3>1
  <2>3. CASE \E x \in Org : CreateOrg(x) \/ DeleteOrg(x)
    BY <1>3, <1>7, <2>3
  <2>4. CASE \E x \in Org, v \in User : AddMember(x, v) \/ RemoveMember(x, v)
    BY <1>4, <1>5, <1>7, <2>4
  <2> QED
    BY <2>1, <2>2, <2>3, <2>4 DEF Auth0Step
<1> QED
  BY <1>6, <1>7

(* A new row of a user holds a stamp Auth0 gave, and ids are not reused.    *)
LEMMA PastNext ==
  ASSUME Serial, IInv, OneAtATime, Past, Reads, Fetches, [Next]_vars
  PROVE  Past'
<1>0. /\ aUser \in [User -> Nat] /\ stamp \in [User -> Nat]
      /\ aOrg \subseteq born /\ born \subseteq Org /\ aMember \subseteq aOrg \X InAuth0
      /\ \A u \in User : aUser[u] \in {0, stamp[u]}
      /\ dbUser \in [User -> Nat] /\ dbUser \in [User -> Version]
  BY BoundAssumption DEF IInv, Stamps, Members, DbKeys, Version
<1>1. ASSUME UNCHANGED <<aUser, stamp, born, emitted, dbUser, dbOrg>> PROVE Past'
  BY <1>1 DEF Past
<1>2. CASE UNCHANGED vars
  BY <1>1, <1>2 DEF vars, auth0, db, signals
<1>3. CASE Auth0Step
  <2>1. ToldChange
    BY <1>3, Auth0Tells
  <2>2. stamp' \in [User -> Nat]
    BY StampsNext DEF Stamps
  <2>3. \A u \in User : stamp[u] \in Nat /\ stamp'[u] \in Nat /\ stamp[u] <= stamp'[u]
    BY <1>0, <2>1, <2>2 DEF ToldChange
  <2>4. \A u \in User : aUser[u] # 0 => stamp[u] # 0
    BY <1>0
  <2>5. ASSUME NEW u \in User, DeleteSignal(u) \in emitted'
        PROVE  aUser'[u] = 0 /\ stamp'[u] # 0
    <3>1. stamp[u] # 0 /\ aUser'[u] = 0
      BY <2>1, <2>4, <2>5, <1>3, Auth0Emits DEF Past, ToldChange
    <3> QED
      BY <2>3, <3>1
  <2>6. ASSUME NEW o \in Org, NEW u \in User, MemberSignal(o, u) \in emitted'
        PROVE  o \in born' /\ stamp'[u] # 0
    <3>1. stamp[u] # 0 /\ o \in born
      BY <2>4, <2>6, <1>3, Auth0Emits DEF Past
    <3> QED
      BY <2>1, <2>3, <3>1 DEF ToldChange
  <2>7. ASSUME NEW u \in User PROVE dbUser'[u] <= stamp'[u]
    <3>1. dbUser'[u] = dbUser[u] /\ dbUser[u] <= stamp[u] /\ dbUser[u] \in Nat
      BY <1>0, <2>1 DEF Past, ToldChange
    <3> QED
      BY <2>3, <3>1
  <2> QED
    BY <2>1, <2>5, <2>6, <2>7 DEF Past, ToldChange
<1>4. ASSUME NEW o \in Org, NEW u \in User, GrantAccess(o, u) PROVE Past'
  BY <1>1, <1>4 DEF GrantAccess, auth0, signals
<1>5. ASSUME NEW h \in Handler, NEW s \in emitted, Deliver(h, s) \/ Redeliver(h, s)
      PROVE  Past'
  BY <1>1, <1>5, PickStarts
<1>6. ASSUME NEW h \in Handler, HandlerStep(h) PROVE Past'
  <2>1. UNCHANGED <<aUser, stamp, born, emitted>> /\ handler[h].signal \in emitted
    BY <1>6, HandlerIsAlone
  <2>2. ASSUME dbOrg' \subseteq born, \A u \in User : dbUser'[u] <= stamp[u]
        PROVE  Past'
    BY <2>1, <2>2 DEF Past
  <2>3. CASE WriteUser(h)
    BY <1>0, <2>2, <2>3, WriteUserIs DEF Past
  <2>4. CASE AddMembership(h)
    <3>1. PICK o \in Org, u \in User :
            /\ handler[h].signal = MemberSignal(o, u)
            /\ \/ dbUser' = dbUser
               \/ \E n \in Nat : /\ n # 0 /\ n <= stamp[u] /\ (n = aUser[u] \/ Told(u))
                                 /\ dbUser' = [dbUser EXCEPT ![u] = n]
            /\ dbOrg' \subseteq dbOrg \cup {o}
            /\ dbMember' \in {dbMember, dbMember \cup {<<o, u>>}}
            /\ aUser[u] # 0 => <<o, u>> \in dbMember'
            /\ handler[h].member /\ handler'[h] = Idle
      BY <2>4, AddMembershipIs, Zenon
    <3>2. dbOrg' \subseteq born
      BY <2>1, <3>1 DEF Past
    <3>3. \A v \in User : dbUser[v] <= stamp[v]
      BY DEF Past
    <3>4. \A v \in User : dbUser'[v] <= stamp[v]
      BY <1>0, <3>1, <3>3
    <3> QED
      BY <2>2, <3>2, <3>4
  <2>5. CASE DeleteUserRow(h)
    <3>1. dbOrg' = dbOrg /\ \A u \in User : dbUser'[u] \in {0, dbUser[u]}
      BY <1>0, <2>5 DEF DeleteUserRow
    <3> QED
      BY <1>0, <2>2, <3>1 DEF Past
  <2>6. CASE UNCHANGED <<dbUser, dbOrg>>
    BY <1>1, <2>1, <2>6
  <2> QED
    BY <1>6, <2>3, <2>4, <2>5, <2>6 DEF HandlerStep, FetchUser, ReadUser, FetchMember,
       ReadMember, RemoveMembership, KeepMembership, db
<1>7. CASE RunStep
  <2>1. UNCHANGED <<aUser, stamp, born, emitted>>
    BY <1>7, RunIsAlone
  <2>2. CASE Commit
    BY <2>1, <2>2, CommitIs DEF Past, FetchedUsers
  <2>3. CASE UNCHANGED <<dbUser, dbOrg>>
    BY <1>1, <2>1, <2>3
  <2> QED
    BY <1>7, <2>2, <2>3 DEF RunStep, FetchOrgs, FetchUsers, FetchMembers, Abort, ReadRows,
       Rollback, db
<1> QED
  BY <1>2, <1>3, <1>4, <1>5, <1>6, <1>7 DEF Next

(* What a handler has read stays so until a signal tells otherwise.        *)
LEMMA ReadsNext ==
  ASSUME Serial, IInv, OneAtATime, Past, Reads, [Next]_vars
  PROVE  Reads'
<1>0. /\ aUser \in [User -> Nat] /\ stamp \in [User -> Nat]
      /\ aOrg \subseteq born /\ born \subseteq Org /\ aMember \subseteq aOrg \X InAuth0
      /\ \A u \in User : aUser[u] \in {0, stamp[u]}
      /\ dbUser \in [User -> Nat] /\ dbMember \subseteq dbOrg \X InDb
      /\ handler \in [Handler -> HandlerState]
  BY BoundAssumption DEF IInv, Stamps, Members, DbKeys, Version, Handlers
<1>1. ASSUME UNCHANGED <<aUser, stamp, aOrg, aMember, dbUser, dbOrg, dbMember, pending, handler>>
      PROVE  Reads'
  BY <1>1 DEF Reads, ReadOfUser, ReadOfMember, Told, At
<1>2. CASE UNCHANGED vars
  BY <1>1, <1>2 DEF vars, auth0, db, signals
<1>3. CASE Auth0Step
  <2>1. ToldChange
    BY <1>3, Auth0Tells
  <2>2. stamp' \in [User -> Nat]
    BY StampsNext DEF Stamps
  <2>3. \A u \in User : stamp[u] \in Nat /\ stamp'[u] \in Nat /\ stamp[u] <= stamp'[u]
    BY <1>0, <2>1, <2>2 DEF ToldChange
  <2>4. ASSUME NEW h \in Handler, At(h, "read", "user") \/ At(h, "write", "user")
        PROVE  ReadOfUser(h)'
    <3> DEFINE w == handler[h]  u == w.signal.user
    <3>1. w.signal \in Signal /\ w.profile \in Nat
      BY <2>4, BoundAssumption DEF At, IInv, Signals, Handlers, Version
    <3>2. u \in User
      BY <3>1, SignalForms
    <3>3. ReadOfUser(h)
      BY <2>4 DEF Reads
    <3>4. w.profile <= stamp'[u]
      BY <2>3, <3>1, <3>2, <3>3 DEF ReadOfUser
    <3>5. w.profile = aUser'[u] \/ Told(u)'
      BY <2>1, <3>2, <3>3 DEF ReadOfUser, ToldChange
    <3> QED
      BY <2>1, <3>3, <3>4, <3>5 DEF ReadOfUser, ToldChange
  <2>5. ASSUME NEW h \in Handler, At(h, "read", "member") \/ At(h, "write", "member")
        PROVE  ReadOfMember(h)'
    <3> DEFINE w == handler[h]  o == w.signal.org  u == w.signal.user
    <3>1. w.signal \in Signal /\ w.signal \in emitted /\ w.signal.kind = "member"
      BY <2>5 DEF At, IInv, Signals
    <3>2. u \in User /\ o \in Org /\ w.signal = MemberSignal(o, u)
      BY <3>1, SignalForms
    <3>3. ReadOfMember(h) /\ o \in born /\ stamp[u] # 0
      BY <2>5, <3>1, <3>2 DEF Reads, Past
    <3>4. aUser'[u] # 0 /\ o \in aOrg' => aUser[u] # 0 /\ o \in aOrg
      BY <2>1, <3>2, <3>3 DEF ToldChange
    <3>5. aUser'[u] # 0 /\ o \in aOrg' =>
            w.member = (<<o, u>> \in aMember') \/ w.signal \in pending'
      BY <2>1, <3>2, <3>3, <3>4 DEF ReadOfMember, ToldChange
    <3>6. w.pc = "write" => w.newUser \in Nat
      BY <2>5, BoundAssumption DEF At, IInv, Handlers, Version
    <3>7. w.pc = "write" /\ w.newUser # 0 =>
            w.newUser <= stamp'[u] /\ (w.newUser = aUser'[u] \/ Told(u)')
      BY <2>1, <2>3, <3>2, <3>3, <3>6 DEF ReadOfMember, ToldChange
    <3>8. UNCHANGED <<handler, dbUser, dbOrg, dbMember>>
      BY <2>1 DEF ToldChange
    <3> QED
      BY <3>3, <3>5, <3>7, <3>8 DEF ReadOfMember
  <2>6. handler' = handler
    BY <2>1 DEF ToldChange
  <2> QED
    BY <2>4, <2>5, <2>6 DEF Reads, At
<1>4. ASSUME NEW o \in Org, NEW u \in User, GrantAccess(o, u) PROVE Reads'
  BY <1>1, <1>4 DEF GrantAccess, auth0, signals
<1>5. ASSUME NEW h \in Handler, NEW s \in emitted, Deliver(h, s) \/ Redeliver(h, s)
      PROVE  Reads'
  <2>1. handler'[h] = [pc |-> "fetch", signal |-> s]
        /\ \A g \in Handler : g # h => handler'[g] = Idle
    BY <1>5, PickStarts
  <2> QED
    BY <2>1 DEF Reads, At
<1>6. ASSUME NEW h \in Handler, HandlerStep(h) PROVE Reads'
  <2>1. /\ UNCHANGED <<aUser, aOrg, aMember, stamp, pending>>
        /\ handler[h].signal \in Signal
        /\ \A g \in Handler \ {h} : handler'[g] = Idle
    BY <1>6, HandlerIsAlone
  <2>2. CASE handler'[h] = Idle
    BY <2>1, <2>2 DEF Reads, At
  <2>3. CASE FetchUser(h)
    <3> DEFINE u == handler[h].signal.user
               w == [pc |-> "read", signal |-> UserSignal(u), profile |-> aUser[u]]
    <3>1. CASE aUser[u] = 0
      BY <1>0, <2>2, <2>3, <3>1 DEF FetchUser, Finish
    <3>2. CASE aUser[u] # 0
      <4>1. handler'[h] = w /\ dbUser' = dbUser
        BY <1>0, <2>3, <3>2 DEF FetchUser, db
      <4>2. u \in User /\ UserSignal(u).user = u /\ UserSignal(u).kind = "user"
        BY <2>1, SignalForms DEF UserSignal
      <4>3. aUser[u] = stamp[u] /\ dbUser[u] <= stamp[u]
        BY <1>0, <3>2, <4>2 DEF Past
      <4>4. ReadOfUser(h)'
        BY <1>0, <2>1, <3>2, <4>1, <4>2, <4>3 DEF ReadOfUser
      <4>5. handler'[h].signal.kind = "user"
        BY <4>1, <4>2
      <4> QED
        BY <2>1, <4>4, <4>5 DEF Reads, At
    <3> QED
      BY <3>1, <3>2
  <2>4. CASE ReadUser(h)
    <3> DEFINE w == handler[h]  u == w.signal.user
    <3>1. At(h, "read", "user") /\ ReadOfUser(h)
      BY <2>4 DEF ReadUser, Reads
    <3>2. u \in User /\ dbUser' = dbUser
      BY <2>1, <2>4, SignalForms DEF ReadUser, db
    <3>3. handler'[h] = [pc |-> "write", signal |-> w.signal, profile |-> w.profile,
                         seen |-> dbUser[u]]
      BY <1>0, <2>4 DEF ReadUser
    <3>4. ReadOfUser(h)'
      BY <2>1, <3>1, <3>2, <3>3 DEF ReadOfUser, Told
    <3>5. handler'[h].signal.kind = "user"
      BY <3>1, <3>3 DEF At
    <3> QED
      BY <2>1, <3>4, <3>5 DEF Reads, At
  <2>5. CASE FetchMember(h)
    <3> DEFINE s == handler[h].signal
               w == [pc |-> "read", signal |-> s, member |-> <<s.org, s.user>> \in aMember]
    <3>1. CASE aUser[s.user] = 0
      BY <1>0, <2>2, <2>5, <3>1 DEF FetchMember, Finish
    <3>2. CASE aUser[s.user] # 0
      <4>1. handler'[h] = w /\ s.kind = "member"
        BY <1>0, <2>5, <3>2 DEF FetchMember, At
      <4> HIDE DEF s
      <4>2. ReadOfMember(h)'
        BY <2>1, <4>1 DEF ReadOfMember
      <4> QED
        BY <2>1, <4>1, <4>2 DEF Reads, At
    <3> QED
      BY <3>1, <3>2
  <2>6. CASE ReadMember(h)
    <3> DEFINE s == handler[h].signal  o == s.org  u == s.user
               member == handler[h].member
               noUser == member /\ dbUser[u] = 0
               noOrg == member /\ o \notin dbOrg
    <3>1. At(h, "read", "member") /\ ReadOfMember(h) /\ s.kind = "member"
      BY <2>6 DEF ReadMember, Reads, At
    <3>2. u \in User /\ UNCHANGED <<dbUser, dbOrg, dbMember>>
      BY <2>1, <2>6, SignalForms DEF ReadMember, db
    <3>3. CASE (noUser /\ aUser[u] = 0) \/ (noOrg /\ o \notin aOrg)
      BY <1>0, <2>2, <2>6, <3>3 DEF ReadMember, Finish
    <3>4. CASE ~((noUser /\ aUser[u] = 0) \/ (noOrg /\ o \notin aOrg))
      <4> DEFINE new == IF noUser THEN aUser[u] ELSE 0
                 had == <<o, u>> \in dbMember
      <4>1. handler'[h] = [pc |-> "write", signal |-> s, member |-> member,
                           newUser |-> new, newOrg |-> noOrg, had |-> had]
        BY <1>0, <2>6, <3>4 DEF ReadMember
      <4>2. /\ (new # 0) = (member /\ dbUser[u] = 0)
            /\ new # 0 => new <= stamp[u] /\ new = aUser[u]
        BY <1>0, <3>2, <3>4
      <4>3. aUser[u] # 0 /\ o \in aOrg => member = (<<o, u>> \in aMember) \/ s \in pending
        BY <3>1 DEF ReadOfMember
      <4>4. noOrg = (member /\ o \notin dbOrg) /\ had = (<<o, u>> \in dbMember)
        BY <3>1, BoundAssumption DEF IInv, Handlers
      <4> HIDE DEF new, noOrg, had, member, o, u, s
      <4>5. ReadOfMember(h)'
        BY <2>1, <3>2, <4>1, <4>2, <4>3, <4>4 DEF ReadOfMember, o, u
      <4> QED
        BY <2>1, <3>1, <4>1, <4>5 DEF Reads, At
    <3> QED
      BY <3>3, <3>4
  <2>7. CASE WriteUser(h) \/ DeleteUserRow(h) \/ AddMembership(h) \/ RemoveMembership(h)
             \/ KeepMembership(h)
    BY <1>0, <2>2, <2>7 DEF WriteUser, DeleteUserRow, AddMembership, RemoveMembership,
       KeepMembership, Finish
  <2> QED
    BY <1>6, <2>3, <2>4, <2>5, <2>6, <2>7 DEF HandlerStep
<1>7. CASE RunStep
  <2>1. \A h \in Handler : handler'[h] = Idle
    BY <1>7, RunIsAlone
  <2> QED
    BY <2>1 DEF Reads, At
<1> QED
  BY <1>2, <1>3, <1>4, <1>5, <1>6, <1>7 DEF Next

(* What the run has fetched stays so until a signal tells otherwise.       *)
LEMMA FetchesNext ==
  ASSUME Serial, IInv, OneAtATime, Past, Fetches, [Next]_vars
  PROVE  Fetches'
<1>0. /\ aUser \in [User -> Nat] /\ stamp \in [User -> Nat]
      /\ aOrg \subseteq born /\ born \subseteq Org /\ aMember \subseteq aOrg \X InAuth0
      /\ \A u \in User : aUser[u] \in {0, stamp[u]}
      /\ dbUser \in [User -> Nat]
  BY BoundAssumption DEF IInv, Stamps, Members, DbKeys, Version
<1>1. ASSUME UNCHANGED <<aUser, stamp, aOrg, born, aMember, dbUser, dbOrg, dbMember, pending, run>>
      PROVE  Fetches'
  BY <1>1 DEF Fetches, FetchedUsers, FetchedPairs, Told
<1>2. CASE UNCHANGED vars
  BY <1>1, <1>2 DEF vars, auth0, db, signals
<1>3. ASSUME run' = NoRun PROVE Fetches'
  BY <1>3 DEF Fetches, NoRun
<1>4. CASE Auth0Step
  <2>1. ToldChange
    BY <1>4, Auth0Tells
  <2>2. stamp' \in [User -> Nat]
    BY StampsNext DEF Stamps
  <2>3. \A u \in User : stamp[u] \in Nat /\ stamp'[u] \in Nat /\ stamp[u] <= stamp'[u]
    BY <1>0, <2>1, <2>2 DEF ToldChange
  <2>4. UNCHANGED <<run, dbUser, dbOrg, dbMember>>
    BY <2>1 DEF ToldChange
  <2>5. run # NoRun => run.orgs \subseteq born'
    BY <2>1 DEF Fetches, ToldChange
  <2>6. ASSUME run.pc = "users", ~run.errors, NEW o \in Org, NEW u \in User,
               <<o, u>> \in aMember'
        PROVE  o \in run.orgs \/ MemberSignal(o, u) \in pending'
    BY <2>1, <2>6 DEF Fetches, ToldChange
  <2>7. ASSUME run \in MembersRun \cup WriteRun, FetchedUsers
        PROVE  FetchedUsers'
    <3> SUFFICES ASSUME NEW u \in User
                 PROVE  /\ run.users[u] <= stamp'[u]
                        /\ run.users[u] = aUser'[u] \/ Told(u)'
                        /\ run.users[u] # 0 => dbUser[u] <= run.users[u]
      BY <2>4 DEF FetchedUsers
    <3>1. run.users[u] \in Nat
      BY <2>7, BoundAssumption DEF MembersRun, WriteRun, Version
    <3>2. run.users[u] <= stamp'[u]
      BY <2>3, <2>7, <3>1 DEF FetchedUsers
    <3> QED
      BY <2>1, <2>7, <3>2 DEF FetchedUsers, ToldChange
  <2>8. ASSUME run \in MembersRun \cup WriteRun, FetchedUsers, run.orgs \subseteq born,
               NEW left, FetchedPairs(left), NEW o \in aOrg', NEW u \in User
        PROVE  \/ aUser'[u] = 0 \/ MemberSignal(o, u) \in pending'
               \/ run.users[u] # 0 /\ u \in left /\ (<<o, u>> \in aMember' => o \in run.orgs)
               \/ (<<o, u>> \in aMember') =
                    (o \in run.orgs /\ run.users[u] # 0 /\ <<o, u>> \in run.members)
    <3>1. o \in Org
      BY MembersNext DEF Members
    <3>2. CASE aUser'[u] = 0 \/ MemberSignal(o, u) \in pending'
      BY <3>2
    <3>3. CASE aUser'[u] # 0 /\ MemberSignal(o, u) \notin pending'
      <4>1. (<<o, u>> \in aMember') = (<<o, u>> \in aMember)
            /\ MemberSignal(o, u) \notin pending
        BY <2>1, <3>1, <3>3 DEF ToldChange
      <4>2. CASE o \in aOrg /\ aUser[u] # 0
        BY <2>8, <3>1, <4>1, <4>2 DEF FetchedPairs
      <4>3. CASE o \notin aOrg
        <5>1. o \notin run.orgs /\ <<o, u>> \notin aMember
          BY <1>0, <2>1, <2>8, <4>3 DEF ToldChange
        <5> QED
          BY <4>1, <5>1
      <4>4. CASE aUser[u] = 0
        <5>1. stamp[u] = 0 /\ <<o, u>> \notin aMember
          BY <1>0, <2>1, <3>3, <4>4 DEF ToldChange, InAuth0
        <5>2. run.users[u] = 0
          BY <2>8, <5>1, BoundAssumption DEF FetchedUsers, MembersRun, WriteRun, Version
        <5> QED
          BY <4>1, <5>1, <5>2
      <4> QED
        BY <4>2, <4>3, <4>4
    <3> QED
      BY <3>2, <3>3
  <2>9. ASSUME run.pc = "members", ~run.errors
        PROVE  FetchedUsers' /\ FetchedPairs(run.left)'
    <3>1. run \in MembersRun /\ FetchedUsers /\ FetchedPairs(run.left) /\ run.orgs \subseteq born
      BY <2>9, RunStages DEF IInv, Fetches
    <3> QED
      BY <2>4, <2>7, <2>8, <3>1 DEF FetchedPairs
  <2>10. ASSUME run.pc = "write"
         PROVE  FetchedUsers' /\ FetchedPairs({})'
    <3>1. run \in WriteRun /\ FetchedUsers /\ FetchedPairs({}) /\ run.orgs \subseteq born
      BY <2>10, RunStages DEF IInv, Fetches
    <3>2. FetchedUsers'
      BY <2>7, <3>1
    <3>3. ASSUME NEW o \in aOrg', NEW u \in User
          PROVE  \/ aUser'[u] = 0 \/ MemberSignal(o, u) \in pending'
                 \/ (<<o, u>> \in aMember') =
                      (o \in run.orgs /\ run.users[u] # 0 /\ <<o, u>> \in run.members)
      <4>1. \/ aUser'[u] = 0 \/ MemberSignal(o, u) \in pending'
            \/ run.users[u] # 0 /\ u \in {} /\ (<<o, u>> \in aMember' => o \in run.orgs)
            \/ (<<o, u>> \in aMember') =
                 (o \in run.orgs /\ run.users[u] # 0 /\ <<o, u>> \in run.members)
        BY <2>8, <3>1
      <4> QED
        BY <4>1
    <3>4. FetchedPairs({})'
      BY <2>4, <3>3 DEF FetchedPairs
    <3> QED
      BY <3>2, <3>4
  <2> QED
    BY <2>4, <2>5, <2>6, <2>9, <2>10 DEF Fetches
<1>5. ASSUME NEW o \in Org, NEW u \in User, GrantAccess(o, u) PROVE Fetches'
  BY <1>1, <1>5 DEF GrantAccess, auth0, signals
<1>6. ASSUME NEW h \in Handler, NEW s \in emitted, Deliver(h, s) \/ Redeliver(h, s)
      PROVE  Fetches'
  BY <1>3, <1>6, PickStarts
<1>7. ASSUME NEW h \in Handler, HandlerStep(h) PROVE Fetches'
  BY <1>3, <1>7, HandlerIsAlone
<1>8. CASE RunStep
  <2>0. UNCHANGED <<aUser, aOrg, aMember, stamp, born, pending>>
    BY <1>8, RunIsAlone
  <2>1. CASE FetchOrgs
    <3>1. PICK failed \in BOOLEAN, got \in SUBSET Org :
            /\ run' = [pc |-> "users", orgs |-> got, errors |-> failed]
            /\ got \subseteq aOrg /\ (~failed => got = aOrg)
      BY <2>1 DEF FetchOrgs, Fetched
    <3>2. run'.pc = "users" /\ run'.orgs = got /\ run'.errors = failed
      BY <3>1
    <3> QED
      BY <1>0, <2>0, <3>1, <3>2 DEF Fetches
  <2>2. CASE FetchUsers
    <3>1. PICK failed \in BOOLEAN, got \in SUBSET User :
            /\ run.pc = "users"
            /\ run' = [pc |-> "members", orgs |-> run.orgs,
                       users |-> [u \in User |-> IF u \in got THEN aUser[u] ELSE 0],
                       left |-> got, members |-> {},
                       errors |-> run.errors \/ failed]
            /\ ~failed => got = InAuth0
      BY <2>2 DEF FetchUsers, Fetched
    <3>2. /\ run'.pc = "members" /\ run'.orgs = run.orgs /\ run'.left = got
          /\ run'.members = {} /\ run'.errors = (run.errors \/ failed)
          /\ run'.users = [u \in User |-> IF u \in got THEN aUser[u] ELSE 0]
      BY <3>1
    <3>3. run # NoRun /\ run.orgs \subseteq born
      BY <3>1 DEF Fetches, NoRun
    <3>4. dbUser' = dbUser
      BY <2>2 DEF FetchUsers, db
    <3>5. ASSUME ~run'.errors PROVE FetchedUsers' /\ FetchedPairs(run.left)'
      <4>1. ~run.errors /\ got = InAuth0
        BY <3>1, <3>2, <3>5
      <4>2. \A u \in User : run'.users[u] = aUser[u]
        BY <3>2, <4>1 DEF InAuth0
      <4>3. FetchedUsers'
        BY <1>0, <2>0, <3>4, <4>2 DEF FetchedUsers, Past
      <4>4. \A o \in Org, u \in User :
              <<o, u>> \in aMember => o \in run.orgs \/ MemberSignal(o, u) \in pending
        BY <3>1, <4>1 DEF Fetches
      <4>5. FetchedPairs(run.left)'
        BY <1>0, <2>0, <3>2, <4>1, <4>2, <4>4 DEF FetchedPairs, InAuth0
      <4> QED
        BY <4>3, <4>5
    <3> QED
      BY <2>0, <3>2, <3>3, <3>5 DEF Fetches
  <2>3. ASSUME NEW u \in User, FetchMembers(u) PROVE Fetches'
    <3>1. PICK failed \in BOOLEAN, got \in SUBSET Of(u) :
            /\ run.pc = "members" /\ u \in run.left
            /\ run' = [run EXCEPT !.left = run.left \ {u},
                                  !.members = run.members \cup got,
                                  !.errors = run.errors \/ failed \/ aUser[u] = 0]
            /\ ~failed => got = aMember \cap Of(u)
      BY <2>3 DEF FetchMembers, Fetched
    <3>2. run \in MembersRun /\ run # NoRun
      BY <3>1, RunStages DEF IInv
    <3>3. /\ run'.pc = "members" /\ run'.orgs = run.orgs /\ run'.users = run.users
          /\ run'.left = run.left \ {u} /\ run'.members = run.members \cup got
          /\ ~run'.errors => ~run.errors /\ ~failed /\ aUser[u] # 0
      BY <3>1, <3>2 DEF MembersRun
    <3>4. run.orgs \subseteq born /\ run.members \cap (Org \X run.left) = {}
      BY <3>1, <3>2 DEF Fetches
    <3>5. run'.members \cap (Org \X run'.left) = {}
      BY <3>3, <3>4 DEF Of
    <3>6. dbUser' = dbUser
      BY <2>3 DEF FetchMembers, db
    <3>7. ASSUME ~run'.errors PROVE FetchedUsers' /\ FetchedPairs(run.left)'
      <4>1. ~run.errors /\ got = aMember \cap Of(u)
        BY <3>1, <3>3, <3>7
      <4>2. FetchedUsers /\ FetchedPairs(run.left)
        BY <3>1, <4>1 DEF Fetches
      <4>3. FetchedUsers'
        BY <2>0, <3>3, <3>6, <4>2 DEF FetchedUsers, Told
      <4>4. ASSUME NEW o \in aOrg, NEW v \in User
            PROVE  \/ aUser[v] = 0 \/ MemberSignal(o, v) \in pending
                   \/ /\ run.users[v] # 0 /\ v \in run.left \ {u}
                      /\ <<o, v>> \in aMember => o \in run.orgs
                   \/ (<<o, v>> \in aMember) =
                        (o \in run.orgs /\ run.users[v] # 0 /\ <<o, v>> \in run'.members)
        <5>1. \/ aUser[v] = 0 \/ MemberSignal(o, v) \in pending
              \/ run.users[v] # 0 /\ v \in run.left /\ (<<o, v>> \in aMember => o \in run.orgs)
              \/ (<<o, v>> \in aMember) =
                   (o \in run.orgs /\ run.users[v] # 0 /\ <<o, v>> \in run.members)
          BY <4>2 DEF FetchedPairs
        <5>2. o \in Org
          BY <1>0
        <5>3. CASE v # u
          <6>1. <<o, v>> \notin got
            BY <5>3 DEF Of
          <6> QED
            BY <3>3, <5>1, <5>3, <6>1
        <5>4. CASE v = u
          <6>1. <<o, v>> \notin run.members
            BY <3>1, <3>4, <5>2, <5>4
          <6>2. (<<o, v>> \in run'.members) = (<<o, v>> \in aMember)
            BY <3>3, <4>1, <5>2, <5>4, <6>1 DEF Of
          <6> QED
            BY <5>1, <6>1, <6>2
        <5> QED
          BY <5>3, <5>4
      <4>5. FetchedPairs(run.left)'
        BY <2>0, <3>3, <4>4 DEF FetchedPairs
      <4> QED
        BY <4>3, <4>5
    <3> QED
      BY <2>0, <3>3, <3>4, <3>5, <3>7 DEF Fetches
  <2>4. CASE ReadRows
    <3>1. /\ run.pc = "members" /\ run.left = {} /\ ~run.errors
          /\ run' = [pc |-> "write", orgs |-> run.orgs, users |-> run.users,
                     members |-> run.members, seen |-> dbUser,
                     newOrgs |-> run.orgs \ dbOrg, newMembers |-> run.members \ dbMember]
          /\ UNCHANGED <<dbUser, dbOrg, dbMember>>
      BY <2>4 DEF ReadRows, Fetching, Complete, db
    <3>2. /\ run'.pc = "write" /\ run'.orgs = run.orgs /\ run'.users = run.users
          /\ run'.members = run.members /\ run'.seen = dbUser
          /\ run'.newOrgs = run.orgs \ dbOrg /\ run'.newMembers = run.members \ dbMember
      BY <3>1
    <3>3. run # NoRun /\ FetchedUsers /\ FetchedPairs(run.left)
      BY <3>1, RunStages DEF IInv, Fetches
    <3>4. FetchedUsers'
      BY <2>0, <3>1, <3>2, <3>3 DEF FetchedUsers, Told
    <3>5. FetchedPairs({})'
      BY <2>0, <3>1, <3>2, <3>3 DEF FetchedPairs
    <3> QED
      BY <2>0, <3>1, <3>2, <3>3, <3>4, <3>5 DEF Fetches
  <2>5. CASE Abort \/ Commit \/ Rollback
    BY <1>3, <2>5 DEF Abort, Commit, Rollback, EndRun
  <2> QED
    BY <1>8, <2>1, <2>2, <2>3, <2>4, <2>5 DEF RunStep
<1> QED
  BY <1>2, <1>4, <1>5, <1>6, <1>7, <1>8 DEF Next

(* The end of a handler, given what it has done to the rows: what the      *)
(* signal was to repair is repaired, or another is pending.                *)
LEMMA RepairedAtEnd ==
  ASSUME IInv, OneAtATime, Repaired, NEW h \in Handler, HandlerStep(h), handler'[h] = Idle,
         \A u \in User :
           \/ dbUser'[u] = aUser[u] \/ Told(u)
           \/ /\ dbUser'[u] = dbUser[u]
              /\ aUser[u] = 0 => handler[h].signal # DeleteSignal(u)
              /\ aUser[u] # 0 => handler[h].signal # UserSignal(u),
         \A o \in aOrg, u \in User :
           \/ aUser[u] = 0 \/ MemberSignal(o, u) \in pending
           \/ (<<o, u>> \in dbMember') = (<<o, u>> \in aMember)
           \/ /\ (<<o, u>> \in dbMember') = (<<o, u>> \in dbMember)
              /\ handler[h].signal # MemberSignal(o, u)
  PROVE  Repaired'
<1>1. /\ UNCHANGED <<aUser, aOrg, aMember, pending>>
      /\ \A g \in Handler \ {h} : handler[g] = Idle
  BY HandlerIsAlone
<1>2. \A s : (\E g \in Handler : Handling(g, s)) => handler[h].signal = s
  BY <1>1 DEF Handling
<1>3. ASSUME NEW u \in User PROVE dbUser'[u] = aUser[u] \/ Told(u)
  BY <1>2 DEF Repaired
<1>4. ASSUME NEW o \in aOrg, NEW u \in User
      PROVE  \/ aUser[u] = 0 \/ MemberSignal(o, u) \in pending
             \/ (<<o, u>> \in dbMember') = (<<o, u>> \in aMember)
  BY <1>2 DEF Repaired
<1> QED
  BY <1>1, <1>3, <1>4 DEF Repaired, Told

(* A handler that goes on keeps its signal.                                *)
LEMMA RepairedOnTheWay ==
  ASSUME IInv, OneAtATime, Repaired, NEW h \in Handler, HandlerStep(h),
         handler'[h] # Idle, handler'[h].signal = handler[h].signal,
         UNCHANGED <<dbUser, dbMember>>
  PROVE  Repaired'
<1>1. /\ UNCHANGED <<aUser, aOrg, aMember, pending>>
      /\ \A g \in Handler \ {h} : handler[g] = Idle
  BY HandlerIsAlone
<1>2. \A s : (\E g \in Handler : Handling(g, s)) => Handling(h, s)'
  BY <1>1 DEF Handling
<1> QED
  BY <1>1, <1>2 DEF Repaired, Told

LEMMA RepairedByHandler ==
  ASSUME IInv, OneAtATime, Past, Reads, Repaired, NEW h \in Handler, HandlerStep(h)
  PROVE  Repaired'
<1> DEFINE s == handler[h].signal
<1>0. /\ UNCHANGED <<aUser, aOrg, aMember, pending>>
      /\ s \in Signal /\ s \in emitted
  BY HandlerIsAlone
<1>1. /\ handler \in [Handler -> HandlerState] /\ dbUser \in [User -> Version]
      /\ aUser \in [User -> Nat] /\ aOrg \subseteq Org
  BY DEF IInv, Handlers, DbKeys, Stamps, Members
<1>2. \A u, v \in User :
        /\ DeleteSignal(u) # UserSignal(v) /\ UserSignal(u) # DeleteSignal(v)
        /\ DeleteSignal(u) = DeleteSignal(v) => u = v
        /\ UserSignal(u) = UserSignal(v) => u = v
        /\ \A o \in Org :
             /\ MemberSignal(o, u) # UserSignal(v) /\ UserSignal(v) # MemberSignal(o, u)
             /\ MemberSignal(o, u) # DeleteSignal(v) /\ DeleteSignal(v) # MemberSignal(o, u)
             /\ \A x \in Org : MemberSignal(o, u) = MemberSignal(x, v) => o = x /\ u = v
  BY DEF DeleteSignal, UserSignal, MemberSignal
<1>3. CASE FetchUser(h)
  <2> DEFINE u == s.user
  <2>1. u \in User /\ s = UserSignal(u) /\ UNCHANGED <<dbUser, dbMember>>
    BY <1>0, <1>3, SignalForms DEF FetchUser, At, db
  <2>2. CASE aUser[u] = 0
    <3>1. handler'[h] = Idle
      BY <1>1, <1>3, <2>2 DEF FetchUser, Finish
    <3> HIDE DEF s, u
    <3> QED
      BY <1>1, <1>2, <2>1, <2>2, <3>1, RepairedAtEnd DEF s
  <2>3. CASE aUser[u] # 0
    <3>1. handler'[h] = [pc |-> "read", signal |-> UserSignal(u), profile |-> aUser[u]]
      BY <1>1, <1>3, <2>3 DEF FetchUser
    <3>2. handler'[h] # Idle /\ handler'[h].signal = s
      BY <2>1, <3>1 DEF Idle
    <3> QED
      BY <2>1, <3>2, RepairedOnTheWay
  <2> QED
    BY <2>2, <2>3
<1>4. CASE ReadUser(h)
  <2>1. /\ handler'[h] = [pc |-> "write", signal |-> s, profile |-> handler[h].profile,
                          seen |-> dbUser[s.user]]
        /\ UNCHANGED <<dbUser, dbMember>>
    BY <1>1, <1>4 DEF ReadUser, db
  <2>2. handler'[h] # Idle /\ handler'[h].signal = s
    BY <2>1 DEF Idle
  <2> QED
    BY <2>1, <2>2, RepairedOnTheWay
<1>5. CASE WriteUser(h)
  <2>1. PICK u \in User, p \in Nat :
          /\ s = UserSignal(u) /\ (p = aUser[u] \/ Told(u))
          /\ dbUser' = [dbUser EXCEPT ![u] = p]
          /\ UNCHANGED <<dbOrg, dbMember>> /\ handler'[h] = Idle
    BY <1>5, WriteUserIs
  <2> HIDE DEF s
  <2>2. \A v \in User : \/ dbUser'[v] = aUser[v] \/ Told(v)
                        \/ dbUser'[v] = dbUser[v] /\ s # DeleteSignal(v) /\ s # UserSignal(v)
    BY <1>1, <1>2, <2>1
  <2>3. \A o \in aOrg, v \in User : s # MemberSignal(o, v)
    BY <1>1, <1>2, <2>1
  <2> QED
    BY <2>1, <2>2, <2>3, RepairedAtEnd DEF s
<1>6. CASE DeleteUserRow(h)
  <2> DEFINE u == s.user
  <2>1. u \in User /\ s = DeleteSignal(u)
    BY <1>0, <1>6, SignalForms DEF DeleteUserRow, At
  <2>2. aUser[u] = 0
    BY <1>0, <2>1 DEF Past
  <2>3. /\ dbUser' = [dbUser EXCEPT ![u] = 0]
        /\ dbMember' = dbMember \ (Org \X {u}) /\ handler'[h] = Idle
    BY <1>1, <1>6 DEF DeleteUserRow, DropUsers, Finish
  <2> HIDE DEF s, u
  <2>4. \A v \in User : \/ dbUser'[v] = aUser[v]
                        \/ dbUser'[v] = dbUser[v] /\ s # DeleteSignal(v) /\ s # UserSignal(v)
    BY <1>1, <1>2, <2>1, <2>2, <2>3
  <2>5. \A o \in aOrg, v \in User :
          \/ aUser[v] = 0
          \/ (<<o, v>> \in dbMember') = (<<o, v>> \in dbMember) /\ s # MemberSignal(o, v)
    BY <1>1, <1>2, <2>1, <2>2, <2>3
  <2> QED
    BY <2>3, <2>4, <2>5, RepairedAtEnd DEF s
<1>7. CASE FetchMember(h)
  <2> DEFINE o == s.org  u == s.user
  <2>1. /\ u \in User /\ o \in Org /\ s = MemberSignal(o, u)
        /\ UNCHANGED <<dbUser, dbMember>>
    BY <1>0, <1>7, SignalForms DEF FetchMember, At, db
  <2>2. CASE aUser[u] = 0
    <3>1. handler'[h] = Idle
      BY <1>1, <1>7, <2>2 DEF FetchMember, Finish
    <3> HIDE DEF s, u, o
    <3>2. \A v \in User : s # DeleteSignal(v) /\ s # UserSignal(v)
      BY <1>2, <2>1
    <3>3. \A x \in aOrg, v \in User : aUser[v] = 0 \/ s # MemberSignal(x, v)
      BY <1>1, <1>2, <2>1, <2>2
    <3> QED
      BY <2>1, <3>1, <3>2, <3>3, RepairedAtEnd DEF s
  <2>3. CASE aUser[u] # 0
    <3>1. handler'[h] = [pc |-> "read", signal |-> s, member |-> <<o, u>> \in aMember]
      BY <1>1, <1>7, <2>3 DEF FetchMember
    <3>2. handler'[h] # Idle /\ handler'[h].signal = s
      BY <3>1 DEF Idle
    <3> QED
      BY <2>1, <3>2, RepairedOnTheWay
  <2> QED
    BY <2>2, <2>3
<1>8. CASE ReadMember(h)
  <2> DEFINE o == s.org  u == s.user  member == handler[h].member
             noUser == member /\ dbUser[u] = 0
             noOrg == member /\ o \notin dbOrg
             new == IF noUser THEN aUser[u] ELSE 0
             had == <<o, u>> \in dbMember
  <2>1. /\ u \in User /\ o \in Org /\ s = MemberSignal(o, u)
        /\ UNCHANGED <<dbUser, dbMember>>
    BY <1>0, <1>8, SignalForms DEF ReadMember, At, db
  <2>2. CASE (noUser /\ aUser[u] = 0) \/ (noOrg /\ o \notin aOrg)
    <3>1. handler'[h] = Idle
      BY <1>1, <1>8, <2>2 DEF ReadMember, Finish
    <3>2. aUser[u] = 0 \/ o \notin aOrg
      BY <2>2
    <3> HIDE DEF s, u, o
    <3>3. \A v \in User : s # DeleteSignal(v) /\ s # UserSignal(v)
      BY <1>2, <2>1
    <3>4. \A x \in aOrg, v \in User : aUser[v] = 0 \/ s # MemberSignal(x, v)
      BY <1>1, <1>2, <2>1, <3>2
    <3> QED
      BY <2>1, <3>1, <3>3, <3>4, RepairedAtEnd DEF s
  <2>3. CASE ~((noUser /\ aUser[u] = 0) \/ (noOrg /\ o \notin aOrg))
    <3>1. handler'[h] = [pc |-> "write", signal |-> s, member |-> member,
                         newUser |-> new, newOrg |-> noOrg, had |-> had]
      BY <1>1, <1>8, <2>3 DEF ReadMember
    <3> HIDE DEF new, noOrg, had, member
    <3>2. handler'[h] # Idle /\ handler'[h].signal = s
      BY <3>1 DEF Idle
    <3> QED
      BY <2>1, <3>2, RepairedOnTheWay
  <2> QED
    BY <2>2, <2>3
<1>9. CASE AddMembership(h)
  <2>1. PICK o \in Org, u \in User :
          /\ s = MemberSignal(o, u)
          /\ \/ dbUser' = dbUser
             \/ \E n \in Nat : /\ n # 0 /\ n <= stamp[u] /\ (n = aUser[u] \/ Told(u))
                               /\ dbUser' = [dbUser EXCEPT ![u] = n]
          /\ dbOrg' \subseteq dbOrg \cup {o}
          /\ dbMember' \in {dbMember, dbMember \cup {<<o, u>>}}
          /\ aUser[u] # 0 => <<o, u>> \in dbMember'
          /\ handler[h].member /\ handler'[h] = Idle
    BY <1>9, AddMembershipIs, Zenon
  <2>2. ReadOfMember(h) /\ s.org = o /\ s.user = u
    BY <1>9, <2>1 DEF AddMembership, Reads, MemberSignal
  <2>3. aUser[u] = 0 \/ o \notin aOrg \/ <<o, u>> \in aMember \/ MemberSignal(o, u) \in pending
    BY <2>1, <2>2 DEF ReadOfMember
  <2> HIDE DEF s
  <2>4. \A v \in User : \/ dbUser'[v] = aUser[v] \/ Told(v)
                        \/ dbUser'[v] = dbUser[v] /\ s # DeleteSignal(v) /\ s # UserSignal(v)
    BY <1>1, <1>2, <2>1
  <2>5. \A x \in aOrg, v \in User :
          \/ aUser[v] = 0 \/ MemberSignal(x, v) \in pending
          \/ (<<x, v>> \in dbMember') = (<<x, v>> \in aMember)
          \/ (<<x, v>> \in dbMember') = (<<x, v>> \in dbMember) /\ s # MemberSignal(x, v)
    BY <1>1, <1>2, <2>1, <2>3
  <2> QED
    BY <2>1, <2>4, <2>5, RepairedAtEnd DEF s
<1>10. CASE RemoveMembership(h) \/ KeepMembership(h)
  <2> DEFINE o == s.org  u == s.user
  <2>1. /\ u \in User /\ o \in Org /\ s = MemberSignal(o, u)
        /\ dbUser' = dbUser /\ handler'[h] = Idle
        /\ At(h, "write", "member") /\ ReadOfMember(h)
    <3>1. At(h, "write", "member") /\ dbUser' = dbUser /\ Finish(h)
      BY <1>10 DEF RemoveMembership, KeepMembership, At, db
    <3> QED
      BY <1>0, <1>1, <3>1, SignalForms DEF At, Finish, Reads
  <2>2. /\ (<<o, u>> \in dbMember') = handler[h].member
        /\ \A p \in Org \X User : p # <<o, u>> => (p \in dbMember') = (p \in dbMember)
    <3>1. handler[h].had = (<<o, u>> \in dbMember) /\ handler[h].member \in BOOLEAN
      BY <2>1 DEF At, ReadOfMember, IInv, Handlers
    <3>2. \/ ~handler[h].member /\ dbMember' = dbMember \ {<<o, u>>}
          \/ handler[h].member = handler[h].had /\ dbMember' = dbMember
      BY <1>10 DEF RemoveMembership, KeepMembership, db
    <3> QED
      BY <3>1, <3>2
  <2>3. \/ aUser[u] = 0 \/ o \notin aOrg \/ MemberSignal(o, u) \in pending
        \/ (<<o, u>> \in dbMember') = (<<o, u>> \in aMember)
    BY <2>1, <2>2 DEF ReadOfMember
  <2> HIDE DEF s, u, o
  <2>4. \A v \in User : s # DeleteSignal(v) /\ s # UserSignal(v)
    BY <1>2, <2>1
  <2>5. \A x \in aOrg, v \in User :
          \/ aUser[v] = 0 \/ MemberSignal(x, v) \in pending
          \/ (<<x, v>> \in dbMember') = (<<x, v>> \in aMember)
          \/ (<<x, v>> \in dbMember') = (<<x, v>> \in dbMember) /\ s # MemberSignal(x, v)
    BY <1>1, <1>2, <2>1, <2>2, <2>3
  <2> QED
    BY <2>1, <2>4, <2>5, RepairedAtEnd DEF s
<1> QED
  BY <1>3, <1>4, <1>5, <1>6, <1>7, <1>8, <1>9, <1>10 DEF HandlerStep

(* Every difference of a row is being repaired.                            *)
LEMMA RepairedNext ==
  ASSUME Serial, IInv, OneAtATime, Past, Reads, Fetches, Repaired, [Next]_vars
  PROVE  Repaired'
<1>0. /\ aUser \in [User -> Nat] /\ stamp \in [User -> Nat]
      /\ aOrg \subseteq born /\ born \subseteq Org /\ aMember \subseteq aOrg \X InAuth0
      /\ \A u \in User : aUser[u] \in {0, stamp[u]}
      /\ dbUser \in [User -> Nat] /\ dbMember \subseteq dbOrg \X InDb
  BY BoundAssumption DEF IInv, Stamps, Members, DbKeys, Version
<1>1. ASSUME UNCHANGED <<aUser, aOrg, aMember, dbUser, dbMember, pending, handler>>
      PROVE  Repaired'
  BY <1>1 DEF Repaired, Told, Handling
<1>2. CASE UNCHANGED vars
  BY <1>1, <1>2 DEF vars, auth0, db, signals
<1>3. CASE Auth0Step
  <2>1. ToldChange
    BY <1>3, Auth0Tells
  <2>2. \A h \in Handler, s \in Signal : Handling(h, s)' = Handling(h, s)
    BY <2>1 DEF Handling, ToldChange
  <2>3. ASSUME NEW u \in User
        PROVE  \/ dbUser'[u] = aUser'[u] \/ Told(u)'
               \/ aUser'[u] = 0 /\ \E h \in Handler : Handling(h, DeleteSignal(u))'
               \/ aUser'[u] # 0 /\ \E h \in Handler : Handling(h, UserSignal(u))'
    BY <2>1, <2>2, <2>3, SignalsAre DEF Repaired, ToldChange
  <2>4. ASSUME NEW o \in aOrg', NEW u \in User
        PROVE  \/ aUser'[u] = 0 \/ MemberSignal(o, u) \in pending'
               \/ (<<o, u>> \in dbMember') = (<<o, u>> \in aMember')
               \/ \E h \in Handler : Handling(h, MemberSignal(o, u))'
    <3>1. o \in Org
      BY MembersNext DEF Members
    <3> SUFFICES ASSUME aUser'[u] # 0, MemberSignal(o, u) \notin pending'
                 PROVE  \/ (<<o, u>> \in dbMember') = (<<o, u>> \in aMember')
                        \/ \E h \in Handler : Handling(h, MemberSignal(o, u))'
      OBVIOUS
    <3>2. (<<o, u>> \in aMember') = (<<o, u>> \in aMember) /\ dbMember' = dbMember
          /\ MemberSignal(o, u) \notin pending
      BY <2>1, <3>1 DEF ToldChange
    <3>3. CASE o \in aOrg /\ aUser[u] # 0
      BY <2>2, <3>1, <3>2, <3>3, SignalsAre DEF Repaired
    <3>4. CASE o \notin aOrg
      <4>1. o \notin dbOrg
        BY <2>1, <3>4 DEF Past, ToldChange
      <4> QED
        BY <1>0, <3>2, <3>4, <4>1
    <3>5. CASE aUser[u] = 0
      <4>1. stamp[u] = 0
        BY <2>1, <3>5 DEF ToldChange
      <4>2. dbUser[u] = 0
        BY <1>0, <4>1 DEF Past
      <4> QED
        BY <1>0, <3>2, <3>5, <4>2 DEF InAuth0, InDb
    <3> QED
      BY <3>3, <3>4, <3>5
  <2> QED
    BY <2>3, <2>4 DEF Repaired
<1>4. ASSUME NEW o \in Org, NEW u \in User, GrantAccess(o, u) PROVE Repaired'
  BY <1>1, <1>4 DEF GrantAccess, auth0, signals
<1>5. ASSUME NEW h \in Handler, NEW s \in emitted, Deliver(h, s) \/ Redeliver(h, s)
      PROVE  Repaired'
  <2>1. /\ handler'[h] = [pc |-> "fetch", signal |-> s]
        /\ \A g \in Handler : handler[g] = Idle
        /\ UNCHANGED <<aUser, aOrg, aMember, dbUser, dbMember>>
        /\ pending \ {s} \subseteq pending'
    BY <1>5, PickStarts
  <2>2. Handling(h, s)'
    BY <2>1 DEF Handling, Idle
  <2>3. \A t \in pending : t \in pending' \/ Handling(h, t)'
    BY <2>1, <2>2
  <2>4. ASSUME NEW u \in User
        PROVE  \/ dbUser'[u] = aUser'[u] \/ Told(u)'
               \/ aUser'[u] = 0 /\ \E g \in Handler : Handling(g, DeleteSignal(u))'
               \/ aUser'[u] # 0 /\ \E g \in Handler : Handling(g, UserSignal(u))'
    <3>1. dbUser[u] = aUser[u] \/ Told(u)
      BY <2>1 DEF Repaired, Handling
    <3> QED
      BY <2>1, <2>3, <3>1 DEF Told
  <2>5. ASSUME NEW o \in aOrg, NEW u \in User
        PROVE  \/ aUser[u] = 0 \/ MemberSignal(o, u) \in pending'
               \/ (<<o, u>> \in dbMember) = (<<o, u>> \in aMember)
               \/ \E g \in Handler : Handling(g, MemberSignal(o, u))'
    <3>1. \/ aUser[u] = 0 \/ MemberSignal(o, u) \in pending
          \/ (<<o, u>> \in dbMember) = (<<o, u>> \in aMember)
      BY <2>1 DEF Repaired, Handling
    <3> QED
      BY <2>3, <3>1
  <2> QED
    BY <2>1, <2>4, <2>5 DEF Repaired
<1>6. ASSUME NEW h \in Handler, HandlerStep(h) PROVE Repaired'
  BY <1>6, RepairedByHandler
<1>7. CASE RunStep
  <2>1. UNCHANGED <<aUser, aOrg, aMember, pending, handler>>
    BY <1>7, RunIsAlone
  <2>2. CASE UNCHANGED <<dbUser, dbMember>>
    BY <1>1, <2>1, <2>2
  <2>3. CASE Commit
    <3>1. \A u \in User : dbUser'[u] = aUser[u] \/ Told(u)
      BY <2>3, CommitIs DEF FetchedUsers
    <3>2. ASSUME NEW o \in aOrg, NEW u \in User
          PROVE  \/ aUser[u] = 0 \/ MemberSignal(o, u) \in pending
                 \/ (<<o, u>> \in dbMember') = (<<o, u>> \in aMember)
      <4>1. \/ aUser[u] = 0 \/ MemberSignal(o, u) \in pending
            \/ (<<o, u>> \in aMember) =
                 (o \in run.orgs /\ run.users[u] # 0 /\ <<o, u>> \in run.members)
        BY <2>3, CommitIs DEF FetchedPairs
      <4>2. o \in Org
        BY <1>0
      <4> QED
        BY <2>3, <4>1, <4>2, CommitIs
    <3> QED
      BY <2>1, <3>1, <3>2 DEF Repaired, Told
  <2> QED
    BY <1>7, <2>2, <2>3 DEF RunStep, FetchOrgs, FetchUsers, FetchMembers, Abort, ReadRows,
       Rollback, db
<1> QED
  BY <1>2, <1>3, <1>4, <1>5, <1>6, <1>7 DEF Next

------------------------------------------------------------------------------
LEMMA InitFollowed == Init => Followed
<1> SUFFICES ASSUME Init PROVE Followed
  OBVIOUS
<1>1. OneAtATime /\ Reads /\ Fetches
  BY DEF Init, OneAtATime, Reads, Fetches, At, NoRun
<1>2. \A u \in User : stamp[u] \in Nat /\ dbUser[u] = aUser[u] /\ dbUser[u] <= stamp[u]
  BY InitIInv DEF Init, IInv, Stamps
<1>3. Past
  BY <1>2 DEF Init, Past
<1>4. Repaired
  BY <1>2 DEF Init, Repaired
<1> QED
  BY <1>1, <1>3, <1>4 DEF Followed

LEMMA NextFollowed ==
  ASSUME Serial, IInv, Followed, [Next]_vars
  PROVE  Followed'
<1>1. OneAtATime /\ Past /\ Reads /\ Fetches /\ Repaired
  BY DEF Followed
<1>2. OneAtATime' /\ Past'
  BY <1>1, OneNext, PastNext
<1>3. Reads' /\ Fetches'
  BY <1>1, ReadsNext, FetchesNext
<1>4. Repaired'
  BY <1>1, RepairedNext
<1> QED
  BY <1>2, <1>3, <1>4 DEF Followed

(* The inductive invariant of one handler or run at a time.                *)
THEOREM SerialInvariance ==
  ASSUME Serial
  PROVE  Spec => []Followed
<1>1. IInv /\ Followed /\ [Next]_vars => Followed'
  BY NextFollowed
<1> QED
  BY <1>1, InitFollowed, Invariance, PTL DEF Spec

(* When no signal is left and nothing is active, the users of the database *)
(* and the memberships of every organization Auth0 has are those of Auth0: *)
(* process_auth0_event fetches after its signal was emitted and commits    *)
(* what it fetched, so a change that falls in between is told of by a      *)
(* later signal, and the nightly run undoes nothing for good.              *)
THEOREM SerialHandlersKeepInSync ==
  ASSUME Serial
  PROVE  Spec => []QuietInSync
<1>1. ASSUME IInv, Followed, pending = {}, Active = {}
      PROVE  dbUser = aUser /\ dbMember \cap (aOrg \X User) = aMember
  <2>0. /\ aUser \in [User -> Nat] /\ aOrg \subseteq Org /\ dbOrg \subseteq Org
        /\ aMember \subseteq aOrg \X InAuth0
        /\ dbUser \in [User -> Version] /\ dbMember \subseteq dbOrg \X InDb
    BY <1>1 DEF IInv, Stamps, Members, DbKeys
  <2>1. \A h \in Handler : \A s : ~Handling(h, s)
    BY <1>1 DEF Handling, Active
  <2>2. \A u \in User : dbUser[u] = aUser[u]
    BY <1>1, <2>1 DEF Followed, Repaired, Told
  <2>3. ASSUME NEW o \in aOrg, NEW u \in User
        PROVE  (<<o, u>> \in dbMember) = (<<o, u>> \in aMember)
    <3>1. aUser[u] = 0 \/ (<<o, u>> \in dbMember) = (<<o, u>> \in aMember)
      BY <1>1, <2>1 DEF Followed, Repaired
    <3>2. aUser[u] = 0 => <<o, u>> \notin dbMember /\ <<o, u>> \notin aMember
      BY <2>0, <2>2 DEF InAuth0, InDb
    <3> QED
      BY <3>1, <3>2
  <2>4. dbUser = aUser
    BY <2>0, <2>2
  <2>5. dbMember \cap (aOrg \X User) = aMember
    BY <2>0, <2>3 DEF InAuth0
  <2> QED
    BY <2>4, <2>5
<1>2. IInv /\ Followed => QuietInSync
  BY <1>1 DEF QuietInSync
<1> QED
  BY <1>2, SerialInvariance, Invariance, PTL
=============================================================================
