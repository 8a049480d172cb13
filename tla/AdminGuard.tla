----------------------------- MODULE AdminGuard -----------------------------
(***************************************************************************)
(* Who administers the panel: first setup, and the requests that create,   *)
(* change and delete accounts (internal/api/setup.go, user_handlers.go).   *)
(*                                                                         *)
(* Each request has its own goroutine and each statement of the database   *)
(* is a step, so that the requests of several administrators interleave.   *)
(* Of a role only matters whether it is that of the administrators; any    *)
(* active account may have the permission to change others. What else an   *)
(* account holds is left out, and two requests that are equal and equally  *)
(* far are one.                                                            *)
(***************************************************************************)
EXTENDS Naturals, FiniteSets

CONSTANTS
  Logins,      (* accounts there may be               *)
  MaxAsks      (* bound: requests in progress at once *)

ASSUME AdminAssumption == IsFiniteSet(Logins) /\ MaxAsks \in Nat

VARIABLES
  person,      (* of each account: its role and status, or Absent             *)
  asks,        (* requests in progress                                        *)
  unread       (* history: a request went on although what its check needs    *)
               (* could not be read                                           *)

adminVars == <<person, asks, unread>>

Absent == [role |-> "none", status |-> "none"]
Person(role, status) == [role |-> role, status |-> status]
RoleCodes == {"admin", "other"}
Statuses == {"active", "disabled"}
Keep == "keep"   \* the request leaves the field alone

isActiveAdmin(p) == p = Person("admin", "active")
CountActiveAdmins(except) == Cardinality({u \in Logins \ {except} : isActiveAdmin(person[u])})

GuardInit == person = [u \in Logins |-> Absent] /\ asks = {} /\ unread = FALSE

\* A mutex makes the check that nobody exists and the INSERT one step.
setup(u) ==
  /\ \A v \in Logins : person[v] = Absent
  /\ person' = [person EXCEPT ![u] = Person("admin", "active")]
  /\ UNCHANGED <<asks, unread>>

createUser(u, role) ==
  /\ \E v \in Logins : person[v].status = "active"
  /\ person[u] = Absent
  /\ person' = [person EXCEPT ![u] = Person(role, "active")]
  /\ UNCHANGED <<asks, unread>>

\* The caller is authenticated and the target read: seen is what UserByID
\* returned. Nobody disables or deletes himself.
Arrives(op, by, u, role, status) ==
  /\ Cardinality(asks) < MaxAsks
  /\ person[by].status = "active" /\ person[u] # Absent
  /\ (by = u => op = "update" /\ status # "disabled")
  /\ asks' = asks \cup {[op |-> op, id |-> u, role |-> role, status |-> status,
                         seen |-> person[u], others |-> 0, step |-> "read"]}
  /\ UNCHANGED <<person, unread>>

Goes(r, s) == asks' = (asks \ {r}) \cup {s}
Ends(r) == asks' = asks \ {r}

Downgrade(r) == r.status = "disabled" \/ r.role = "other"

\* An active administrator is only downgraded if another one is counted.
CheckUpdate(r) ==
  /\ r.op = "update" /\ r.step = "read"
  /\ IF isActiveAdmin(r.seen) /\ Downgrade(r) /\ CountActiveAdmins(r.id) = 0
       THEN Ends(r)
       ELSE Goes(r, [r EXCEPT !.step = "status"])
  /\ UNCHANGED <<person, unread>>

\* The target's role, or the new one, cannot be read: the target passes for
\* none of the administrators, or the change for no downgrade.
CheckUpdateUnread(r) ==
  /\ r.op = "update" /\ r.step = "read" /\ r.seen.status = "active"
  /\ Goes(r, [r EXCEPT !.step = "status"])
  /\ unread' = TRUE
  /\ UNCHANGED person

UpdateField(r, field, value) ==
  person' = IF value = Keep \/ person[r.id] = Absent THEN person
            ELSE [person EXCEPT ![r.id][field] = value]

UpdateUserStatus(r) ==
  /\ r.op = "update" /\ r.step = "status"
  /\ UpdateField(r, "status", r.status)
  /\ Goes(r, [r EXCEPT !.step = "role"])
  /\ UNCHANGED unread

UpdateUserRole(r) ==
  /\ r.op = "update" /\ r.step = "role"
  /\ UpdateField(r, "role", r.role)
  /\ Ends(r)
  /\ UNCHANGED unread

\* deleteUser counts the others first and reads the target again.
CountOthers(r) ==
  /\ r.op = "delete" /\ r.step = "read"
  /\ Goes(r, [r EXCEPT !.step = "counted", !.others = CountActiveAdmins(r.id)])
  /\ UNCHANGED <<person, unread>>

CheckDelete(r) ==
  /\ r.op = "delete" /\ r.step = "counted"
  /\ IF isActiveAdmin(person[r.id]) /\ r.others = 0
       THEN Ends(r)
       ELSE Goes(r, [r EXCEPT !.step = "delete"])
  /\ UNCHANGED <<person, unread>>

\* The error of the second reading is dropped, as is that of the role's.
CheckDeleteUnread(r) ==
  /\ r.op = "delete" /\ r.step = "counted"
  /\ Goes(r, [r EXCEPT !.step = "delete"])
  /\ unread' = TRUE
  /\ UNCHANGED person

DeleteUser(r) ==
  /\ r.op = "delete" /\ r.step = "delete"
  /\ person' = [person EXCEPT ![r.id] = Absent]
  /\ Ends(r)
  /\ UNCHANGED unread

\* The count or a statement that writes fails, or the panel ends: what was
\* written stays.
AskFails(r) == Ends(r) /\ UNCHANGED <<person, unread>>

GuardNext ==
  \/ \E u \in Logins :
       \/ setup(u)
       \/ \E role \in RoleCodes : createUser(u, role)
       \/ \E by \in Logins :
            \/ Arrives("delete", by, u, Keep, Keep)
            \/ \E role \in RoleCodes \cup {Keep}, status \in Statuses \cup {Keep} :
                 Arrives("update", by, u, role, status)
  \/ \E r \in asks :
       \/ CheckUpdate(r) \/ CheckUpdateUnread(r) \/ UpdateUserStatus(r) \/ UpdateUserRole(r)
       \/ CountOthers(r) \/ CheckDelete(r) \/ CheckDeleteUnread(r) \/ DeleteUser(r)
       \/ AskFails(r)

GuardSpec == GuardInit /\ [][GuardNext]_adminVars

-----------------------------------------------------------------------------
(* Properties *)

\* Types of the variables.
GuardTypeOK ==
  /\ person \in [Logins -> [role : RoleCodes, status : Statuses] \cup {Absent}]
  /\ unread \in BOOLEAN
  /\ \A r \in asks :
       /\ r.op \in {"update", "delete"} /\ r.id \in Logins
       /\ r.step \in {"read", "status", "role", "counted", "delete"}
       /\ r.role \in RoleCodes \cup {Keep} /\ r.status \in Statuses \cup {Keep}
       /\ r.seen \in [role : RoleCodes, status : Statuses] /\ r.others \in 0..Cardinality(Logins)

Administered ==
  (\E u \in Logins : person[u] # Absent) => \E u \in Logins : isActiveAdmin(person[u])

\* At least one active administrator is kept (the refusal of updateUser and of
\* deleteUser says so), nothing being said once a request went on although its
\* check could not read the target or a role: alone it may take the last one.
AdminRemains == unread \/ Administered
=============================================================================
